----------------------------- MODULE Policies_proofs -----------------------------
(***************************************************************************)
(* Proofs about PolicyService, for any handlers, policies, algorithms,     *)
(* params that requests carry and bound on the versions; about             *)
(* DashboardSync, for any visits of any pages and any other clients; and   *)
(* about Gateway, for any number of requests.  The two run PolicyService,  *)
(* and use what is proved of it.                                           *)
(***************************************************************************)
EXTENDS Gateway, DashboardSync, TLAPS

USE PolicyAssumption

-----------------------------------------------------------------------------
(***************************************************************************)
(* The inductive invariant.                                                *)
(***************************************************************************)

\* What an update is about to write is already canonical.
WritingFits ==
    \A h \in Handlers :
        admin[h].pc = "write" =>
            Fits(admin[h].columns.algorithm, admin[h].columns.params)

\* Rows are never deleted, so whatever was read from one is still there.
TargetsExist ==
    /\ active # NoActive => Exists(active.policy_id)
    /\ \A h \in Handlers :
        admin[h].pc \in {"reset", "upsert"} => Exists(admin[h].id)

PolicyInv ==
    /\ PolicyTypeOK
    /\ PairsFit
    /\ VersionCountsWrites
    /\ WritingFits
    /\ TargetsExist

-----------------------------------------------------------------------------
(***************************************************************************)
(* What validation stores.                                                 *)
(***************************************************************************)
LEMMA StoredFits ==
    ASSUME NEW columns \in Columns
    PROVE  /\ Stored(columns) \in Columns
           /\ Fits(Stored(columns).algorithm, Stored(columns).params)
<1> DEFINE c == Canonical(columns.algorithm, columns.params)
<1>1. \A n \in Nat : Whole(n) \in Nat /\ Whole(n) % 2 = 0
    BY DEF Whole
<1>2. c \in [Families -> Nat] /\ Fits(columns.algorithm, c)
    BY <1>1 DEF Canonical, Fits, Columns
<1> HIDE DEF c
<1>3. Stored(columns) = [algorithm |-> columns.algorithm, params |-> c,
                         enabled |-> columns.enabled]
    BY DEF Stored, Columns, c
<1> QED BY <1>2, <1>3 DEF Columns

LEMMA RowTyped ==
    ASSUME NEW columns \in Columns, NEW n \in Nat \ {0},
           Fits(columns.algorithm, columns.params)
    PROVE  /\ Row(columns, n) \in Rows
           /\ Row(columns, n) # NoRow
           /\ Row(columns, n).version = n
           /\ Fits(Row(columns, n).algorithm, Row(columns, n).params)
BY DEF Row, Rows, NoRow, Columns

\* A row that is there is typed.
LEMMA ExistingRow ==
    ASSUME PolicyTypeOK, NEW id \in Policies
    PROVE  /\ policies[id].version \in Nat
           /\ Exists(id) => policies[id] \in Rows
BY DEF PolicyTypeOK, Exists, Rows, NoRow

\* What a handler holds follows from its program counter.
LEMMA Holds ==
    ASSUME PolicyTypeOK, NEW h \in Handlers
    PROVE  /\ admin[h].pc = "write" => admin[h] \in Writing
           /\ admin[h].pc \in {"reset", "upsert"} => admin[h] \in Activating
BY DEF PolicyTypeOK, Idle, Writing, Activating

-----------------------------------------------------------------------------
(***************************************************************************)
(* The invariant is inductive.                                             *)
(***************************************************************************)
LEMMA InitPolicyInv == PolicyInit => PolicyInv
BY DEF PolicyInit, PolicyInv, PolicyTypeOK, PairsFit, VersionCountsWrites,
       WritingFits, TargetsExist, Exists, Idle, NoRow

\* A row may be replaced by any canonical one with the next version.
LEMMA RowReplaced ==
    ASSUME PolicyInv, NEW id \in Policies, NEW columns \in Columns,
           Fits(columns.algorithm, columns.params),
           NEW n \in Nat \ {0},
           policies' = [policies EXCEPT ![id] = Row(columns, n)],
           writes' = [writes EXCEPT ![id] = n]
    PROVE  /\ policies' \in [Policies -> Rows \cup {NoRow}]
           /\ writes' \in [Policies -> Nat]
           /\ PairsFit'
           /\ VersionCountsWrites'
           /\ \A p \in Policies : Exists(p) => Exists(p)'
<1>1. /\ Row(columns, n) \in Rows
      /\ Row(columns, n).version = n
      /\ Row(columns, n) # NoRow
      /\ Fits(Row(columns, n).algorithm, Row(columns, n).params)
    BY RowTyped
<1>2. /\ policies' \in [Policies -> Rows \cup {NoRow}]
      /\ writes' \in [Policies -> Nat]
    BY <1>1 DEF PolicyInv, PolicyTypeOK
<1>3. PairsFit'
    <2> SUFFICES ASSUME NEW p \in Policies, policies'[p] # NoRow
                 PROVE  Fits(policies'[p].algorithm, policies'[p].params)
        BY DEF PairsFit, Exists, Fits
    <2>1. CASE p = id
        BY <1>1, <2>1 DEF PolicyInv, PolicyTypeOK
    <2>2. CASE p # id
        BY <2>2 DEF PolicyInv, PolicyTypeOK, PairsFit, Exists
    <2> QED BY <2>1, <2>2
<1>4. VersionCountsWrites'
    <2> SUFFICES ASSUME NEW p \in Policies
                 PROVE  policies'[p].version = writes'[p]
        BY DEF VersionCountsWrites
    <2>1. CASE p = id
        BY <1>1, <2>1 DEF PolicyInv, PolicyTypeOK
    <2>2. CASE p # id
        BY <2>2 DEF PolicyInv, PolicyTypeOK, VersionCountsWrites
    <2> QED BY <2>1, <2>2
<1>5. \A p \in Policies : Exists(p) => Exists(p)'
    BY <1>1 DEF PolicyInv, PolicyTypeOK, Exists
<1> QED BY <1>2, <1>3, <1>4, <1>5

\* A handler may be cleared, or go on with an activation.
LEMMA HandlerMoves ==
    ASSUME PolicyInv, NEW h \in Handlers, NEW state \in {Idle} \cup Activating,
           admin' = [admin EXCEPT ![h] = state],
           UNCHANGED <<policies, writes>>,
           active' \in [policy_id : Policies, algorithm : Algorithms]
                           \cup {NoActive},
           active' # NoActive => Exists(active'.policy_id),
           state # Idle => Exists(state.id)
    PROVE  PolicyInv'
<1>1. PolicyTypeOK'
    BY DEF PolicyInv, PolicyTypeOK
<1>2. PairsFit' /\ VersionCountsWrites'
    BY DEF PolicyInv, PairsFit, VersionCountsWrites, Exists, Fits
<1>3. WritingFits'
    <2> SUFFICES ASSUME NEW g \in Handlers, admin'[g].pc = "write"
                 PROVE  Fits(admin'[g].columns.algorithm,
                             admin'[g].columns.params)
        BY DEF WritingFits, Fits
    <2>1. g # h
        BY DEF PolicyInv, PolicyTypeOK, Idle, Activating
    <2> QED BY <2>1 DEF PolicyInv, PolicyTypeOK, WritingFits
<1>4. TargetsExist'
    <2>1. UNCHANGED policies
        OBVIOUS
    <2>2. active' # NoActive => policies'[active'.policy_id] # NoRow
        BY <2>1 DEF Exists
    <2>3. ASSUME NEW g \in Handlers, admin'[g].pc \in {"reset", "upsert"}
          PROVE  policies'[admin'[g].id] # NoRow
        <3>1. CASE g = h
            BY <2>1, <2>3, <3>1 DEF PolicyInv, PolicyTypeOK, Idle, Exists
        <3>2. CASE g # h
            BY <2>1, <2>3, <3>2 DEF PolicyInv, PolicyTypeOK, TargetsExist, Exists
        <3> QED BY <3>1, <3>2
    <2> QED BY <2>2, <2>3 DEF TargetsExist, Exists, NoActive, NoRow
<1> QED BY <1>1, <1>2, <1>3, <1>4 DEF PolicyInv

\* Targets that are not changed stay as long as rows do.
LEMMA TargetsKept ==
    ASSUME PolicyTypeOK, TargetsExist, UNCHANGED active,
           \A p \in Policies : Exists(p) => Exists(p)',
           \A h \in Handlers :
               admin'[h].pc \in {"reset", "upsert"} => admin'[h] = admin[h]
    PROVE  TargetsExist'
<1>1. active' # NoActive => policies'[active'.policy_id] # NoRow
    BY DEF PolicyTypeOK, TargetsExist, Exists, NoRow
<1>2. ASSUME NEW h \in Handlers, admin'[h].pc \in {"reset", "upsert"}
      PROVE  policies'[admin'[h].id] # NoRow
    <2>1. admin[h] \in Activating /\ admin'[h] = admin[h]
        BY <1>2, Holds
    <2>2. admin[h].id \in Policies /\ Exists(admin[h].id)
        BY <1>2, <2>1 DEF Activating, TargetsExist
    <2> QED BY <2>1, <2>2 DEF Exists, NoRow
<1> QED BY <1>1, <1>2 DEF TargetsExist, Exists, NoActive, NoRow

LEMMA CreatePreserves ==
    ASSUME PolicyInv, CreateSome
    PROVE  PolicyInv'
<1>1. PICK id \in Policies, columns \in Columns : Create(id, columns)
    BY DEF CreateSome, Columns
<1>2. /\ policies' = [policies EXCEPT ![id] = Row(Stored(columns), 1)]
      /\ writes' = [writes EXCEPT ![id] = 1]
      /\ UNCHANGED <<active, admin>>
    BY <1>1 DEF Create
<1>3. /\ policies' \in [Policies -> Rows \cup {NoRow}]
      /\ writes' \in [Policies -> Nat]
      /\ PairsFit' /\ VersionCountsWrites'
      /\ \A p \in Policies : Exists(p) => Exists(p)'
    <2> DEFINE s == Stored(columns)
    <2>1. s \in Columns /\ Fits(s.algorithm, s.params)
        BY StoredFits
    <2> HIDE DEF s
    <2>2. 1 \in Nat \ {0}
        OBVIOUS
    <2> QED BY <1>2, <2>1, <2>2, RowReplaced DEF s
<1>4. PolicyTypeOK'
    BY <1>2, <1>3 DEF PolicyInv, PolicyTypeOK
<1>5. WritingFits'
    BY <1>2 DEF PolicyInv, WritingFits, Fits
<1>6. TargetsExist'
    BY <1>2, <1>3, TargetsKept DEF PolicyInv
<1> QED BY <1>3, <1>4, <1>5, <1>6 DEF PolicyInv

LEMMA StartUpdatePreserves ==
    ASSUME PolicyInv, NEW h \in Handlers, StartUpdate(h)
    PROVE  PolicyInv'
<1>1. PICK id \in Policies :
          /\ Exists(id)
          /\ \E columns \in Merges(policies[id]) : UpdateRead(h, id, columns)
    BY DEF StartUpdate
<1> PICK columns \in Merges(policies[id]) : UpdateRead(h, id, columns)
    BY <1>1
<1>2. policies[id] \in Rows
    BY <1>1, ExistingRow DEF PolicyInv
<1>3. columns \in Columns /\ policies[id].version \in Nat
    BY <1>1, <1>2 DEF Merges, Columns, Rows
<1> DEFINE s == Stored(columns)
           writing == [pc |-> "write", id |-> id,
                       read |-> policies[id].version, columns |-> s]
<1>4. /\ admin' = [admin EXCEPT ![h] = writing]
      /\ UNCHANGED <<policies, active, writes>>
    BY DEF UpdateRead
<1>5. s \in Columns /\ Fits(s.algorithm, s.params)
    BY <1>3, StoredFits
<1> HIDE DEF s
<1>6. writing \in Writing /\ writing.columns = s
    BY <1>3, <1>5 DEF Writing
<1> HIDE DEF writing
<1>7. PolicyTypeOK'
    BY <1>4, <1>6 DEF PolicyInv, PolicyTypeOK
<1>8. PairsFit' /\ VersionCountsWrites'
    BY <1>4 DEF PolicyInv, PairsFit, VersionCountsWrites, Exists, Fits
<1>9. WritingFits'
    <2> SUFFICES ASSUME NEW g \in Handlers, admin'[g].pc = "write"
                 PROVE  Fits(admin'[g].columns.algorithm,
                             admin'[g].columns.params)
        BY DEF WritingFits, Fits
    <2>1. CASE g = h
        BY <1>4, <1>5, <1>6, <2>1 DEF PolicyInv, PolicyTypeOK
    <2>2. CASE g # h
        BY <1>4, <2>2 DEF PolicyInv, PolicyTypeOK, WritingFits
    <2> QED BY <2>1, <2>2
<1>10. TargetsExist'
    <2>1. \A g \in Handlers :
              admin'[g].pc \in {"reset", "upsert"} => admin'[g] = admin[g]
        BY <1>4, <1>6 DEF PolicyInv, PolicyTypeOK, Writing
    <2>2. \A p \in Policies : Exists(p) => Exists(p)'
        BY <1>4 DEF Exists
    <2> QED BY <1>4, <2>1, <2>2, TargetsKept DEF PolicyInv
<1> QED BY <1>7, <1>8, <1>9, <1>10 DEF PolicyInv

LEMMA UpdateWritePreserves ==
    ASSUME PolicyInv, NEW h \in Handlers, UpdateWrite(h)
    PROVE  PolicyInv'
<1> DEFINE id == admin[h].id
           columns == admin[h].columns
           n == policies[id].version + 1
<1>1. admin[h].pc = "write" /\ admin[h] \in Writing
    BY Holds DEF UpdateWrite, PolicyInv
<1>2. /\ id \in Policies
      /\ columns \in Columns
      /\ Fits(columns.algorithm, columns.params)
    BY <1>1 DEF Writing, PolicyInv, WritingFits
<1>3. n \in Nat \ {0} /\ writes[id] + 1 = n
    BY <1>2, ExistingRow DEF PolicyInv, VersionCountsWrites
<1>4. /\ policies' = [policies EXCEPT ![id] = Row(columns, n)]
      /\ writes' = [writes EXCEPT ![id] = n]
      /\ admin' = [admin EXCEPT ![h] = Idle]
      /\ UNCHANGED active
    BY <1>2, <1>3 DEF UpdateWrite, Written, NextVersion, PolicyInv, PolicyTypeOK
<1> HIDE DEF id, columns, n
<1>5. /\ policies' \in [Policies -> Rows \cup {NoRow}]
      /\ writes' \in [Policies -> Nat]
      /\ PairsFit' /\ VersionCountsWrites'
      /\ \A p \in Policies : Exists(p) => Exists(p)'
    BY <1>2, <1>3, <1>4, RowReplaced
<1>6. PolicyTypeOK'
    BY <1>4, <1>5 DEF PolicyInv, PolicyTypeOK
<1>7. WritingFits'
    <2> SUFFICES ASSUME NEW g \in Handlers, admin'[g].pc = "write"
                 PROVE  Fits(admin'[g].columns.algorithm,
                             admin'[g].columns.params)
        BY DEF WritingFits, Fits
    <2>1. g # h
        BY <1>4 DEF PolicyInv, PolicyTypeOK, Idle
    <2> QED BY <1>4, <2>1 DEF PolicyInv, PolicyTypeOK, WritingFits
<1>8. TargetsExist'
    <2>1. \A g \in Handlers :
              admin'[g].pc \in {"reset", "upsert"} => admin'[g] = admin[g]
        BY <1>4 DEF PolicyInv, PolicyTypeOK, Idle
    <2> QED BY <1>4, <1>5, <2>1, TargetsKept DEF PolicyInv
<1> QED BY <1>5, <1>6, <1>7, <1>8 DEF PolicyInv

LEMMA ActivationPreserves ==
    ASSUME PolicyInv, NEW h \in Handlers,
           \/ \E id \in Policies, reset \in BOOLEAN : ActivateRead(h, id, reset)
           \/ ResetDone(h) \/ ResetFail(h)
           \/ Upsert(h) \/ UpsertFail(h) \/ UpdateFail(h)
    PROVE  PolicyInv'
<1>1. ASSUME NEW id \in Policies, NEW reset \in BOOLEAN,
             ActivateRead(h, id, reset)
      PROVE  PolicyInv'
    <2> DEFINE state == [pc |-> IF reset THEN "reset" ELSE "upsert", id |-> id,
                         algorithm |-> policies[id].algorithm, reset |-> reset]
    <2>1. policies[id] \in Rows
        BY <1>1, ExistingRow DEF ActivateRead, PolicyInv
    <2>2. state \in Activating
        BY <2>1 DEF Activating, Rows
    <2>3. /\ admin' = [admin EXCEPT ![h] = state]
          /\ UNCHANGED <<policies, active, writes>>
        BY <1>1 DEF ActivateRead
    <2>4. state # Idle => Exists(state.id)
        BY <1>1 DEF ActivateRead
    <2>5. active' # NoActive => Exists(active'.policy_id)
        BY <2>3 DEF PolicyInv, TargetsExist
    <2> HIDE DEF state
    <2> QED BY <2>2, <2>3, <2>4, <2>5, HandlerMoves DEF PolicyInv, PolicyTypeOK
<1>2. CASE ResetDone(h)
    <2> DEFINE state == [admin[h] EXCEPT !.pc = "upsert"]
    <2>1. admin[h] \in Activating
        BY <1>2, Holds DEF ResetDone, PolicyInv
    <2>2. state \in Activating
        BY <2>1 DEF Activating
    <2>3. /\ admin' = [admin EXCEPT ![h] = state]
          /\ UNCHANGED <<policies, active, writes>>
        BY <1>2 DEF ResetDone
    <2>4. state # Idle => Exists(state.id)
        BY <1>2, <2>1 DEF ResetDone, PolicyInv, TargetsExist, Activating
    <2>5. active' # NoActive => Exists(active'.policy_id)
        BY <2>3 DEF PolicyInv, TargetsExist
    <2> HIDE DEF state
    <2> QED BY <2>2, <2>3, <2>4, <2>5, HandlerMoves DEF PolicyInv, PolicyTypeOK
<1>3. CASE Upsert(h)
    <2>1. admin[h] \in Activating
        BY <1>3, Holds DEF Upsert, PolicyInv
    <2>2. active' \in [policy_id : Policies, algorithm : Algorithms]
        BY <1>3, <2>1 DEF Upsert, Activating
    <2>3. Exists(active'.policy_id)
        BY <1>3 DEF Upsert, PolicyInv, TargetsExist
    <2> QED BY <1>3, <2>2, <2>3, HandlerMoves DEF Upsert
<1>4. CASE ResetFail(h) \/ UpsertFail(h) \/ UpdateFail(h)
    BY <1>4, HandlerMoves
       DEF ResetFail, UpsertFail, UpdateFail, PolicyInv, PolicyTypeOK,
           TargetsExist
<1> QED BY <1>1, <1>2, <1>3, <1>4

\* No step removes a row.
LEMMA RowsStay ==
    ASSUME PolicyInv, [PolicyNext]_policyVars
    PROVE  \A p \in Policies : Exists(p) => Exists(p)'
<1>1. ASSUME NEW id \in Policies, NEW columns, NEW n \in Nat \ {0},
             policies' = [policies EXCEPT ![id] = Row(columns, n)]
      PROVE  \A p \in Policies : Exists(p) => Exists(p)'
    <2>1. Row(columns, n).version = n
        BY DEF Row
    <2> QED BY <1>1, <2>1 DEF Exists, NoRow, PolicyInv, PolicyTypeOK
<1>2. CASE CreateSome
    <2>1. PICK id \in Policies, columns \in Columns : Create(id, columns)
        BY <1>2 DEF CreateSome, Columns
    <2> DEFINE stored == Stored(columns)
    <2>2. policies' = [policies EXCEPT ![id] = Row(stored, 1)]
        BY <2>1 DEF Create
    <2>3. 1 \in Nat \ {0}
        OBVIOUS
    <2> HIDE DEF stored
    <2> QED BY <1>1, <2>2, <2>3
<1>3. ASSUME NEW h \in Handlers, UpdateWrite(h)
      PROVE  \A p \in Policies : Exists(p) => Exists(p)'
    <2>1. admin[h].id \in Policies
        BY <1>3, Holds DEF UpdateWrite, PolicyInv, Writing
    <2>2. NextVersion(h) \in Nat \ {0}
        BY <2>1, ExistingRow DEF NextVersion, PolicyInv
    <2>3. policies' = [policies EXCEPT ![admin[h].id] =
                           Row(Written(h), NextVersion(h))]
        BY <1>3 DEF UpdateWrite
    <2> QED BY <1>1, <2>1, <2>2, <2>3
<1>4. CASE UNCHANGED policies
    BY <1>4 DEF Exists, NoRow
<1> QED BY <1>2, <1>3, <1>4
        DEF PolicyNext, policyVars, StartUpdate, UpdateRead, UpdateFail,
            ActivateRead, ResetDone, ResetFail, Upsert, UpsertFail

LEMMA NextPolicyInv == PolicyInv /\ [PolicyNext]_policyVars => PolicyInv'
<1> SUFFICES ASSUME PolicyInv, [PolicyNext]_policyVars PROVE PolicyInv'
    OBVIOUS
<1>1. CASE CreateSome
    BY <1>1, CreatePreserves
<1>2. ASSUME NEW h \in Handlers, StartUpdate(h) PROVE PolicyInv'
    BY <1>2, StartUpdatePreserves
<1>3. ASSUME NEW h \in Handlers, UpdateWrite(h) PROVE PolicyInv'
    BY <1>3, UpdateWritePreserves
<1>4. ASSUME NEW h \in Handlers,
             \/ \E id \in Policies, reset \in BOOLEAN :
                    ActivateRead(h, id, reset)
             \/ ResetDone(h) \/ ResetFail(h)
             \/ Upsert(h) \/ UpsertFail(h) \/ UpdateFail(h)
      PROVE  PolicyInv'
    BY <1>4, ActivationPreserves
<1>5. CASE UNCHANGED policyVars
    BY <1>5 DEF policyVars, PolicyInv, PolicyTypeOK, PairsFit,
                VersionCountsWrites, WritingFits, TargetsExist, Exists, Fits
<1> QED BY <1>1, <1>2, <1>3, <1>4, <1>5 DEF PolicyNext

-----------------------------------------------------------------------------
(***************************************************************************)
(* Theorems.                                                               *)
(***************************************************************************)

\* Rows and handlers keep their types, and what a handler has read and merged
\* is valid when it comes to write it.
THEOREM PolicyInvariance == PolicySpec => []PolicyInv
BY InitPolicyInv, NextPolicyInv, PTL DEF PolicySpec

\* However updates of the algorithm and of the params cross each other, the
\* params of a row are those of its algorithm.
THEOREM ParamsFit == PolicySpec => []PairsFit
<1>1. PolicyInv => PairsFit
    BY DEF PolicyInv
<1> QED BY <1>1, PolicyInvariance, PTL

\* A version never stands for two states of a row: every write is counted.
THEOREM WritesAreCounted == PolicySpec => []VersionCountsWrites
<1>1. PolicyInv => VersionCountsWrites
    BY DEF PolicyInv
<1> QED BY <1>1, PolicyInvariance, PTL

\* The active row and every activation in progress name a policy that exists:
\* that the target is missing is never true when a request is told so.
THEOREM TargetsAreThere == PolicySpec => []TargetsExist
<1>1. PolicyInv => TargetsExist
    BY DEF PolicyInv
<1> QED BY <1>1, PolicyInvariance, PTL

-----------------------------------------------------------------------------
(***************************************************************************)
(* Dashboard pages: the inductive invariant.                               *)
(***************************************************************************)

\* An update in progress keeps the algorithm that the row has.
WritersKeep ==
    \A h \in Handlers :
        admin[h].pc = "write" =>
            /\ Exists(admin[h].id)
            /\ admin[h].columns.algorithm = policies[admin[h].id].algorithm

\* A sync has settled on a policy.
Settled == {"update", "put", "reply", "activate", "post", "latest", "reread"}
HasWritten == {"reply", "activate", "post", "latest", "reread"}

\* The active row that a sync has read names a policy that exists; the
\* policy that it has settled on is one of the page's algorithm, whose
\* version has reached what the sync has written; the handler of its update
\* updates that policy; and no session runs yet.
VisitInv(v) ==
    /\ sync[v].pc = "found" => sync[v].read # NoActive
    /\ sync[v].pc \in {"found", "reread"} /\ sync[v].read # NoActive =>
           Exists(sync[v].read.policy_id)
    /\ sync[v].pc \in Settled =>
           /\ sync[v].id \in Policies
           /\ Exists(sync[v].id)
           /\ policies[sync[v].id].algorithm = page[v]
    /\ sync[v].pc \in HasWritten => sync[v].wrote =< policies[sync[v].id].version
    /\ sync[v].pc = "put" => admin[v].id = sync[v].id
    /\ sync[v] # NoSync => session[v] = NoPolicy

SyncInv ==
    /\ PolicyInv
    /\ SyncTypeOK
    /\ WritersKeep
    /\ \A v \in Visits : VisitInv(v)

LEMMA InitSyncInv == SyncInit => SyncInv
<1> SUFFICES ASSUME SyncInit PROVE SyncInv
    OBVIOUS
<1>1. PolicyInv
    BY InitPolicyInv DEF SyncInit
<1>2. SyncTypeOK
    BY <1>1, VisitAssumption DEF PolicyInv, SyncInit, SyncTypeOK, NoPolicy
<1>3. WritersKeep
    BY DEF SyncInit, PolicyInit, WritersKeep, Idle
<1>4. \A v \in Visits : VisitInv(v)
    BY DEF SyncInit, VisitInv, NoSync, Settled, HasWritten
<1> QED BY <1>1, <1>2, <1>3, <1>4 DEF SyncInv

-----------------------------------------------------------------------------
(***************************************************************************)
(* Every step of a page is a step of the policy service.                   *)
(***************************************************************************)

\* What a sync asks for is a request that the policy service expects.
LEMMA RequestedMerges ==
    ASSUME SyncTypeOK, NEW v \in Visits, sync[v] # NoSync, NEW row
    PROVE  /\ sync[v] \in Syncs
           /\ Requested(v) \in Merges(row)
           /\ Requested(v) \in Columns
<1>1. /\ sync[v] \in Syncs
      /\ page[v] \in Algorithms
    BY DEF SyncTypeOK
<1>2. sync[v].form \in RequestParams
    BY <1>1, VisitAssumption DEF Syncs
<1> QED BY <1>1, <1>2, PolicyAssumption DEF Requested, Merges, Columns

LEMMA SyncStepIsPolicyStep ==
    ASSUME SyncInv, [SyncNext]_syncVars
    PROVE  [PolicyNext]_policyVars
<1> SyncTypeOK
    BY DEF SyncInv
<1>1. ASSUME NEW v \in Visits, SyncStep(v)
      PROVE  [PolicyNext]_policyVars
    <2>1. v \in Handlers
        BY VisitAssumption
    <2>2. CASE CreateOwn(v)
        <3>1. CASE UNCHANGED policyVars
            BY <3>1
        <3>2. ASSUME NEW id \in Policies, Create(id, Requested(v))
              PROVE  PolicyNext
            <4> At(v, "create")
                BY <2>2 DEF CreateOwn
            <4>1. sync[v] # NoSync
                BY DEF At, NoSync
            <4>2. sync[v] \in Syncs /\ page[v] \in Algorithms
                BY <4>1, RequestedMerges DEF SyncTypeOK
            <4>3. sync[v].form \in RequestParams
                BY <4>2, VisitAssumption DEF Syncs
            <4> QED BY <3>2, <4>2, <4>3 DEF PolicyNext, CreateSome, Requested
        <3> QED BY <2>2, <3>1, <3>2 DEF CreateOwn
    <2>3. CASE PutRead(v)
        <3>1. sync[v] # NoSync /\ sync[v].id \in Policies
            BY <2>3 DEF PutRead, At, NoSync, SyncInv, VisitInv, Settled
        <3>2. UpdateRead(v, sync[v].id, Requested(v))
            BY <2>3 DEF PutRead
        <3>3. Exists(sync[v].id)
            BY <3>2 DEF UpdateRead
        <3>4. Requested(v) \in Merges(policies[sync[v].id])
            BY <3>1, RequestedMerges
        <3> QED BY <2>1, <3>1, <3>2, <3>3, <3>4 DEF PolicyNext, StartUpdate
    <2>4. CASE PutWrite(v) \/ PostReset(v) \/ PostUpsert(v)
        BY <2>1, <2>4 DEF PutWrite, PostReset, PostUpsert, PolicyNext
    <2>5. CASE PostRead(v)
        <3>1. sync[v].id \in Policies
            BY <2>5 DEF PostRead, At, SyncInv, VisitInv, Settled
        <3> QED BY <2>1, <2>5, <3>1 DEF PostRead, PolicyNext
    <2>6. CASE \/ FindActive(v) \/ FindPolicy(v) \/ List(v) \/ Reply(v)
               \/ ReadLatest(v) \/ Finish(v)
        BY <2>6 DEF FindActive, FindPolicy, List, Reply, ReadLatest, Finish
    <2> QED BY <1>1, <2>2, <2>3, <2>4, <2>5, <2>6 DEF SyncStep
<1>2. ASSUME NEW v \in Visits, CallFails(v)
      PROVE  [PolicyNext]_policyVars
    BY <1>2, VisitAssumption DEF CallFails, PolicyNext
<1>3. ASSUME NEW v \in Visits, Start(v) \/ Enter(v) \/ SessionEnds(v) \/ Leave(v)
      PROVE  UNCHANGED policyVars
    BY <1>3 DEF Start, Enter, SessionEnds, Leave
<1>4. ASSUME NEW h \in OtherHandlers, OtherStep(h)
      PROVE  PolicyNext
    <2>1. h \in Handlers
        BY DEF OtherHandlers
    <2>2. CASE OtherCreates
        BY <2>2 DEF OtherCreates, PolicyNext, CreateSome
    <2>3. CASE OtherUpdates(h)
        BY <2>1, <2>3 DEF OtherUpdates, PolicyNext, StartUpdate
    <2> QED BY <1>4, <2>1, <2>2, <2>3 DEF OtherStep, OtherAsks, PolicyNext
<1>5. CASE UNCHANGED syncVars
    BY <1>5 DEF syncVars, policyVars
<1> QED BY <1>1, <1>2, <1>3, <1>4, <1>5 DEF SyncNext

-----------------------------------------------------------------------------
(***************************************************************************)
(* The invariant is inductive.                                             *)
(***************************************************************************)

\* No step changes the algorithm of a row, or takes its version back.
RowsKept ==
    \A p \in Policies :
        Exists(p) =>
            /\ policies'[p] # NoRow
            /\ policies'[p].algorithm = policies[p].algorithm
            /\ policies'[p].version >= policies[p].version

\* Only two kinds of steps change rows.
LEMMA RowChanges ==
    ASSUME SyncInv, [SyncNext]_syncVars
    PROVE  \/ UNCHANGED policies
           \/ \E id \in Policies, columns \in Columns : Create(id, columns)
           \/ \E h \in Handlers : UpdateWrite(h)
<1>1. [PolicyNext]_policyVars
    BY SyncStepIsPolicyStep
<1>2. CASE CreateSome
    BY <1>2 DEF CreateSome, Columns
<1> QED BY <1>1, <1>2
        DEF PolicyNext, policyVars, StartUpdate, UpdateRead, UpdateFail,
            ActivateRead, ResetDone, ResetFail, Upsert, UpsertFail

LEMMA RowsAreKept ==
    ASSUME SyncInv, [SyncNext]_syncVars
    PROVE  RowsKept
<1> SUFFICES ASSUME NEW p \in Policies, Exists(p)
             PROVE  /\ policies'[p] # NoRow
                    /\ policies'[p].algorithm = policies[p].algorithm
                    /\ policies'[p].version >= policies[p].version
    BY DEF RowsKept
<1> PolicyTypeOK
    BY DEF SyncInv, PolicyInv
<1>1. policies[p] \in Rows /\ policies[p] # NoRow
    BY ExistingRow DEF Exists
<1>2. CASE UNCHANGED policies
    BY <1>1, <1>2 DEF Rows
<1>3. ASSUME NEW id \in Policies, NEW columns \in Columns, Create(id, columns)
      PROVE  policies'[p] = policies[p]
    BY <1>3 DEF Create, Exists, PolicyTypeOK
<1>4. ASSUME NEW h \in Handlers, UpdateWrite(h)
      PROVE  /\ policies'[p] # NoRow
             /\ policies'[p].algorithm = policies[p].algorithm
             /\ policies'[p].version >= policies[p].version
    <2> DEFINE id == admin[h].id
               n == policies[id].version + 1
    <2>1. admin[h].pc = "write" /\ admin[h] \in Writing
        BY <1>4, Holds DEF UpdateWrite
    <2>2. id \in Policies /\ admin[h].columns \in Columns
        BY <2>1 DEF Writing
    <2>3. n \in Nat \ {0}
        BY <2>2, ExistingRow
    <2>4. admin[h].columns.algorithm = policies[id].algorithm
        BY <2>1 DEF SyncInv, WritersKeep
    <2> DEFINE new == Row(admin[h].columns, n)
    <2>5. policies' = [policies EXCEPT ![id] = new]
        BY <1>4 DEF UpdateWrite, Written, NextVersion
    <2>6. new.algorithm = policies[id].algorithm /\ new.version = n /\ new # NoRow
        BY <2>3, <2>4 DEF Row, NoRow
    <2> HIDE DEF new
    <2>7. CASE p = id
        BY <1>1, <2>2, <2>5, <2>6, <2>7 DEF PolicyTypeOK, Rows
    <2>8. CASE p # id
        BY <1>1, <2>2, <2>5, <2>8 DEF PolicyTypeOK, Rows
    <2> QED BY <2>7, <2>8
<1> QED BY <1>1, <1>2, <1>3, <1>4, RowChanges DEF Rows

\* What VisitInv says of a visit is kept by a step that leaves its sync alone.
LEMMA VisitKept ==
    ASSUME SyncInv, [SyncNext]_syncVars, NEW v \in Visits,
           sync'[v] = sync[v], page' = page,
           sync[v].pc = "put" => admin'[v] = admin[v],
           session'[v] \in {session[v], NoPolicy}
    PROVE  VisitInv(v)'
<1> VisitInv(v) /\ RowsKept /\ PolicyTypeOK
    BY RowsAreKept DEF SyncInv, PolicyInv
<1>1. sync[v] \in Syncs \cup {NoSync}
    BY DEF SyncInv, SyncTypeOK
<1>2. ASSUME sync[v].pc \in {"found", "reread"}, sync[v].read # NoActive
      PROVE  policies'[sync[v].read.policy_id] # NoRow
    <2>1. sync[v].read.policy_id \in Policies
        BY <1>1, <1>2 DEF Syncs, NoSync, ActiveRows
    <2> QED BY <1>2, <2>1 DEF VisitInv, RowsKept
<1>3. ASSUME sync[v].pc \in Settled
      PROVE  /\ sync[v].id \in Policies
             /\ policies'[sync[v].id] # NoRow
             /\ policies'[sync[v].id].algorithm = page[v]
    BY <1>3 DEF VisitInv, RowsKept
<1>4. ASSUME sync[v].pc \in HasWritten
      PROVE  sync[v].wrote =< policies'[sync[v].id].version
    <2>1. sync[v] \in Syncs /\ sync[v].pc \in Settled
        BY <1>1, <1>4 DEF NoSync, HasWritten, Settled
    <2>2. sync[v].wrote \in Nat /\ sync[v].id \in Policies /\ Exists(sync[v].id)
        BY <2>1 DEF Syncs, VisitInv
    <2>3. policies[sync[v].id].version \in Nat
        BY <2>2, ExistingRow
    <2>4. /\ sync[v].wrote =< policies[sync[v].id].version
          /\ policies'[sync[v].id].version >= policies[sync[v].id].version
        BY <1>4, <2>2 DEF VisitInv, RowsKept
    <2>5. policies'[sync[v].id].version \in Nat
        <3>1. PolicyInv'
            BY NextPolicyInv, SyncStepIsPolicyStep DEF SyncInv
        <3> QED BY <2>2, <3>1 DEF PolicyInv, PolicyTypeOK, Rows, NoRow
    <2> QED BY <2>2, <2>3, <2>4, <2>5
<1>5. /\ sync[v] # NoSync => session'[v] = NoPolicy
      /\ sync[v].pc = "put" => admin'[v].id = sync[v].id
    BY DEF VisitInv
<1> QED BY <1>2, <1>3, <1>4, <1>5 DEF VisitInv, Exists, NoActive, NoRow

SyncsKept ==
    /\ sync' \in [Visits -> Syncs \cup {NoSync}]
    /\ \A w \in Visits : VisitInv(w)'

\* The other visits keep their handlers.
OnlyHandler(v) == \A w \in Visits : w # v => admin'[w] = admin[w]

\* A visit may go on with whatever the rows that are now there allow.
LEMMA GoesOn ==
    ASSUME SyncInv, [SyncNext]_syncVars, NEW v \in Visits,
           NEW new \in Syncs \cup {NoSync}, Goes(v, new), OnlyHandler(v),
           session[v] = NoPolicy \/ sync[v] # NoSync,
           new.pc = "found" => new.read # NoActive,
           new.pc \in {"found", "reread"} /\ new.read # NoActive =>
               policies'[new.read.policy_id] # NoRow,
           new.pc \in Settled =>
               /\ new.id \in Policies
               /\ policies'[new.id] # NoRow
               /\ policies'[new.id].algorithm = page[v],
           new.pc \in HasWritten => new.wrote =< policies'[new.id].version,
           new.pc = "put" => admin'[v].id = new.id
    PROVE  SyncsKept
<1>1. /\ sync' = [sync EXCEPT ![v] = new]
      /\ page' = page /\ session' = session
    BY DEF Goes
<1>2. sync \in [Visits -> Syncs \cup {NoSync}]
    BY DEF SyncInv, SyncTypeOK
<1>3. session[v] = NoPolicy
    BY DEF SyncInv, VisitInv
<1>4. VisitInv(v)'
    <2>1. sync'[v] = new
        BY <1>1, <1>2
    <2> HIDE DEF SyncInv
    <2> QED BY <1>1, <1>3, <2>1 DEF VisitInv, Exists, NoActive, NoRow
<1>5. ASSUME NEW w \in Visits, w # v PROVE VisitInv(w)'
    BY <1>1, <1>2, <1>5, VisitKept DEF OnlyHandler
<1> QED BY <1>1, <1>2, <1>4, <1>5 DEF SyncsKept

\* A page that fails, or only goes to a step for which nothing is needed.
LEMMA GoesOnFreely ==
    ASSUME SyncInv, [SyncNext]_syncVars, NEW v \in Visits,
           NEW new \in Syncs \cup {NoSync}, Goes(v, new), OnlyHandler(v),
           session[v] = NoPolicy \/ sync[v] # NoSync,
           new.pc \in {"idle", "find", "list", "create"}
    PROVE  SyncsKept
BY GoesOn DEF Settled, HasWritten

\* A page that has settled on a policy goes on with it.
LEMMA GoesOnSettled ==
    ASSUME SyncInv, [SyncNext]_syncVars, NEW v \in Visits,
           NEW pc \in {"put", "activate", "post", "latest"}, Moves(v, pc),
           sync[v].pc \in Settled, OnlyHandler(v),
           pc = "put" => admin'[v].id = sync[v].id,
           pc # "put" => sync[v].pc \in HasWritten
    PROVE  SyncsKept
<1> DEFINE new == [sync[v] EXCEPT !.pc = pc]
<1>1. sync[v] \in Syncs
    BY DEF SyncInv, SyncTypeOK, Settled, NoSync
<1>2. /\ new \in Syncs /\ new.pc = pc
      /\ new.id = sync[v].id /\ new.wrote = sync[v].wrote
    BY <1>1 DEF Syncs
<1>3. Goes(v, new) /\ sync[v] # NoSync
    BY <1>1 DEF Moves, Syncs, NoSync
<1>4. /\ sync[v].id \in Policies
      /\ policies'[sync[v].id] # NoRow
      /\ policies'[sync[v].id].algorithm = page[v]
    BY RowsAreKept DEF SyncInv, VisitInv, RowsKept
<1>5. pc \in HasWritten => sync[v].wrote =< policies'[sync[v].id].version
    <2> SUFFICES ASSUME sync[v].pc \in HasWritten
                 PROVE  sync[v].wrote =< policies'[sync[v].id].version
        BY DEF HasWritten
    <2>1. sync[v].id \in Policies /\ Exists(sync[v].id)
        BY DEF SyncInv, VisitInv
    <2>2. /\ policies[sync[v].id].version \in Nat
          /\ policies'[sync[v].id].version >= policies[sync[v].id].version
        BY <2>1, ExistingRow, RowsAreKept DEF SyncInv, PolicyInv, RowsKept
    <2>3. policies'[sync[v].id].version \in Nat
        <3>1. PolicyInv'
            BY NextPolicyInv, SyncStepIsPolicyStep DEF SyncInv
        <3> QED BY <2>1, <3>1 DEF PolicyInv, PolicyTypeOK, Rows, NoRow
    <2>4. sync[v].wrote \in Nat /\ sync[v].wrote =< policies[sync[v].id].version
        BY <1>1 DEF Syncs, SyncInv, VisitInv
    <2> QED BY <2>2, <2>3, <2>4
<1> HIDE DEF new
<1> QED BY <1>2, <1>3, <1>4, <1>5, GoesOn

LEMMA OneHandlerMoves ==
    ASSUME SyncInv, NEW v \in Visits, SyncStep(v) \/ CallFails(v) \/ Start(v)
    PROVE  OnlyHandler(v)
<1>1. v \in Handlers /\ Visits \subseteq Handlers
    BY VisitAssumption
<1>2. \/ UNCHANGED admin
      \/ \E state : admin' = [admin EXCEPT ![v] = state]
    BY <1>1 DEF SyncStep, CallFails, Start, FindActive, FindPolicy, List, CreateOwn,
           PutRead, PutWrite, Reply, PostRead, PostReset, PostUpsert, ReadLatest,
           Finish, policyVars, Create, UpdateRead, UpdateWrite, UpdateFail,
           ActivateRead, ResetDone, ResetFail, Upsert, UpsertFail
<1> QED BY <1>1, <1>2 DEF OnlyHandler, SyncInv, PolicyInv, PolicyTypeOK

LEMMA SyncStepKeeps ==
    ASSUME SyncInv, [SyncNext]_syncVars, NEW v \in Visits, SyncStep(v)
    PROVE  SyncsKept
<1>1. /\ sync[v] # NoSync => sync[v] \in Syncs
      /\ page[v] \in Algorithms
      /\ active \in ActiveRows
      /\ PolicyTypeOK
      /\ VisitInv(v)
    BY DEF SyncInv, PolicyInv, SyncTypeOK, PolicyTypeOK, ActiveRows
<1> OnlyHandler(v)
    BY OneHandlerMoves
<1>2. ASSUME NEW pc \in {"list", "create"}, Moves(v, pc), sync[v] # NoSync
      PROVE  SyncsKept
    <2> DEFINE new == [sync[v] EXCEPT !.pc = pc]
    <2>1. new \in Syncs /\ new.pc = pc
        BY <1>1, <1>2 DEF Syncs
    <2>2. Goes(v, new)
        BY <1>2 DEF Moves
    <2> HIDE DEF new
    <2> QED BY <1>2, <2>1, <2>2, GoesOnFreely
<1>3. ASSUME Fails(v), sync[v] # NoSync PROVE SyncsKept
    BY <1>3, GoesOnFreely DEF Fails, NoSync
<1>4. CASE FindActive(v)
    <2>1. sync[v] # NoSync /\ sync[v] \in Syncs
        BY <1>1, <1>4 DEF FindActive, At, NoSync
    <2>2. CASE active = NoActive
        BY <1>2, <1>4, <2>1, <2>2 DEF FindActive
    <2>3. CASE active # NoActive
        <3> DEFINE new == [sync[v] EXCEPT !.pc = "found", !.read = active]
        <3>1. Goes(v, new)
            BY <1>4, <2>3 DEF FindActive
        <3>2. new \in Syncs /\ new.pc = "found" /\ new.read = active
            BY <1>1, <2>1 DEF Syncs
        <3>3. policies'[active.policy_id] # NoRow
            BY <1>4, <2>3
               DEF FindActive, policyVars, SyncInv, PolicyInv, TargetsExist, Exists
        <3> HIDE DEF new
        <3> QED BY <2>1, <2>3, <3>1, <3>2, <3>3, GoesOn DEF Settled, HasWritten
    <2> QED BY <2>2, <2>3
<1>5. CASE FindPolicy(v)
    <2> DEFINE id == sync[v].read.policy_id
               own == [sync[v] EXCEPT !.pc = "update", !.id = id, !.read = NoActive]
               none == [sync[v] EXCEPT !.pc = "list", !.read = NoActive]
    <2>1. At(v, "found") /\ UNCHANGED policies
        BY <1>5 DEF FindPolicy, policyVars
    <2>2. sync[v] # NoSync /\ sync[v] \in Syncs
        BY <1>1, <2>1 DEF At, NoSync
    <2>3. sync[v].read # NoActive /\ Exists(id)
        BY <1>1, <2>1 DEF At, VisitInv
    <2>4. id \in Policies
        BY <2>2, <2>3 DEF Syncs, ActiveRows
    <2>5. CASE Answered(v, sync[v].read) /\ policies[id].enabled
        <3>1. Goes(v, own)
            BY <1>5, <2>5 DEF FindPolicy
        <3>2. own \in Syncs /\ own.pc = "update" /\ own.id = id /\ own.read = NoActive
            BY <2>2, <2>4 DEF Syncs, ActiveRows
        <3>3. policies'[id] # NoRow /\ policies'[id].algorithm = page[v]
            BY <2>1, <2>3, <2>5 DEF Answered, mapPolicySnapshot, Exists
        <3> HIDE DEF own, id
        <3> QED BY <2>2, <2>4, <3>1, <3>2, <3>3, GoesOn DEF HasWritten
    <2>6. CASE ~ (Answered(v, sync[v].read) /\ policies[id].enabled)
        <3>1. Goes(v, none)
            BY <1>5, <2>6 DEF FindPolicy
        <3>2. none \in Syncs /\ none.pc = "list"
            BY <2>2 DEF Syncs, ActiveRows
        <3> HIDE DEF none
        <3> QED BY <2>2, <3>1, <3>2, GoesOnFreely
    <2> QED BY <2>5, <2>6
<1>6. CASE List(v)
    <2>1. At(v, "list") /\ UNCHANGED policies
        BY <1>6 DEF List, policyVars
    <2>2. sync[v] # NoSync /\ sync[v] \in Syncs
        BY <1>1, <2>1 DEF At, NoSync
    <2>3. CASE Managed(v) = {}
        BY <1>2, <1>6, <2>2, <2>3 DEF List
    <2>4. CASE Managed(v) # {}
        <3>1. PICK id \in Managed(v) :
                  Goes(v, [sync[v] EXCEPT !.pc = "update", !.id = id])
            BY <1>6, <2>4 DEF List
        <3> DEFINE own == [sync[v] EXCEPT !.pc = "update", !.id = id]
        <3>2. id \in Policies /\ policies'[id] # NoRow /\ policies'[id].algorithm = page[v]
            BY <2>1, <3>1 DEF Managed, mapPolicySnapshot, Exists
        <3>3. own \in Syncs /\ own.pc = "update" /\ own.id = id
            BY <2>2, <3>2 DEF Syncs
        <3>4. Goes(v, own)
            BY <3>1
        <3> HIDE DEF own
        <3> QED BY <2>2, <3>2, <3>3, <3>4, GoesOn DEF HasWritten
    <2> QED BY <2>3, <2>4
<1>7. CASE CreateOwn(v)
    <2> At(v, "create")
        BY <1>7 DEF CreateOwn
    <2>1. sync[v] # NoSync /\ sync[v] \in Syncs
        BY <1>1 DEF At, NoSync
    <2>2. ASSUME NEW id \in Policies, Create(id, Requested(v)),
                 Goes(v, [sync[v] EXCEPT !.pc = "reply", !.id = id, !.wrote = 1])
          PROVE  SyncsKept
        <3> DEFINE new == [sync[v] EXCEPT !.pc = "reply", !.id = id, !.wrote = 1]
                   stored == Stored(Requested(v))
        <3>1. new \in Syncs /\ new.pc = "reply" /\ new.id = id /\ new.wrote = 1
            BY <2>1 DEF Syncs
        <3>2. Requested(v) \in Columns
            BY <2>1, RequestedMerges DEF SyncInv
        <3>3. stored.algorithm = page[v]
            BY <3>2 DEF Stored, Requested, Columns
        <3>4. policies'[id] = Row(stored, 1)
            BY <1>1, <2>2 DEF Create, PolicyTypeOK
        <3> HIDE DEF stored
        <3>5. /\ policies'[id] # NoRow
              /\ policies'[id].algorithm = page[v]
              /\ policies'[id].version = 1
            BY <3>3, <3>4 DEF Row, NoRow
        <3>6. Goes(v, new)
            BY <2>2
        <3> HIDE DEF new
        <3> QED BY <2>1, <3>1, <3>5, <3>6, GoesOn
    <2> QED BY <1>3, <1>7, <2>1, <2>2 DEF CreateOwn
<1>8. CASE PutRead(v)
    <2>1. sync[v].pc \in Settled
        BY <1>8 DEF PutRead, At, Settled
    <2>2. admin'[v].id = sync[v].id
        BY <1>1, <1>8, VisitAssumption DEF PutRead, UpdateRead, PolicyTypeOK
    <2> QED BY <1>8, <2>1, <2>2, GoesOnSettled DEF PutRead
<1>9. CASE PutWrite(v)
    <2> DEFINE new == [sync[v] EXCEPT !.pc = "reply", !.wrote = NextVersion(v)]
    <2>1. At(v, "put") /\ UpdateWrite(v) /\ Goes(v, new)
        BY <1>9 DEF PutWrite
    <2>2. sync[v] # NoSync /\ sync[v] \in Syncs
        BY <1>1, <2>1 DEF At, NoSync
    <2>3. admin[v].pc = "write" /\ admin[v] \in Writing /\ v \in Handlers
        BY <1>1, <2>1, Holds, VisitAssumption DEF UpdateWrite
    <2> DEFINE id == sync[v].id
               n == policies[id].version + 1
    <2>4. admin[v].id = id /\ id \in Policies
        BY <1>1, <2>1 DEF VisitInv, At, Settled
    <2>5. admin[v].columns.algorithm = page[v]
        BY <1>1, <2>1, <2>3, <2>4 DEF SyncInv, WritersKeep, VisitInv, At, Settled
    <2>6. n \in Nat \ {0} /\ NextVersion(v) = n
        BY <1>1, <2>4, ExistingRow DEF NextVersion
    <2> HIDE DEF n
    <2>7. policies'[id] = Row(admin[v].columns, n)
        BY <1>1, <2>1, <2>4, <2>6 DEF UpdateWrite, Written, PolicyTypeOK
    <2>8. /\ policies'[id] # NoRow
          /\ policies'[id].algorithm = page[v]
          /\ policies'[id].version = n
        BY <2>5, <2>6, <2>7 DEF Row, NoRow
    <2>9. new \in Syncs /\ new.pc = "reply" /\ new.id = id /\ new.wrote = n
        BY <2>2, <2>6 DEF Syncs
    <2> HIDE DEF new, id
    <2> QED BY <2>1, <2>2, <2>4, <2>6, <2>8, <2>9, GoesOn
<1>10. CASE Reply(v)
    <2>1. At(v, "reply")
        BY <1>10 DEF Reply
    <2>2. sync[v].pc \in HasWritten /\ sync[v].pc \in Settled /\ sync[v] # NoSync
        BY <2>1 DEF At, Settled, HasWritten, NoSync
    <2> QED BY <1>3, <1>10, <2>2, GoesOnSettled DEF Reply
<1>11. CASE PostRead(v)
    <2>1. At(v, "activate")
        BY <1>11 DEF PostRead
    <2>2. sync[v].pc \in HasWritten /\ sync[v].pc \in Settled /\ sync[v] # NoSync
        BY <2>1 DEF At, Settled, HasWritten, NoSync
    <2> QED BY <1>3, <1>11, <2>2, GoesOnSettled DEF PostRead
<1>12. CASE PostReset(v)
    <2>1. UNCHANGED <<page, sync, session>>
        BY <1>12 DEF PostReset
    <2>2. At(v, "post")
        BY <1>12 DEF PostReset
    <2>3. \A w \in Visits : VisitInv(w)'
        BY <2>1, <2>2, VisitKept DEF OnlyHandler, At
    <2> QED BY <2>1, <2>3 DEF SyncsKept, SyncInv, SyncTypeOK
<1>13. CASE PostUpsert(v)
    <2>1. sync[v].pc \in HasWritten /\ sync[v].pc \in Settled
        BY <1>13 DEF PostUpsert, At, Settled, HasWritten
    <2> QED BY <1>13, <2>1, GoesOnSettled DEF PostUpsert
<1>14. CASE ReadLatest(v)
    <2> DEFINE new == [sync[v] EXCEPT !.pc = "reread", !.read = active]
    <2>1. At(v, "latest") /\ Goes(v, new) /\ UNCHANGED policies
        BY <1>14 DEF ReadLatest, policyVars
    <2>2. sync[v] # NoSync /\ sync[v] \in Syncs
        BY <1>1, <2>1 DEF At, NoSync
    <2>3. /\ new \in Syncs /\ new.pc = "reread" /\ new.read = active
          /\ new.id = sync[v].id /\ new.wrote = sync[v].wrote
        BY <1>1, <2>2 DEF Syncs
    <2>4. active # NoActive => policies'[active.policy_id] # NoRow
        BY <2>1 DEF SyncInv, PolicyInv, TargetsExist, Exists
    <2>5. /\ sync[v].id \in Policies
          /\ policies'[sync[v].id] # NoRow
          /\ policies'[sync[v].id].algorithm = page[v]
          /\ sync[v].wrote =< policies'[sync[v].id].version
        BY <1>1, <2>1 DEF VisitInv, At, Settled, HasWritten, Exists
    <2> HIDE DEF new
    <2> QED BY <2>1, <2>2, <2>3, <2>4, <2>5, GoesOn
<1>15. CASE Finish(v)
    <2>1. /\ sync' = [sync EXCEPT ![v] = NoSync]
          /\ page' = page
          /\ \A w \in Visits : w # v => session'[w] = session[w]
        BY <1>15 DEF Finish, SyncInv, SyncTypeOK
    <2>2. sync' \in [Visits -> Syncs \cup {NoSync}] /\ sync'[v] = NoSync
        BY <2>1 DEF SyncInv, SyncTypeOK
    <2>3. VisitInv(v)'
        BY <2>2 DEF VisitInv, NoSync, Settled, HasWritten
    <2>4. ASSUME NEW w \in Visits, w # v PROVE VisitInv(w)'
        <3>1. sync'[w] = sync[w]
            BY <2>1, <2>4 DEF SyncInv, SyncTypeOK
        <3> QED BY <2>1, <2>4, <3>1, VisitKept DEF OnlyHandler
    <2> QED BY <2>2, <2>3, <2>4 DEF SyncsKept
<1> QED BY <1>4, <1>5, <1>6, <1>7, <1>8, <1>9, <1>10, <1>11, <1>12, <1>13, <1>14, <1>15 DEF SyncStep

\* An update never asks for another algorithm than the row has.
AsksToKeep(h) ==
    \E id \in Policies, columns \in Columns :
        /\ UpdateRead(h, id, columns)
        /\ columns.algorithm = policies[id].algorithm

LEMMA WriterChanges ==
    ASSUME SyncInv, [SyncNext]_syncVars, NEW h \in Handlers, admin'[h].pc = "write"
    PROVE  admin'[h] = admin[h] \/ AsksToKeep(h)
<1>1. admin \in [Handlers -> {Idle} \cup Writing \cup Activating] /\ PolicyTypeOK
    BY DEF SyncInv, PolicyInv, PolicyTypeOK
<1>2. ASSUME NEW g \in Handlers,
             \/ UpdateWrite(g) \/ UpdateFail(g)
             \/ \E id \in Policies, reset \in BOOLEAN : ActivateRead(g, id, reset)
             \/ ResetDone(g) \/ ResetFail(g) \/ Upsert(g) \/ UpsertFail(g)
      PROVE  admin'[h] = admin[h]
    BY <1>1, <1>2 DEF UpdateWrite, UpdateFail, ActivateRead, ResetDone, ResetFail,
                      Upsert, UpsertFail, Idle, Writing, Activating
<1>3. ASSUME NEW g \in Handlers, NEW id \in Policies, NEW columns \in Columns,
             UpdateRead(g, id, columns), columns.algorithm = policies[id].algorithm
      PROVE  admin'[h] = admin[h] \/ AsksToKeep(h)
    <2>1. CASE g = h
        BY <1>3, <2>1 DEF AsksToKeep
    <2>2. CASE g # h
        BY <1>1, <1>3, <2>2 DEF UpdateRead
    <2> QED BY <2>1, <2>2
<1>4. ASSUME NEW v \in Visits, SyncStep(v)
      PROVE  admin'[h] = admin[h] \/ AsksToKeep(h)
    <2>1. v \in Handlers /\ VisitInv(v)
        BY VisitAssumption DEF SyncInv
    <2>2. CASE PutRead(v)
        <3>1. At(v, "update") /\ UpdateRead(v, sync[v].id, Requested(v))
            BY <2>2 DEF PutRead
        <3>2. sync[v].id \in Policies /\ policies[sync[v].id].algorithm = page[v]
            BY <2>1, <3>1 DEF VisitInv, At, Settled
        <3>3. Requested(v) \in Columns
            BY <3>1, RequestedMerges DEF At, NoSync, SyncInv
        <3>4. Requested(v).algorithm = page[v]
            BY DEF Requested
        <3> QED BY <1>3, <2>1, <3>1, <3>2, <3>3, <3>4
    <2>3. CASE PutWrite(v) \/ PostReset(v) \/ PostUpsert(v)
        BY <1>2, <2>1, <2>3 DEF PutWrite, PostReset, PostUpsert
    <2>4. CASE PostRead(v)
        <3>1. sync[v].id \in Policies
            BY <2>1, <2>4 DEF PostRead, VisitInv, At, Settled
        <3> QED BY <1>2, <2>1, <2>4, <3>1 DEF PostRead, policyVars
    <2>5. CASE \/ FindActive(v) \/ FindPolicy(v) \/ List(v) \/ CreateOwn(v)
               \/ Reply(v) \/ ReadLatest(v) \/ Finish(v)
        BY <2>5 DEF FindActive, FindPolicy, List, CreateOwn, Create, Reply,
                    ReadLatest, Finish, policyVars
    <2> QED BY <1>4, <2>2, <2>3, <2>4, <2>5 DEF SyncStep
<1>5. ASSUME NEW v \in Visits, CallFails(v)
      PROVE  admin'[h] = admin[h]
    BY <1>2, <1>5, VisitAssumption DEF CallFails, policyVars
<1>6. ASSUME NEW v \in Visits, Start(v) \/ Enter(v) \/ SessionEnds(v) \/ Leave(v)
      PROVE  admin'[h] = admin[h]
    BY <1>6 DEF Start, Enter, SessionEnds, Leave, policyVars
<1>7. ASSUME NEW g \in OtherHandlers, OtherStep(g)
      PROVE  admin'[h] = admin[h] \/ AsksToKeep(h)
    <2>1. g \in Handlers
        BY DEF OtherHandlers
    <2>2. CASE OtherCreates
        BY <2>2 DEF OtherCreates, Create
    <2>3. CASE OtherUpdates(g)
        <3>1. PICK id \in Policies :
                  /\ Exists(id)
                  /\ \E columns \in Merges(policies[id]) :
                        /\ columns.algorithm = policies[id].algorithm
                        /\ UpdateRead(g, id, columns)
            BY <2>3 DEF OtherUpdates
        <3>2. policies[id] \in Rows
            BY <1>1, <3>1, ExistingRow
        <3>3. Merges(policies[id]) \subseteq Columns
            BY <3>2, PolicyAssumption DEF Merges, Columns, Rows
        <3> QED BY <1>3, <2>1, <3>1, <3>3
    <2> QED BY <1>2, <1>7, <2>1, <2>2, <2>3 DEF OtherStep, OtherAsks
<1>8. CASE UNCHANGED syncVars
    BY <1>8 DEF syncVars, policyVars
<1> QED BY <1>4, <1>5, <1>6, <1>7, <1>8 DEF SyncNext

LEMMA WritersStillKeep ==
    ASSUME SyncInv, [SyncNext]_syncVars
    PROVE  WritersKeep'
<1> SUFFICES ASSUME NEW h \in Handlers, admin'[h].pc = "write"
             PROVE  /\ policies'[admin'[h].id] # NoRow
                    /\ admin'[h].columns.algorithm = policies'[admin'[h].id].algorithm
    BY DEF WritersKeep, Exists, NoRow
<1>1. PolicyTypeOK /\ RowsKept
    BY RowsAreKept DEF SyncInv, PolicyInv
<1>2. CASE admin'[h] = admin[h]
    <2>1. admin[h] \in Writing
        BY <1>1, <1>2, Holds
    <2>2. /\ admin[h].id \in Policies /\ Exists(admin[h].id)
          /\ admin[h].columns.algorithm = policies[admin[h].id].algorithm
        BY <1>2, <2>1 DEF Writing, SyncInv, WritersKeep
    <2> QED BY <1>1, <1>2, <2>2 DEF RowsKept
<1>3. CASE AsksToKeep(h)
    <2>1. PICK id \in Policies, columns \in Columns :
              /\ UpdateRead(h, id, columns)
              /\ columns.algorithm = policies[id].algorithm
        BY <1>3 DEF AsksToKeep
    <2> DEFINE stored == Stored(columns)
    <2>2. stored.algorithm = columns.algorithm
        BY DEF Stored, Columns
    <2>3. /\ Exists(id)
          /\ admin'[h] = [pc |-> "write", id |-> id, read |-> policies[id].version,
                          columns |-> stored]
        BY <1>1, <2>1 DEF UpdateRead, PolicyTypeOK
    <2> HIDE DEF stored
    <2>4. admin'[h].id = id /\ admin'[h].columns = stored
        BY <2>3
    <2> QED BY <1>1, <2>1, <2>2, <2>3, <2>4 DEF RowsKept
<1> QED BY <1>2, <1>3, WriterChanges

\* The sync of a visit that takes no step of its own stays.
LEMMA SyncsAreKept ==
    ASSUME SyncInv, [SyncNext]_syncVars
    PROVE  SyncsKept
<1>1. sync \in [Visits -> Syncs \cup {NoSync}]
    BY DEF SyncInv, SyncTypeOK
<1>2. ASSUME NEW v \in Visits, SyncStep(v) PROVE SyncsKept
    BY <1>2, SyncStepKeeps
<1>3. ASSUME NEW v \in Visits, CallFails(v) PROVE SyncsKept
    BY <1>3, OneHandlerMoves, GoesOnFreely DEF CallFails, Fails, NoSync
<1>4. ASSUME NEW v \in Visits, Start(v) PROVE SyncsKept
    <2>1. PICK form \in Forms :
              Goes(v, [pc |-> "find", form |-> form, id |-> "none",
                       read |-> NoActive, wrote |-> 0])
        BY <1>4 DEF Start
    <2> DEFINE new == [pc |-> "find", form |-> form, id |-> "none",
                       read |-> NoActive, wrote |-> 0]
    <2>2. new \in Syncs /\ new.pc = "find"
        BY DEF Syncs, ActiveRows
    <2>3. Goes(v, new) /\ session[v] = NoPolicy /\ OnlyHandler(v)
        BY <1>4, <2>1, OneHandlerMoves DEF Start
    <2> HIDE DEF new
    <2> QED BY <2>2, <2>3, GoesOnFreely
<1>5. ASSUME UNCHANGED <<page, sync>>,
             \A w \in Visits : /\ session'[w] \in {session[w], NoPolicy}
                               /\ admin'[w] = admin[w]
      PROVE  SyncsKept
    BY <1>1, <1>5, VisitKept DEF SyncsKept
<1>6. ASSUME NEW v \in Visits, Enter(v) \/ SessionEnds(v) \/ Leave(v)
      PROVE  SyncsKept
    BY <1>5, <1>6 DEF Enter, SessionEnds, Leave, policyVars, SyncInv, SyncTypeOK
<1>7. ASSUME NEW h \in OtherHandlers, OtherStep(h), UNCHANGED <<page, sync, session>>
      PROVE  SyncsKept
    <2>1. h \in Handlers /\ h \notin Visits /\ Visits \subseteq Handlers
        BY VisitAssumption DEF OtherHandlers
    <2>2. UNCHANGED admin \/ \E state : admin' = [admin EXCEPT ![h] = state]
        BY <1>7 DEF OtherStep, OtherAsks, OtherCreates, OtherUpdates, Create,
               UpdateRead, UpdateWrite, UpdateFail, ActivateRead, ResetDone,
               ResetFail, Upsert, UpsertFail
    <2>3. \A w \in Visits : admin'[w] = admin[w]
        BY <2>1, <2>2 DEF SyncInv, PolicyInv, PolicyTypeOK
    <2> QED BY <1>5, <1>7, <2>3
<1>8. CASE UNCHANGED syncVars
    BY <1>5, <1>8 DEF syncVars, policyVars
<1> QED BY <1>2, <1>3, <1>4, <1>6, <1>7, <1>8 DEF SyncNext

\* Where a session begins: on the policy that the sync has read last.
LEMMA Begins ==
    ASSUME SyncInv, NEW v \in Visits, Finish(v), session'[v] # NoPolicy
    PROVE  /\ sync[v].read.policy_id \in Policies
           /\ policies[sync[v].read.policy_id].version \in Nat
           /\ session' = [session EXCEPT ![v] = Latest(v)]
           /\ sync[v].pc = "reread"
<1>1. At(v, "reread") /\ sync[v] # NoSync /\ sync[v] \in Syncs
    BY DEF Finish, At, NoSync, SyncInv, SyncTypeOK
<1>2. session[v] = NoPolicy
    BY <1>1 DEF SyncInv, VisitInv
<1>3. session' = [session EXCEPT ![v] = Latest(v)] /\ sync[v].read # NoActive
    BY <1>2 DEF Finish
<1>4. sync[v].read.policy_id \in Policies
    BY <1>1, <1>3 DEF Syncs, ActiveRows
<1> QED BY <1>1, <1>3, <1>4, ExistingRow DEF SyncInv, PolicyInv, At

LEMMA NextSyncTypeOK ==
    ASSUME SyncInv, [SyncNext]_syncVars, PolicyInv', SyncsKept
    PROVE  SyncTypeOK'
<1>1. /\ page \in [Visits -> Algorithms]
      /\ mounted \in [Visits -> {"new", "open", "left"}]
      /\ names \in [Policies -> Algorithms \cup {"other"}]
      /\ session \in [Visits -> [id : Policies \cup {"none"}, version : Nat]]
      /\ others \in 0 .. MaxOthers
      /\ alone \subseteq Visits
      /\ NoPolicy \in [id : Policies \cup {"none"}, version : Nat]
    BY DEF SyncInv, SyncTypeOK, NoPolicy
<1>2. page' = page
    BY DEF SyncNext, syncVars, Start, SyncStep, CallFails, Fails, Enter, SessionEnds,
           Leave, FindActive, FindPolicy, List, CreateOwn, PutRead, PutWrite, Reply,
           PostRead, PostReset, PostUpsert, ReadLatest, Finish, Moves, Goes
<1>3. mounted' \in [Visits -> {"new", "open", "left"}]
    <2>1. ASSUME NEW v \in Visits, Enter(v) \/ Leave(v)
          PROVE  mounted' \in [Visits -> {"new", "open", "left"}]
        BY <1>1, <2>1 DEF Enter, Leave
    <2>2. ASSUME NEW v \in Visits,
                 Start(v) \/ SyncStep(v) \/ CallFails(v) \/ SessionEnds(v)
          PROVE  mounted' = mounted
        BY <2>2 DEF Start, SyncStep, CallFails, Fails, SessionEnds, FindActive,
               FindPolicy, List, CreateOwn, PutRead, PutWrite, Reply, PostRead,
               PostReset, PostUpsert, ReadLatest, Finish, Moves, Goes
    <2> QED BY <1>1, <2>1, <2>2 DEF SyncNext, syncVars
<1>4. names' \in [Policies -> Algorithms \cup {"other"}]
    <2>1. ASSUME NEW v \in Visits, CreateOwn(v)
          PROVE  names' \in [Policies -> Algorithms \cup {"other"}]
        BY <1>1, <2>1 DEF CreateOwn
    <2>2. CASE OtherCreates
        BY <1>1, <2>2 DEF OtherCreates
    <2>3. ASSUME NEW h \in OtherHandlers, OtherStep(h)
          PROVE  names' \in [Policies -> Algorithms \cup {"other"}]
        BY <1>1, <2>2, <2>3 DEF OtherStep, OtherAsks
    <2>4. ASSUME NEW v \in Visits,
                 \/ Start(v) \/ CallFails(v) \/ Enter(v) \/ SessionEnds(v) \/ Leave(v)
                 \/ SyncStep(v) /\ ~ CreateOwn(v)
          PROVE  names' = names
        BY <2>4 DEF Start, SyncStep, CallFails, Enter, SessionEnds, Leave, FindActive,
               FindPolicy, List, PutRead, PutWrite, Reply, PostRead, PostReset,
               PostUpsert, ReadLatest, Finish
    <2>5. CASE UNCHANGED syncVars
        BY <1>1, <2>5 DEF syncVars
    <2> QED BY <1>1, <2>1, <2>3, <2>4, <2>5 DEF SyncNext
<1>5. session' \in [Visits -> [id : Policies \cup {"none"}, version : Nat]]
    <2>1. ASSUME NEW v \in Visits, Finish(v)
          PROVE  session' \in [Visits -> [id : Policies \cup {"none"}, version : Nat]]
        <3>1. CASE session' = session
            BY <1>1, <3>1
        <3>2. CASE session'[v] # NoPolicy
            BY <1>1, <2>1, <3>2, Begins DEF Latest, Snapshot
        <3>3. CASE session' = [session EXCEPT ![v] = Latest(v)] /\ session'[v] = NoPolicy
            BY <1>1, <3>3
        <3> QED BY <2>1, <3>1, <3>2, <3>3 DEF Finish
    <2>2. ASSUME NEW v \in Visits, SessionEnds(v) \/ Leave(v)
          PROVE  session' \in [Visits -> [id : Policies \cup {"none"}, version : Nat]]
        BY <1>1, <2>2 DEF SessionEnds, Leave
    <2>3. ASSUME NEW v \in Visits,
                 \/ Start(v) \/ CallFails(v) \/ Enter(v)
                 \/ SyncStep(v) /\ ~ Finish(v)
          PROVE  session' = session
        BY <2>3 DEF Start, SyncStep, CallFails, Fails, Enter, FindActive, FindPolicy,
               List, CreateOwn, PutRead, PutWrite, Reply, PostRead, PostReset,
               PostUpsert, ReadLatest, Moves, Goes
    <2>4. CASE UNCHANGED syncVars
        BY <1>1, <2>4 DEF syncVars
    <2> QED BY <1>1, <2>1, <2>2, <2>3, <2>4 DEF SyncNext
<1>6. others' \in 0 .. MaxOthers
    <2>1. \/ others' = others
          \/ others < MaxOthers /\ others' = others + 1
        BY DEF SyncNext, OtherStep, syncVars
    <2> QED BY <1>1, <2>1, VisitAssumption
<1>7. alone' \subseteq Visits
    BY <1>1 DEF SyncNext, Disturbs, syncVars
<1> QED BY <1>1, <1>2, <1>3, <1>4, <1>5, <1>6, <1>7
        DEF SyncTypeOK, SyncsKept, PolicyInv

LEMMA NextSyncInv == SyncInv /\ [SyncNext]_syncVars => SyncInv'
<1> SUFFICES ASSUME SyncInv, [SyncNext]_syncVars PROVE SyncInv'
    OBVIOUS
<1>1. PolicyInv'
    BY NextPolicyInv, SyncStepIsPolicyStep DEF SyncInv
<1>2. WritersKeep'
    BY WritersStillKeep
<1>3. SyncsKept
    BY SyncsAreKept
<1>4. SyncTypeOK'
    BY <1>1, <1>3, NextSyncTypeOK
<1> QED BY <1>1, <1>2, <1>3, <1>4 DEF SyncInv, SyncsKept

-----------------------------------------------------------------------------
(***************************************************************************)
(* A sync that nobody disturbs: the inductive invariant.                   *)
(***************************************************************************)

\* The policy that the sync has settled on is as the page asked for.
Asked(v) ==
    LET row == policies[sync[v].id] IN
    /\ row.algorithm = page[v]
    /\ row.params = Canonical(page[v], sync[v].form)
    /\ row.enabled

\* What is known at each call of a sync since the calls before it: that there is
\* no policy to take, what its handler is about to write, that the policy is as
\* asked for, and at last that it is active.
LoneInv(v) ==
    /\ sync[v].pc = "create" => Managed(v) = {}
    /\ sync[v].pc = "put" => /\ admin[v].pc = "write"
                             /\ admin[v].columns = Stored(Requested(v))
    /\ sync[v].pc \in HasWritten => Asked(v)
    /\ sync[v].pc = "post" => /\ admin[v].pc \in {"reset", "upsert"}
                              /\ admin[v].id = sync[v].id
                              /\ admin[v].algorithm = page[v]
    /\ sync[v].pc \in {"latest", "reread"} =>
           active = [policy_id |-> sync[v].id, algorithm |-> page[v]]
    /\ sync[v].pc = "reread" => sync[v].read = active

LonesInv == \A v \in alone : LoneInv(v)

\* A form's number is stored as it is, so the page can map what it has written.
LEMMA AskedIsMapped ==
    ASSUME SyncInv, NEW v \in Visits, sync[v] # NoSync, Asked(v)
    PROVE  mapPolicySnapshot(v, sync[v].id)
<1>1. sync[v].form \in Forms /\ page[v] \in Algorithms
    BY DEF SyncInv, SyncTypeOK, Syncs
<1>2. Family[page[v]] \in Families
    BY <1>1
<1> DEFINE number == sync[v].form[Family[page[v]]]
<1>3. number > 0 /\ number = Whole(number)
    BY <1>1, VisitAssumption
<1>4. Number(v, sync[v].id) = number
    BY <1>2, <1>3 DEF Number, Asked, Canonical
<1> QED BY <1>3, <1>4 DEF mapPolicySnapshot, Asked

\* What the page asks for is stored as it asked.
LEMMA StoredAsAsked ==
    ASSUME NEW v \in Visits, sync[v] # NoSync, SyncInv
    PROVE  /\ Stored(Requested(v)).algorithm = page[v]
           /\ Stored(Requested(v)).params = Canonical(page[v], sync[v].form)
           /\ Stored(Requested(v)).enabled
BY DEF Stored, Requested

\* Names change only with the rows.
LEMMA NamesKept ==
    ASSUME SyncInv, [SyncNext]_syncVars, UNCHANGED policies
    PROVE  UNCHANGED names
<1>1. ASSUME NEW id \in Policies, NEW columns, Create(id, columns)
      PROVE  FALSE
    <2>1. policies'[id] = Row(Stored(columns), 1)
        BY <1>1 DEF Create, SyncInv, PolicyInv, PolicyTypeOK
    <2>2. policies'[id].version = 1
        BY <2>1 DEF Row
    <2> QED BY <1>1, <2>2 DEF Create, Exists, NoRow
<1>2. ASSUME NEW v \in Visits, CreateOwn(v) PROVE UNCHANGED names
    BY <1>1, <1>2 DEF CreateOwn
<1>3. ~ OtherCreates
    BY <1>1 DEF OtherCreates
<1>4. ASSUME NEW v \in Visits, SyncStep(v), ~ CreateOwn(v) PROVE UNCHANGED names
    BY <1>4 DEF SyncStep, FindActive, FindPolicy, List, PutRead, PutWrite, Reply,
           PostRead, PostReset, PostUpsert, ReadLatest, Finish
<1>5. ASSUME NEW v \in Visits,
             Start(v) \/ CallFails(v) \/ Enter(v) \/ SessionEnds(v) \/ Leave(v)
      PROVE  UNCHANGED names
    BY <1>5 DEF Start, CallFails, Enter, SessionEnds, Leave
<1>6. ASSUME NEW h \in OtherHandlers, OtherStep(h) PROVE UNCHANGED names
    BY <1>3, <1>6 DEF OtherStep, OtherAsks
<1> QED BY <1>2, <1>4, <1>5, <1>6 DEF SyncNext, syncVars

\* A step of somebody else that leaves the sync alone.
LEMMA LoneKept ==
    ASSUME SyncInv, [SyncNext]_syncVars, NEW v \in Visits, LoneInv(v),
           UNCHANGED <<page, policies, active>>,
           sync'[v] = sync[v], admin'[v] = admin[v]
    PROVE  LoneInv(v)'
<1>1. UNCHANGED names
    BY NamesKept
<1>2. Managed(v)' = Managed(v)
    BY <1>1 DEF Managed, mapPolicySnapshot, Number, Exists, NoRow
<1>3. Asked(v)' = Asked(v) /\ Requested(v)' = Requested(v)
    BY DEF Asked, Requested
<1> QED BY <1>2, <1>3 DEF LoneInv

\* The sync itself goes on.
LEMMA LoneGoesOn ==
    ASSUME SyncInv, [SyncNext]_syncVars, NEW v \in Visits, SyncStep(v), LoneInv(v)
    PROVE  LoneInv(v)'
<1> DEFINE s == sync[v]
<1>1. s # NoSync /\ s \in Syncs
    <2>1. s.pc # "idle"
        BY DEF SyncStep, FindActive, FindPolicy, List, CreateOwn, PutRead, PutWrite,
               Reply, PostRead, PostReset, PostUpsert, ReadLatest, Finish, At
    <2> QED BY <2>1 DEF NoSync, SyncInv, SyncTypeOK
<1>2. /\ PolicyTypeOK /\ VisitInv(v) /\ v \in Handlers
      /\ sync \in [Visits -> Syncs \cup {NoSync}]
    BY VisitAssumption DEF SyncInv, PolicyInv, SyncTypeOK
<1>3. ASSUME NEW new, Goes(v, new)
      PROVE  sync'[v] = new /\ page' = page
    BY <1>2, <1>3 DEF Goes
<1>4. ASSUME NEW pc, Moves(v, pc)
      PROVE  /\ sync'[v].pc = pc /\ sync'[v].form = s.form
             /\ sync'[v].id = s.id /\ sync'[v].read = s.read /\ page' = page
    <2>1. sync'[v] = [s EXCEPT !.pc = pc] /\ page' = page
        BY <1>3, <1>4 DEF Moves
    <2> QED BY <1>1, <2>1 DEF Syncs
<1>5. ASSUME sync'[v].id = s.id, sync'[v].form = s.form, UNCHANGED <<page, policies>>
      PROVE  Asked(v)' = Asked(v)
    BY <1>5 DEF Asked
<1>6. CASE Fails(v)
    BY <1>3, <1>6 DEF Fails, NoSync, LoneInv, HasWritten
<1>7. CASE FindActive(v) \/ FindPolicy(v)
    <2>1. ASSUME Moves(v, "list") PROVE sync'[v].pc = "list"
        BY <1>4, <2>1
    <2>2. \/ Moves(v, "list")
          \/ sync'[v] = [s EXCEPT !.pc = "found", !.read = active]
          \/ sync'[v] = [s EXCEPT !.pc = "update", !.id = s.read.policy_id, !.read = NoActive]
          \/ sync'[v] = [s EXCEPT !.pc = "list", !.read = NoActive]
        BY <1>2, <1>7 DEF FindActive, FindPolicy, Goes
    <2>3. sync'[v].pc \in {"list", "found", "update"}
        BY <1>1, <2>1, <2>2 DEF Syncs
    <2> QED BY <2>3 DEF LoneInv, HasWritten
<1>8. CASE List(v)
    <2>1. CASE Managed(v) = {}
        <3>1. Managed(v)' = {} /\ sync'[v].pc = "create"
            BY <1>4, <1>8, <2>1
               DEF List, Managed, mapPolicySnapshot, Number, Exists, NoRow, policyVars
        <3> QED BY <3>1 DEF LoneInv, HasWritten
    <2>2. CASE Managed(v) # {}
        <3>1. \E id : sync'[v] = [s EXCEPT !.pc = "update", !.id = id]
            BY <1>2, <1>8, <2>2 DEF List, Goes
        <3>2. sync'[v].pc = "update"
            BY <1>1, <3>1 DEF Syncs
        <3> QED BY <3>2 DEF LoneInv, HasWritten
    <2> QED BY <2>1, <2>2
<1>9. CASE CreateOwn(v)
    <2>1. ASSUME NEW id \in Policies, Create(id, Requested(v)),
                 Goes(v, [sync[v] EXCEPT !.pc = "reply", !.id = id, !.wrote = 1])
          PROVE  LoneInv(v)'
        <3>0. /\ sync'[v] = [s EXCEPT !.pc = "reply", !.id = id, !.wrote = 1]
              /\ page' = page
            BY <1>2, <2>1 DEF Goes
        <3>1. /\ sync'[v].pc = "reply" /\ sync'[v].id = id
              /\ sync'[v].form = s.form /\ page' = page
            BY <1>1, <3>0 DEF Syncs
        <3>2. policies'[id] = Row(Stored(Requested(v)), 1)
            BY <1>2, <2>1 DEF Create, PolicyTypeOK
        <3>3. Asked(v)'
            BY <1>1, <3>1, <3>2, StoredAsAsked DEF Asked, Row
        <3> QED BY <3>1, <3>3 DEF LoneInv
    <2> QED BY <1>6, <1>9, <2>1 DEF CreateOwn
<1>10. CASE PutRead(v)
    <2>1. UpdateRead(v, s.id, Requested(v)) /\ Moves(v, "put")
        BY <1>10 DEF PutRead
    <2>2. /\ admin'[v].pc = "write"
          /\ admin'[v].columns = Stored(Requested(v))
        BY <1>2, <2>1 DEF UpdateRead, PolicyTypeOK
    <2>3. sync'[v].pc = "put" /\ Requested(v)' = Requested(v)
        BY <1>4, <2>1 DEF Requested
    <2> QED BY <2>2, <2>3 DEF LoneInv, HasWritten
<1>11. CASE PutWrite(v)
    <2>1. /\ At(v, "put") /\ UpdateWrite(v) /\ page' = page
          /\ sync'[v] = [s EXCEPT !.pc = "reply", !.wrote = NextVersion(v)]
        BY <1>2, <1>11 DEF PutWrite, Goes
    <2>2. /\ sync'[v].pc = "reply" /\ sync'[v].id = s.id
          /\ sync'[v].form = s.form /\ page' = page
        BY <1>1, <2>1 DEF Syncs
    <2>3. /\ admin[v].columns = Stored(Requested(v))
          /\ admin[v].id = s.id /\ s.id \in Policies
        BY <1>2, <2>1 DEF At, LoneInv, VisitInv, Settled
    <2>4. policies'[s.id] = Row(Stored(Requested(v)), NextVersion(v))
        BY <1>2, <2>1, <2>3 DEF UpdateWrite, Written, PolicyTypeOK
    <2>5. Asked(v)'
        BY <1>1, <2>2, <2>4, StoredAsAsked DEF Asked, Row
    <2> QED BY <2>2, <2>5 DEF LoneInv
<1>12. CASE Reply(v)
    <2>1. UNCHANGED policies /\ s.pc = "reply"
        BY <1>12 DEF Reply, policyVars, At
    <2>2. CASE Moves(v, "activate")
        <3>1. sync'[v].pc = "activate" /\ Asked(v)'
            BY <1>4, <1>5, <2>1, <2>2 DEF LoneInv, HasWritten
        <3> QED BY <3>1 DEF LoneInv
    <2> QED BY <1>6, <1>12, <2>2 DEF Reply
<1>13. CASE PostRead(v)
    <2>1. s.pc = "activate" /\ Asked(v)
        BY <1>13 DEF PostRead, At, LoneInv, HasWritten
    <2>2. CASE ActivateRead(v, s.id, TRUE) /\ Moves(v, "post")
        <3>1. sync'[v].pc = "post" /\ sync'[v].id = s.id /\ page' = page
            BY <1>4, <2>2
        <3>2. Asked(v)'
            BY <1>4, <1>5, <2>1, <2>2 DEF ActivateRead
        <3>3. /\ admin'[v].pc = "reset" /\ admin'[v].id = s.id
              /\ admin'[v].algorithm = page[v]
            BY <1>2, <2>1, <2>2 DEF ActivateRead, PolicyTypeOK, Asked
        <3> QED BY <3>1, <3>2, <3>3 DEF LoneInv
    <2> QED BY <1>6, <1>13, <2>2 DEF PostRead
<1>14. CASE PostReset(v)
    <2>1. s.pc = "post" /\ ResetDone(v) /\ UNCHANGED <<page, sync, policies>>
        BY <1>14 DEF PostReset, At, ResetDone
    <2>2. /\ admin'[v].pc = "upsert" /\ admin'[v].id = s.id
          /\ admin'[v].algorithm = page[v]
        <3>1. admin[v] \in Activating
            BY <1>2, <2>1 DEF ResetDone, PolicyTypeOK, Idle, Writing
        <3>2. admin' = [admin EXCEPT ![v].pc = "upsert"]
            BY <2>1 DEF ResetDone
        <3> QED BY <1>2, <2>1, <3>1, <3>2 DEF PolicyTypeOK, LoneInv, Activating
    <2> QED BY <1>5, <2>1, <2>2 DEF LoneInv, HasWritten
<1>15. CASE PostUpsert(v)
    <2>1. s.pc = "post" /\ Upsert(v) /\ Moves(v, "latest") /\ UNCHANGED policies
        BY <1>15 DEF PostUpsert, At, Upsert
    <2>2. sync'[v].pc = "latest" /\ sync'[v].id = s.id /\ page' = page
        BY <1>4, <2>1
    <2>3. active' = [policy_id |-> s.id, algorithm |-> page[v]]
        BY <2>1 DEF Upsert, LoneInv
    <2>4. Asked(v)'
        BY <1>4, <1>5, <2>1 DEF LoneInv, HasWritten
    <2> QED BY <2>2, <2>3, <2>4 DEF LoneInv
<1>16. CASE ReadLatest(v)
    <2>1. /\ s.pc = "latest" /\ UNCHANGED <<page, policies, active>>
          /\ sync'[v] = [s EXCEPT !.pc = "reread", !.read = active]
        BY <1>2, <1>16 DEF ReadLatest, At, policyVars, Goes
    <2>2. /\ sync'[v].pc = "reread" /\ sync'[v].read = active
          /\ sync'[v].id = s.id /\ sync'[v].form = s.form
        BY <1>1, <2>1 DEF Syncs
    <2>3. Asked(v)'
        BY <1>5, <2>1, <2>2 DEF LoneInv, HasWritten
    <2> QED BY <2>1, <2>2, <2>3 DEF LoneInv
<1>17. CASE Finish(v)
    <2>1. sync'[v] = NoSync
        BY <1>2, <1>17 DEF Finish
    <2> QED BY <2>1 DEF NoSync, LoneInv, HasWritten
<1> QED BY <1>7, <1>8, <1>9, <1>10, <1>11, <1>12, <1>13, <1>14, <1>15, <1>16, <1>17
        DEF SyncStep

LEMMA NextLonesInv ==
    ASSUME SyncInv, LonesInv, [SyncNext]_syncVars
    PROVE  LonesInv'
<1> SUFFICES ASSUME NEW v \in Visits, v \in alone' PROVE LoneInv(v)'
    BY NextSyncInv DEF LonesInv, SyncInv, SyncTypeOK
<1>1. /\ sync \in [Visits -> Syncs \cup {NoSync}]
      /\ alone \subseteq Visits
      /\ PolicyTypeOK
    BY DEF SyncInv, SyncTypeOK
<1>2. ASSUME Start(v) PROVE LoneInv(v)'
    <2>1. sync'[v].pc = "find"
        BY <1>1, <1>2 DEF Start, Goes
    <2> QED BY <2>1 DEF LoneInv, HasWritten
<1>3. ASSUME NEW w \in Visits, w # v, SyncStep(w) \/ CallFails(w) \/ Start(w)
      PROVE  admin'[v] = admin[v] /\ sync'[v] = sync[v] /\ UNCHANGED page
    <2>1. admin'[v] = admin[v]
        BY <1>3, OneHandlerMoves DEF OnlyHandler
    <2>2. UNCHANGED page /\ (UNCHANGED sync \/ \E new : sync' = [sync EXCEPT ![w] = new])
        BY <1>3 DEF SyncStep, CallFails, Fails, Start, FindActive, FindPolicy, List,
               CreateOwn, PutRead, PutWrite, Reply, PostRead, PostReset, PostUpsert,
               ReadLatest, Finish, Moves, Goes
    <2> QED BY <1>1, <1>3, <2>1, <2>2
<1>4. ASSUME NEW w \in Visits, w # v, Start(w), alone' = alone \cup {w}
      PROVE  LoneInv(v)'
    BY <1>3, <1>4, LoneKept DEF Start, policyVars, LonesInv
<1>5. ASSUME NEW w \in Visits, SyncStep(w), Disturbs(Visits \ {w})
      PROVE  LoneInv(v)'
    <2>1. v \in alone /\ (w # v => UNCHANGED <<policies, active>>)
        BY <1>5 DEF Disturbs
    <2>2. CASE w = v
        BY <1>5, <2>1, <2>2, LoneGoesOn DEF LonesInv
    <2>3. CASE w # v
        BY <1>3, <1>5, <2>1, <2>3, LoneKept DEF LonesInv
    <2> QED BY <2>2, <2>3
<1>6. ASSUME NEW w \in Visits, CallFails(w), alone' = alone \ {w}
      PROVE  LoneInv(v)'
    <2>1. UNCHANGED <<policies, active>>
        BY <1>6 DEF CallFails, policyVars, UpdateFail, ResetFail, UpsertFail
    <2> QED BY <1>3, <1>6, <2>1, LoneKept DEF LonesInv
<1>7. ASSUME NEW w \in Visits, Enter(w) \/ SessionEnds(w) \/ Leave(w), UNCHANGED alone
      PROVE  LoneInv(v)'
    BY <1>7, LoneKept DEF Enter, SessionEnds, Leave, policyVars, LonesInv
<1>8. ASSUME NEW h \in OtherHandlers, OtherStep(h), Disturbs(Visits),
             UNCHANGED <<page, sync>>
      PROVE  LoneInv(v)'
    <2>1. h \in Handlers /\ h # v
        BY DEF OtherHandlers
    <2>2. UNCHANGED admin \/ \E state : admin' = [admin EXCEPT ![h] = state]
        BY <1>8 DEF OtherStep, OtherAsks, OtherCreates, OtherUpdates, Create,
               UpdateRead, UpdateWrite, UpdateFail, ActivateRead, ResetDone,
               ResetFail, Upsert, UpsertFail
    <2>3. admin'[v] = admin[v]
        BY <1>1, <2>1, <2>2, VisitAssumption DEF PolicyTypeOK
    <2>4. v \in alone /\ UNCHANGED <<policies, active>>
        BY <1>8 DEF Disturbs
    <2> QED BY <1>8, <2>3, <2>4, LoneKept DEF LonesInv
<1>9. CASE UNCHANGED syncVars
    BY <1>9, LoneKept DEF syncVars, policyVars, LonesInv
<1> QED BY <1>2, <1>4, <1>5, <1>6, <1>7, <1>8, <1>9 DEF SyncNext

\* Where a sync ends, and what it has then.
LEMMA LoneEnds ==
    ASSUME SyncInv, NEW v \in Visits, SyncStep(v), LoneInv(v), Ends(v), ~ Blocked(v)
    PROVE  /\ Won(v)
           /\ mounted[v] = "open" => session'[v] = Snapshot(sync[v].id)
<1>1. /\ sync[v] # NoSync /\ sync[v] \in Syncs /\ VisitInv(v)
      /\ sync \in [Visits -> Syncs \cup {NoSync}]
      /\ session \in [Visits -> [id : Policies \cup {"none"}, version : Nat]]
    BY DEF Ends, SyncInv, SyncTypeOK
<1>2. ASSUME NEW new, Goes(v, new), new # NoSync PROVE FALSE
    BY <1>1, <1>2 DEF Goes, Ends
<1>3. ASSUME NEW pc, Moves(v, pc) PROVE FALSE
    <2>1. [sync[v] EXCEPT !.pc = pc].form = sync[v].form
        BY <1>1 DEF Syncs
    <2>2. [sync[v] EXCEPT !.pc = pc] # NoSync
        BY <1>1 DEF Syncs, NoSync
    <2> QED BY <1>2, <1>3, <2>2 DEF Moves
<1>4. /\ ~ FindActive(v) /\ ~ FindPolicy(v) /\ ~ List(v) /\ ~ PutRead(v)
      /\ ~ PutWrite(v) /\ ~ PostUpsert(v) /\ ~ ReadLatest(v) /\ ~ PostReset(v)
    <2>1. /\ \A read : [sync[v] EXCEPT !.pc = "found", !.read = read] # NoSync
          /\ \A id, read : [sync[v] EXCEPT !.pc = "update", !.id = id, !.read = read] # NoSync
          /\ \A read : [sync[v] EXCEPT !.pc = "list", !.read = read] # NoSync
          /\ \A id : [sync[v] EXCEPT !.pc = "update", !.id = id] # NoSync
          /\ \A n : [sync[v] EXCEPT !.pc = "reply", !.wrote = n] # NoSync
          /\ \A read : [sync[v] EXCEPT !.pc = "reread", !.read = read] # NoSync
        BY <1>1 DEF Syncs, NoSync
    <2>2. ~ FindActive(v) /\ ~ FindPolicy(v)
        BY <1>2, <1>3, <2>1 DEF FindActive, FindPolicy
    <2>3. ~ List(v)
        BY <1>2, <1>3, <2>1 DEF List
    <2>4. ~ PutRead(v) /\ ~ PutWrite(v) /\ ~ PostUpsert(v) /\ ~ ReadLatest(v)
        BY <1>2, <1>3, <2>1 DEF PutRead, PutWrite, PostUpsert, ReadLatest
    <2>5. ~ PostReset(v)
        BY <1>1 DEF PostReset, Ends
    <2> QED BY <2>2, <2>3, <2>4, <2>5
<1>5. ~ CreateOwn(v)
    <2> SUFFICES ASSUME CreateOwn(v) PROVE FALSE
        OBVIOUS
    <2>1. \A id : [sync[v] EXCEPT !.pc = "reply", !.id = id, !.wrote = 1] # NoSync
        BY <1>1 DEF Syncs, NoSync
    <2>2. NameTaken(page[v])
        BY <1>2, <2>1 DEF CreateOwn
    <2>3. Managed(v) = {}
        BY DEF CreateOwn, At, LoneInv
    <2> QED BY <2>2, <2>3 DEF NameTaken, Managed, Blocked
<1>6. ~ Reply(v)
    <2> SUFFICES ASSUME Reply(v) PROVE FALSE
        OBVIOUS
    <2>1. Asked(v)
        BY DEF Reply, At, LoneInv, HasWritten
    <2> QED BY <1>1, <1>3, <2>1, AskedIsMapped DEF Reply
<1>7. ~ PostRead(v)
    BY <1>3 DEF PostRead, At, LoneInv, HasWritten, Asked
<1>8. Finish(v)
    BY <1>4, <1>5, <1>6, <1>7 DEF SyncStep
<1>9. /\ Asked(v) /\ sync[v].read = active
      /\ active = [policy_id |-> sync[v].id, algorithm |-> page[v]]
      /\ sync[v].id \in Policies
    BY <1>1, <1>8 DEF Finish, At, LoneInv, HasWritten, VisitInv, Settled
<1>10. Won(v)
    BY <1>9 DEF Won, Asked
<1>11. sync[v].read # NoActive /\ Answered(v, sync[v].read)
    <2>1. /\ sync[v].read.policy_id = sync[v].id
          /\ sync[v].read.algorithm = page[v]
        BY <1>9
    <2>2. sync[v].read # NoActive
        BY <1>9, <2>1, VisitAssumption DEF NoActive
    <2>3. mapPolicySnapshot(v, sync[v].id)
        BY <1>1, <1>9, AskedIsMapped
    <2> QED BY <1>9, <2>1, <2>2, <2>3 DEF Answered, Asked
<1>12. mounted[v] = "open" => session'[v] = Latest(v)
    BY <1>1, <1>8, <1>11 DEF Finish
<1> QED BY <1>9, <1>10, <1>12 DEF Latest

-----------------------------------------------------------------------------
(***************************************************************************)
(* Theorems about dashboard pages.                                         *)
(***************************************************************************)

\* Every state that pages and other clients reach keeps its types, and what a
\* sync has settled on stays a policy of its page's algorithm.
THEOREM SyncInvariance == SyncSpec => []SyncInv
BY InitSyncInv, NextSyncInv, PTL DEF SyncSpec

\* The pages use the policy service as it is specified: what is proved of it
\* holds whatever pages do.
THEOREM PagesRunPolicyService == SyncSpec => PolicySpec
<1>1. SyncInit => PolicyInit
    BY DEF SyncInit
<1>2. SyncInv /\ [SyncNext]_syncVars => [PolicyNext]_policyVars
    BY SyncStepIsPolicyStep
<1> QED BY <1>1, <1>2, SyncInvariance, PTL DEF SyncSpec, PolicySpec

\* No sync writes its page's algorithm into a policy of another one, however
\* it crosses with other syncs, updates and activations.
THEOREM PoliciesNotTakenOver == SyncSpec => NeverTakenOver
<1>1. SyncInv /\ [SyncNext]_syncVars =>
          [\A id \in Policies :
               Exists(id) => policies'[id].algorithm = policies[id].algorithm]_syncVars
    BY RowsAreKept DEF RowsKept
<1> QED BY <1>1, SyncInvariance, PTL DEF SyncSpec, NeverTakenOver

\* A session begins on a snapshot that has the page's own write in it.
THEOREM SessionsHaveOwnWrite == SyncSpec => ReadsOwnWrite
<1> DEFINE Good == \A v \in Visits :
               Ends(v) /\ session'[v] # NoPolicy /\ session'[v].id = sync[v].id =>
                   session'[v].version >= sync[v].wrote
<1>1. ASSUME SyncInv, [SyncNext]_syncVars PROVE [Good]_syncVars
    <2> SUFFICES ASSUME NEW v \in Visits, Ends(v), session'[v] # NoPolicy,
                        session'[v].id = sync[v].id
                 PROVE  session'[v].version >= sync[v].wrote
        OBVIOUS
    <2>1. sync[v] # NoSync /\ sync'[v] = NoSync /\ session[v] = NoPolicy
        BY <1>1 DEF Ends, SyncInv, VisitInv
    <2>2. Finish(v)
        <3> session \in [Visits -> [id : Policies \cup {"none"}, version : Nat]]
            BY <1>1 DEF SyncInv, SyncTypeOK
        <3>1. session'[v] # session[v] /\ session'[v] # NoPolicy
            BY <2>1
        <3>2. ASSUME NEW w \in Visits, SessionEnds(w) \/ Leave(w)
              PROVE  FALSE
            BY <3>1, <3>2 DEF SessionEnds, Leave
        <3>3. ASSUME NEW w \in Visits,
                     \/ Start(w) \/ CallFails(w) \/ Enter(w)
                     \/ SyncStep(w) /\ ~ Finish(w)
              PROVE  session' = session
            BY <3>3 DEF Start, SyncStep, CallFails, Fails, Enter, FindActive,
                   FindPolicy, List, CreateOwn, PutRead, PutWrite, Reply, PostRead,
                   PostReset, PostUpsert, ReadLatest, Moves, Goes
        <3>4. ASSUME NEW w \in Visits, Finish(w), w # v
              PROVE  FALSE
            BY <3>1, <3>4 DEF Finish
        <3>5. CASE UNCHANGED syncVars
            BY <3>1, <3>5 DEF syncVars
        <3> QED BY <1>1, <3>1, <3>2, <3>3, <3>4, <3>5 DEF SyncNext
    <2>3. /\ session' = [session EXCEPT ![v] = Latest(v)]
          /\ sync[v].pc = "reread"
          /\ sync[v].read.policy_id \in Policies
        BY <1>1, <2>2, Begins
    <2>4. session'[v] = Snapshot(sync[v].read.policy_id)
        BY <1>1, <2>3 DEF Latest, SyncInv, SyncTypeOK
    <2>5. session'[v].version = policies[sync[v].id].version
        BY <2>4 DEF Snapshot
    <2>6. /\ sync[v].wrote =< policies[sync[v].id].version
          /\ sync[v].wrote \in Nat
          /\ policies[sync[v].id].version \in Nat
        BY <1>1, <2>1, <2>3, Begins, <2>2, <2>4
           DEF SyncInv, VisitInv, HasWritten, SyncTypeOK, Syncs, Snapshot
    <2> QED BY <2>5, <2>6
<1>2. SyncInv /\ [SyncNext]_syncVars => [Good]_syncVars
    BY <1>1
<1> QED BY <1>2, SyncInvariance, PTL DEF SyncSpec, ReadsOwnWrite

\* A sync that nobody disturbs ends with what the page asked for active, and
\* its session on it, whatever the sync has found.
THEOREM LoneSyncsSucceed == SyncSpec => LoneSyncSucceeds
<1> DEFINE Good == \A v \in Visits :
               Ends(v) /\ v \in alone' /\ ~ Blocked(v) =>
                   /\ Won(v)
                   /\ mounted[v] = "open" => session'[v] = Snapshot(sync[v].id)
<1>1. SyncInit => LonesInv
    BY DEF SyncInit, LonesInv
<1>2. SyncInv /\ LonesInv /\ [SyncNext]_syncVars => LonesInv'
    BY NextLonesInv
<1>3. ASSUME SyncInv, LonesInv, [SyncNext]_syncVars PROVE [Good]_syncVars
    <2> SUFFICES ASSUME NEW v \in Visits, Ends(v), v \in alone', ~ Blocked(v), SyncNext
                 PROVE  /\ Won(v)
                        /\ mounted[v] = "open" => session'[v] = Snapshot(sync[v].id)
        BY <1>3
    <2>1. sync \in [Visits -> Syncs \cup {NoSync}]
        BY <1>3 DEF SyncInv, SyncTypeOK
    <2>2. ASSUME NEW w \in Visits, w # v, SyncStep(w) \/ CallFails(w) \/ Start(w)
          PROVE  FALSE
        <3>1. UNCHANGED sync \/ \E new : sync' = [sync EXCEPT ![w] = new]
            BY <2>2 DEF SyncStep, CallFails, Fails, Start, FindActive, FindPolicy, List,
                   CreateOwn, PutRead, PutWrite, Reply, PostRead, PostReset, PostUpsert,
                   ReadLatest, Finish, Moves, Goes
        <3> QED BY <2>1, <2>2, <3>1 DEF Ends
    <2>3. ~ Start(v)
        BY DEF Start, Ends
    <2>4. ASSUME NEW w \in Visits, Enter(w) \/ SessionEnds(w) \/ Leave(w)
          PROVE  FALSE
        BY <2>4 DEF Enter, SessionEnds, Leave, Ends
    <2>5. ~ UNCHANGED sync
        BY DEF Ends
    <2>6. SyncStep(v) /\ Disturbs(Visits \ {v})
        BY <2>2, <2>3, <2>4, <2>5 DEF SyncNext
    <2>7. v \in alone
        BY <2>6 DEF Disturbs
    <2> QED BY <1>3, <2>6, <2>7, LoneEnds DEF LonesInv
<1>4. SyncInv /\ LonesInv /\ [SyncNext]_syncVars => [Good]_syncVars
    BY <1>3
<1> QED BY <1>1, <1>2, <1>4, SyncInvariance, PTL DEF SyncSpec, LoneSyncSucceeds

-----------------------------------------------------------------------------
(***************************************************************************)
(* The gateway implements the policy service.                              *)
(***************************************************************************)
LEMMA StepIsPolicyStep == [Next]_vars => [PolicyNext]_policyVars
<1> SUFFICES ASSUME [Next]_vars PROVE [PolicyNext]_policyVars
    OBVIOUS
<1>1. CASE CreateSome
    BY <1>1 DEF PolicyNext
<1>2. ASSUME NEW h \in Handlers,
             \/ StartUpdate(h)
             \/ \E id \in Policies, reset \in BOOLEAN : BeginActivate(h, id, reset)
      PROVE  PolicyNext
    BY <1>2 DEF PolicyNext, BeginActivate
<1>3. ASSUME NEW h \in Handlers, HandlerStep(h)
      PROVE  [PolicyNext]_policyVars
    <2>1. CASE WriteRow(h)
        BY <2>1 DEF WriteRow, PolicyNext
    <2>2. CASE Scan(h)
        BY <2>2 DEF Scan
    <2>3. CASE Delete(h)
        BY <2>3 DEF Delete
    <2>4. CASE EndScan(h)
        BY <2>4 DEF EndScan, PolicyNext
    <2>5. CASE AbortScan(h)
        BY <2>5 DEF AbortScan, PolicyNext
    <2>6. CASE Switch(h)
        BY <2>6 DEF Switch, PolicyNext
    <2> QED BY <1>3, <2>1, <2>2, <2>3, <2>4, <2>5, <2>6 DEF HandlerStep
<1>4. ASSUME NEW q \in Requests, Arrive(q) \/ RequestStep(q)
      PROVE  UNCHANGED policyVars
    BY <1>4 DEF Arrive, RequestStep, ReadActive, ReadPolicy, Judge, JudgeFail,
                Forward, RequestUnchanged
<1>5. ASSUME NEW k \in Keys, Expire(k)
      PROVE  UNCHANGED policyVars
    BY <1>5 DEF Expire
<1>6. CASE UNCHANGED vars
    BY <1>6 DEF vars
<1> QED BY <1>1, <1>2, <1>3, <1>4, <1>5, <1>6 DEF Next, Step

THEOREM RunsPolicyService == Spec => PolicySpec
<1>1. Init => PolicyInit
    BY DEF Init
<1> QED BY <1>1, StepIsPolicyStep, PTL DEF Spec, PolicySpec

-----------------------------------------------------------------------------
(***************************************************************************)
(* The inductive invariant.                                                *)
(***************************************************************************)
Target(q) == [policy_id |-> requests[q].id, algorithm |-> requests[q].algorithm]

\* The history of a request in progress holds the present active row.
SeenActive == \A q \in Requests : requests[q] # Idle => active \in seen[q]

\* What a request has read of the active row was active since it began.
ReadWasActive ==
    \A q \in Requests :
        requests[q].pc \in {"found", "judge"} => Target(q) \in seen[q]

\* ... and its row is there, for rows are never deleted.
ReadExists ==
    \A q \in Requests : requests[q].pc = "found" => Exists(requests[q].id)

SeenTyped ==
    \A q \in Requests :
        seen[q] \subseteq [policy_id : Policies, algorithm : Algorithms]
                              \cup {NoActive}

RequestInv ==
    /\ requests \in [Requests -> {Idle} \cup Reading \cup Found
                                        \cup Judging \cup Forwarding]
    /\ SeenTyped
    /\ SeenActive
    /\ ReadWasActive
    /\ ReadExists
    /\ JudgedOnFittingParams

\* The keys that a reset still has to delete lie ahead of its scan.
OlderAhead ==
    \A h \in Handlers :
        older[h] \subseteq IF admin[h].pc = "reset"
                           THEN scan[h].todo \cup scan[h].batch ELSE {}

ScanInv ==
    /\ keys \in SUBSET Keys
    /\ scan \in [Handlers -> [todo : SUBSET Keys, batch : SUBSET Keys]]
    /\ older \in [Handlers -> SUBSET keys]
    /\ OlderAhead

IInv == PolicyInv /\ RequestInv /\ ScanInv

LEMMA InitIInv == Init => IInv
<1> SUFFICES ASSUME Init PROVE IInv
    OBVIOUS
<1> USE DEF Init
<1>1. PolicyInv
    BY InitPolicyInv
<1>2. RequestInv
    BY DEF RequestInv, SeenTyped, SeenActive, ReadWasActive, ReadExists,
           JudgedOnFittingParams, Idle
<1>3. ScanInv
    BY DEF ScanInv, OlderAhead, NoScan
<1> QED BY <1>1, <1>2, <1>3 DEF IInv

-----------------------------------------------------------------------------
(***************************************************************************)
(* Requests.                                                               *)
(***************************************************************************)

\* The history of a request that goes on only grows, by the active row.
LEMMA Remembered ==
    ASSUME Remember, NEW q \in Requests, requests'[q] # Idle
    PROVE  /\ active' \in seen'[q]
           /\ requests[q] # Idle => seen[q] \subseteq seen'[q]
BY DEF Remember

LEMMA SeenStaysTyped ==
    ASSUME SeenTyped, Remember,
           active' \in [policy_id : Policies, algorithm : Algorithms]
                           \cup {NoActive}
    PROVE  SeenTyped'
<1> SUFFICES ASSUME NEW q \in Requests
             PROVE  seen'[q] \subseteq
                        [policy_id : Policies, algorithm : Algorithms]
                            \cup {NoActive}
    BY DEF SeenTyped, NoActive
<1>1. seen'[q] \subseteq seen[q] \cup {active'}
    BY DEF Remember
<1> QED BY <1>1 DEF SeenTyped

\* A request reads on: what it holds now comes from the active row, or is what
\* it held before.
LEMMA RequestMoves ==
    ASSUME PolicyInv, RequestInv, Remember, UNCHANGED policyVars,
           NEW q \in Requests,
           NEW s \in {Idle} \cup Reading \cup Found \cup Judging \cup Forwarding,
           requests' = [requests EXCEPT ![q] = s],
           s.pc \in {"found", "judge"} =>
               /\ requests[q] # Idle
               /\ \/ active = [policy_id |-> s.id, algorithm |-> s.algorithm]
                  \/ /\ requests[q].pc = "found"
                     /\ s.id = requests[q].id
                     /\ s.algorithm = requests[q].algorithm,
           s.pc = "found" => Exists(s.id),
           s.pc = "judge" => Fits(s.algorithm, s.params)
    PROVE  RequestInv'
<1> USE DEF RequestInv
<1>0. UNCHANGED <<policies, active>>
    BY DEF policyVars
<1>1. requests' \in [Requests -> {Idle} \cup Reading \cup Found
                                     \cup Judging \cup Forwarding]
    OBVIOUS
<1>2. SeenTyped'
    BY <1>0, SeenStaysTyped DEF PolicyInv, PolicyTypeOK
<1>3. SeenActive'
    BY Remembered DEF SeenActive, Idle
<1>4. ReadWasActive'
    <2> SUFFICES ASSUME NEW p \in Requests,
                        requests'[p].pc \in {"found", "judge"}
                 PROVE  [policy_id |-> requests'[p].id,
                         algorithm |-> requests'[p].algorithm] \in seen'[p]
        BY DEF ReadWasActive, Target
    <2>1. requests'[p] # Idle
        BY DEF Idle
    <2>2. CASE p = q
        <3>1. requests'[p] = s /\ requests[p] # Idle
            BY <2>2
        <3>2. active \in seen'[p] /\ seen[p] \subseteq seen'[p]
            BY <1>0, <2>1, <3>1, Remembered
        <3>3. requests[p].pc = "found" =>
                  [policy_id |-> requests[p].id,
                   algorithm |-> requests[p].algorithm] \in seen[p]
            BY DEF ReadWasActive, Target
        <3> QED BY <2>2, <3>1, <3>2, <3>3
    <2>3. CASE p # q
        <3>1. requests'[p] = requests[p]
            BY <2>3
        <3>2. seen[p] \subseteq seen'[p]
            BY <2>1, <3>1, Remembered
        <3> QED BY <3>1, <3>2 DEF ReadWasActive, Target
    <2> QED BY <2>2, <2>3
<1>5. ReadExists'
    <2> SUFFICES ASSUME NEW p \in Requests, requests'[p].pc = "found"
                 PROVE  policies[requests'[p].id] # NoRow
        BY <1>0 DEF ReadExists, Exists, NoRow
    <2>1. CASE p = q
        BY <2>1 DEF Exists
    <2>2. CASE p # q
        BY <2>2 DEF ReadExists, Exists
    <2> QED BY <2>1, <2>2
<1>6. JudgedOnFittingParams'
    <2> SUFFICES ASSUME NEW p \in Requests, requests'[p].pc = "judge"
                 PROVE  Fits(requests'[p].algorithm, requests'[p].params)
        BY DEF JudgedOnFittingParams, Fits
    <2>1. CASE p = q
        BY <2>1
    <2>2. CASE p # q
        BY <2>2 DEF JudgedOnFittingParams
    <2> QED BY <2>1, <2>2
<1> QED BY <1>1, <1>2, <1>3, <1>4, <1>5, <1>6

\* Other steps leave the requests alone; rows stay, and histories grow.
LEMMA RequestsWait ==
    ASSUME PolicyInv, RequestInv, Remember, UNCHANGED requests,
           [PolicyNext]_policyVars
    PROVE  RequestInv'
<1> USE DEF RequestInv
<1>1. PolicyInv'
    BY NextPolicyInv
<1>2. SeenTyped'
    BY <1>1, SeenStaysTyped DEF PolicyInv, PolicyTypeOK, NoActive
<1>3. SeenActive'
    BY Remembered DEF SeenActive, Idle
<1>4. ReadWasActive'
    <2> SUFFICES ASSUME NEW q \in Requests,
                        requests[q].pc \in {"found", "judge"}
                 PROVE  Target(q) \in seen'[q]
        BY DEF ReadWasActive, Target
    <2>1. requests[q] # Idle
        BY DEF Idle
    <2>2. seen[q] \subseteq seen'[q]
        BY <2>1, Remembered
    <2> QED BY <2>2 DEF ReadWasActive
<1>5. ReadExists'
    <2> SUFFICES ASSUME NEW q \in Requests, requests[q].pc = "found"
                 PROVE  Exists(requests[q].id)'
        BY DEF ReadExists, Exists, NoRow
    <2>1. requests[q].id \in Policies /\ Exists(requests[q].id)
        BY DEF ReadExists, Idle, Reading, Found, Judging, Forwarding
    <2>2. \A p \in Policies : policies[p] # NoRow => policies'[p] # NoRow
        BY RowsStay DEF Exists, NoRow
    <2> QED BY <2>1, <2>2 DEF Exists, NoRow
<1>6. JudgedOnFittingParams'
    BY DEF JudgedOnFittingParams, Fits
<1> QED BY <1>2, <1>3, <1>4, <1>5, <1>6

LEMMA RequestStepPreserves ==
    ASSUME PolicyInv, RequestInv, Remember,
           NEW q \in Requests, Arrive(q) \/ RequestStep(q)
    PROVE  RequestInv'
<1>1. UNCHANGED policyVars
    BY DEF Arrive, RequestStep, ReadActive, ReadPolicy, Judge, JudgeFail,
           Forward, RequestUnchanged
<1>2. CASE Answer(q)
    BY <1>1, <1>2, RequestMoves DEF Answer, Idle
<1>3. CASE Arrive(q)
    <2> DEFINE s == [pc |-> "read"]
    <2>1. s \in Reading /\ s.pc = "read"
        BY DEF Reading
    <2>2. requests' = [requests EXCEPT ![q] = s]
        BY <1>3 DEF Arrive
    <2> HIDE DEF s
    <2> QED BY <1>1, <2>1, <2>2, RequestMoves
<1>4. CASE ReadActive(q) /\ active # NoActive
    <2> DEFINE s == [pc |-> "found", id |-> active.policy_id,
                     algorithm |-> active.algorithm]
    <2>1. /\ active \in [policy_id : Policies, algorithm : Algorithms]
          /\ Exists(active.policy_id)
        BY <1>4 DEF PolicyInv, PolicyTypeOK, TargetsExist
    <2>2. /\ s \in Found /\ s.pc = "found"
          /\ active = [policy_id |-> s.id, algorithm |-> s.algorithm]
          /\ Exists(s.id)
        BY <2>1 DEF Found
    <2>3. requests' = [requests EXCEPT ![q] = s] /\ requests[q] # Idle
        BY <1>4 DEF ReadActive, Idle
    <2> HIDE DEF s
    <2> QED BY <1>1, <2>2, <2>3, RequestMoves
<1>5. CASE ReadPolicy(q) /\ IsTarget(q)
    <2> DEFINE row == policies[requests[q].id]
               s == [pc |-> "judge", id |-> requests[q].id,
                     algorithm |-> row.algorithm, params |-> row.params]
    <2>1. requests[q].pc = "found" /\ requests[q] \in Found
        BY <1>5 DEF ReadPolicy, RequestInv, Idle, Reading, Found, Judging,
                    Forwarding
    <2>2. requests[q].id \in Policies /\ Exists(requests[q].id)
        BY <2>1 DEF Found, RequestInv, ReadExists
    <2>3. row \in Rows /\ Fits(row.algorithm, row.params)
        BY <2>2, ExistingRow DEF PolicyInv, PairsFit
    <2>4. row.algorithm = requests[q].algorithm
        BY <1>5 DEF IsTarget
    <2>5. requests' = [requests EXCEPT ![q] = s] /\ requests[q] # Idle
        BY <1>5, <2>1 DEF ReadPolicy, Idle
    <2> HIDE DEF row
    <2>6. /\ s \in Judging /\ s.pc = "judge"
          /\ s.id = requests[q].id /\ s.algorithm = requests[q].algorithm
          /\ Fits(s.algorithm, s.params)
        BY <2>2, <2>3, <2>4 DEF Judging, Rows
    <2> HIDE DEF s
    <2> QED BY <1>1, <2>1, <2>5, <2>6, RequestMoves
<1>6. CASE requests' = [requests EXCEPT ![q] = [pc |-> "forward"]]
    <2> DEFINE s == [pc |-> "forward"]
    <2>1. s \in Forwarding /\ s.pc = "forward"
        BY DEF Forwarding
    <2>2. requests' = [requests EXCEPT ![q] = s]
        BY <1>6
    <2> HIDE DEF s
    <2> QED BY <1>1, <2>1, <2>2, RequestMoves
<1> QED BY <1>2, <1>3, <1>4, <1>5, <1>6
        DEF RequestStep, ReadActive, ReadPolicy, Judge, JudgeFail, Forward

-----------------------------------------------------------------------------
(***************************************************************************)
(* Resets.                                                                 *)
(***************************************************************************)

\* New keys, and handlers that neither begin nor end a scan, disturb nothing.
LEMMA ScanWaits ==
    ASSUME ScanInv, UNCHANGED <<scan, older>>,
           keys' \in SUBSET Keys, keys \subseteq keys',
           \A h \in Handlers : admin[h].pc = "reset" <=> admin'[h].pc = "reset"
    PROVE  ScanInv'
BY DEF ScanInv, OlderAhead, Keys

\* Keys that go are forgotten.
LEMMA RemovePreserves ==
    ASSUME ScanInv, NEW K, Remove(K), UNCHANGED admin,
           scan' \in [Handlers -> [todo : SUBSET Keys, batch : SUBSET Keys]],
           \A h \in Handlers :
               scan[h].todo \cup scan[h].batch
                   \subseteq scan'[h].todo \cup scan'[h].batch \cup K
    PROVE  ScanInv'
<1>1. keys' \in SUBSET Keys /\ older' \in [Handlers -> SUBSET keys']
    BY DEF ScanInv, Remove
<1>2. OlderAhead'
    BY DEF ScanInv, OlderAhead, Remove
<1> QED BY <1>1, <1>2 DEF ScanInv, Keys

LEMMA HandlerStepPreserves ==
    ASSUME PolicyInv, ScanInv, NEW h \in Handlers, HandlerStep(h)
    PROVE  ScanInv'
<1>0. /\ admin \in [Handlers -> {Idle} \cup Writing \cup Activating]
      /\ \A g \in Handlers : scan[g].todo \subseteq Keys
                             /\ scan[g].batch \subseteq Keys
    BY DEF PolicyInv, PolicyTypeOK, ScanInv
<1>1. CASE WriteRow(h)
    <2>1. \A g \in Handlers : admin[g].pc = "reset" <=> admin'[g].pc = "reset"
        BY <1>0, <1>1 DEF WriteRow, UpdateWrite, UpdateFail, Idle
    <2> QED BY <1>1, <2>1, ScanWaits DEF WriteRow, HandlerUnchanged, ScanInv
<1>2. CASE Scan(h)
    <2>1. PICK B \in SUBSET scan[h].todo \ {{}} :
              scan' = [scan EXCEPT ![h] =
                          [todo |-> LeftAfter(h, B), batch |-> B \cap keys]]
        BY <1>2 DEF Scan
    <2> DEFINE todo == scan[h].todo \ B
               batch == B \cap keys
    <2>2. scan' = [scan EXCEPT ![h] = [todo |-> todo, batch |-> batch]]
        BY <2>1 DEF LeftAfter
    <2>3. /\ admin[h].pc = "reset" /\ scan[h].batch = {}
          /\ older' = [older EXCEPT ![h] =
                 IF Begun(h) THEN older[h] ELSE keys \cap KeysOf(admin[h].id)]
          /\ UNCHANGED <<policyVars, requests, keys>>
        BY <1>2 DEF Scan
    <2>4. UNCHANGED admin
        BY <2>3 DEF policyVars
    <2>5. todo \in SUBSET Keys /\ batch \in SUBSET Keys
        BY <1>0, <2>1
    <2>6. older[h] \subseteq keys /\ older[h] \subseteq scan[h].todo
        BY <2>3 DEF ScanInv, OlderAhead
    <2>7. older'[h] \subseteq keys /\ older'[h] \subseteq todo \cup batch
        <3>1. CASE Begun(h)
            BY <2>3, <2>6, <3>1 DEF ScanInv
        <3>2. CASE ~ Begun(h)
            BY <2>3, <3>2 DEF ScanInv, Begun
        <3> QED BY <3>1, <3>2
    <2> HIDE DEF todo, batch
    <2>8. /\ scan'[h].todo = todo /\ scan'[h].batch = batch
          /\ \A g \in Handlers \ {h} : scan'[g] = scan[g] /\ older'[g] = older[g]
          /\ scan' \in [Handlers -> [todo : SUBSET Keys, batch : SUBSET Keys]]
        BY <2>2, <2>3, <2>5 DEF ScanInv
    <2>9. older' \in [Handlers -> SUBSET keys]
        <3>1. \A g \in Handlers : older'[g] \subseteq keys
            BY <2>7, <2>8 DEF ScanInv
        <3>2. older' = [g \in Handlers |-> older'[g]]
            BY <2>3 DEF ScanInv
        <3> QED BY <3>1, <3>2
    <2>10. OlderAhead'
        <3> SUFFICES ASSUME NEW g \in Handlers
                     PROVE  older'[g] \subseteq
                                IF admin[g].pc = "reset"
                                THEN scan'[g].todo \cup scan'[g].batch ELSE {}
            BY <2>4 DEF OlderAhead
        <3>1. CASE g = h
            BY <2>3, <2>7, <2>8, <3>1
        <3>2. CASE g # h
            BY <2>8, <3>2 DEF ScanInv, OlderAhead
        <3> QED BY <3>1, <3>2
    <2> QED BY <2>3, <2>8, <2>9, <2>10 DEF ScanInv, Keys
<1>3. CASE Delete(h)
    <2>1. /\ Remove(scan[h].batch)
          /\ scan' = [scan EXCEPT ![h].batch = {}]
          /\ UNCHANGED admin
        BY <1>3 DEF Delete, policyVars
    <2>2. scan' \in [Handlers -> [todo : SUBSET Keys, batch : SUBSET Keys]]
        BY <2>1 DEF ScanInv
    <2>3. \A g \in Handlers :
              scan[g].todo \cup scan[g].batch
                  \subseteq scan'[g].todo \cup scan'[g].batch
                                \cup scan[h].batch
        BY <2>1 DEF ScanInv
    <2> QED BY <2>1, <2>2, <2>3, RemovePreserves
<1>4. CASE EndScan(h)
    <2>1. /\ admin[h].pc = "reset"
          /\ scan[h].todo = {} /\ scan[h].batch = {}
          /\ admin' = [admin EXCEPT ![h].pc = "upsert"]
          /\ scan' = [scan EXCEPT ![h] = NoScan]
          /\ UNCHANGED <<older, keys>>
        BY <1>4 DEF EndScan, ResetDone, ScanOver, HandlerUnchanged
    <2>2. older[h] = {}
        BY <2>1 DEF ScanInv, OlderAhead
    <2>3. scan' \in [Handlers -> [todo : SUBSET Keys, batch : SUBSET Keys]]
        BY <2>1 DEF ScanInv, NoScan
    <2>4. \A g \in Handlers \ {h} : admin'[g] = admin[g] /\ scan'[g] = scan[g]
        BY <1>0, <2>1 DEF ScanInv
    <2>5. OlderAhead'
        BY <2>1, <2>2, <2>4 DEF ScanInv, OlderAhead
    <2> QED BY <2>1, <2>3, <2>5 DEF ScanInv, Keys
<1>5. CASE AbortScan(h) \/ Switch(h)
    <2>1. /\ admin' = [admin EXCEPT ![h] = Idle]
          /\ older' = [older EXCEPT ![h] = {}]
          /\ scan' \in {scan, [scan EXCEPT ![h] = NoScan]}
          /\ UNCHANGED keys
        BY <1>5 DEF AbortScan, Switch, ResetFail, Upsert, UpsertFail,
                    HandlerUnchanged
    <2>2. scan' \in [Handlers -> [todo : SUBSET Keys, batch : SUBSET Keys]]
        BY <2>1 DEF ScanInv, NoScan
    <2>3. \A g \in Handlers \ {h} : /\ admin'[g] = admin[g]
                                     /\ scan'[g] = scan[g]
                                     /\ older'[g] = older[g]
        BY <1>0, <2>1 DEF ScanInv
    <2>4. older'[h] = {} /\ older' \in [Handlers -> SUBSET keys]
        BY <2>1 DEF ScanInv
    <2>5. OlderAhead'
        BY <2>3, <2>4 DEF ScanInv, OlderAhead
    <2> QED BY <2>1, <2>2, <2>4, <2>5 DEF ScanInv, Keys
<1> QED BY <1>1, <1>2, <1>3, <1>4, <1>5 DEF HandlerStep

LEMMA BeginPreserves ==
    ASSUME PolicyInv, ScanInv, NEW h \in Handlers, NEW id \in Policies,
           NEW reset \in BOOLEAN, BeginActivate(h, id, reset)
    PROVE  ScanInv'
<1>1. /\ admin \in [Handlers -> {Idle} \cup Writing \cup Activating]
      /\ admin[h] = Idle
    BY DEF PolicyInv, PolicyTypeOK, BeginActivate, ActivateRead
<1>2. older[h] = {}
    BY <1>1 DEF ScanInv, OlderAhead, Idle
<1> DEFINE todo == IF reset THEN KeysOf(id) ELSE {}
<1>3. todo \in SUBSET Keys
    BY DEF KeysOf, Keys
<1>4. scan' = [scan EXCEPT ![h].todo = todo] /\ UNCHANGED <<older, keys>>
    BY DEF BeginActivate, HandlerUnchanged
<1> HIDE DEF todo
<1>5. scan' \in [Handlers -> [todo : SUBSET Keys, batch : SUBSET Keys]]
    BY <1>3, <1>4 DEF ScanInv
<1>6. \A g \in Handlers \ {h} : admin'[g] = admin[g] /\ scan'[g] = scan[g]
    BY <1>1, <1>4 DEF BeginActivate, ActivateRead, ScanInv
<1>7. OlderAhead'
    BY <1>2, <1>4, <1>6 DEF ScanInv, OlderAhead
<1> QED BY <1>4, <1>5, <1>7 DEF ScanInv, Keys

\* A request may create a key of the policy and the algorithm it has read.
LEMMA RequestKeys ==
    ASSUME RequestInv, ScanInv, NEW q \in Requests, Arrive(q) \/ RequestStep(q)
    PROVE  ScanInv'
<1>1. UNCHANGED <<admin, scan, older>>
    BY DEF Arrive, RequestStep, ReadActive, ReadPolicy, Judge, JudgeFail,
           Forward, RequestUnchanged, policyVars
<1>2. CASE UNCHANGED keys
    BY <1>1, <1>2, ScanWaits DEF ScanInv
<1>3. CASE requests[q].pc = "judge" /\ keys' = keys \cup {Key(q)}
    <2>1. requests[q] \in Judging
        BY <1>3 DEF RequestInv, Idle, Reading, Found, Judging, Forwarding
    <2>2. Key(q) \in Keys
        BY <2>1 DEF Key, Keys, Judging
    <2> QED BY <1>1, <1>3, <2>2, ScanWaits DEF ScanInv
<1> QED BY <1>2, <1>3
        DEF Arrive, RequestStep, ReadActive, ReadPolicy, Judge, JudgeFail, Forward

-----------------------------------------------------------------------------
(***************************************************************************)
(* The invariant is inductive.                                             *)
(***************************************************************************)
LEMMA NextIInv == IInv /\ [Next]_vars => IInv'
<1> SUFFICES ASSUME IInv, [Next]_vars PROVE IInv'
    OBVIOUS
<1> USE DEF IInv
<1>1. [PolicyNext]_policyVars /\ PolicyInv'
    BY StepIsPolicyStep, NextPolicyInv
<1>2. CASE UNCHANGED vars
    <2> USE <1>2 DEF vars, policyVars
    <2>1. RequestInv'
        BY DEF RequestInv, SeenTyped, SeenActive, ReadWasActive, Target,
               ReadExists, Exists, NoRow, NoActive, JudgedOnFittingParams, Fits
    <2>2. ScanInv'
        BY DEF ScanInv, OlderAhead, Keys
    <2> QED BY <1>1, <2>1, <2>2
<1>3. CASE Next
    <2>1. Remember
        BY <1>3 DEF Next
    <2>2. CASE CreateSome /\ UNCHANGED <<requests, keys, scan, older>>
        <3>1. UNCHANGED admin
            BY <2>2 DEF CreateSome, Create
        <3> QED BY <1>1, <2>1, <2>2, <3>1, RequestsWait, ScanWaits DEF ScanInv
    <2>3. ASSUME NEW h \in Handlers, StartUpdate(h),
                 UNCHANGED <<requests, keys, scan, older>>
          PROVE  IInv'
        <3>1. \A g \in Handlers :
                  admin[g].pc = "reset" <=> admin'[g].pc = "reset"
            BY <2>3 DEF StartUpdate, UpdateRead, PolicyInv, PolicyTypeOK, Idle
        <3> QED BY <1>1, <2>1, <2>3, <3>1, RequestsWait, ScanWaits DEF ScanInv
    <2>4. ASSUME NEW h \in Handlers, NEW id \in Policies, NEW reset \in BOOLEAN,
                 BeginActivate(h, id, reset)
          PROVE  IInv'
        <3>1. UNCHANGED requests
            BY <2>4 DEF BeginActivate, HandlerUnchanged
        <3> QED BY <1>1, <2>1, <2>4, <3>1, RequestsWait, BeginPreserves
    <2>5. ASSUME NEW h \in Handlers, HandlerStep(h)
          PROVE  IInv'
        <3>1. UNCHANGED requests
            BY <2>5 DEF HandlerStep, WriteRow, Scan, Delete, EndScan, AbortScan,
                        Switch, HandlerUnchanged
        <3> QED BY <1>1, <2>1, <2>5, <3>1, RequestsWait, HandlerStepPreserves
    <2>6. ASSUME NEW q \in Requests, Arrive(q) \/ RequestStep(q)
          PROVE  IInv'
        BY <1>1, <2>1, <2>6, RequestStepPreserves, RequestKeys
    <2>7. ASSUME NEW k \in Keys, Expire(k)
          PROVE  IInv'
        <3>1. Remove({k}) /\ UNCHANGED <<policyVars, requests, scan, admin>>
            BY <2>7 DEF Expire, policyVars
        <3>2. ScanInv'
            BY <3>1, RemovePreserves DEF ScanInv
        <3> QED BY <1>1, <2>1, <3>1, <3>2, RequestsWait
    <2> QED BY <1>3, <2>2, <2>3, <2>4, <2>5, <2>6, <2>7 DEF Next, Step
<1> QED BY <1>2, <1>3

-----------------------------------------------------------------------------
(***************************************************************************)
(* Theorems.                                                               *)
(***************************************************************************)

\* The invariant of the gateway.
THEOREM Invariance == Spec => []IInv
BY InitIInv, NextIInv, PTL DEF Spec

\* Every variable keeps its type.
THEOREM TypeCorrect == Spec => []TypeOK
<1>1. ASSUME IInv PROVE TypeOK
    <2>1. older \in [Handlers -> SUBSET Keys]
        BY <1>1 DEF IInv, ScanInv
    <2> QED BY <1>1, <2>1
            DEF IInv, TypeOK, PolicyInv, RequestInv, ScanInv, SeenTyped
<1> QED BY <1>1, Invariance, PTL

\* A request is judged under a policy and an algorithm that were active
\* together at some moment since it began, whatever runs between its reads.
THEOREM JudgedUnderActive == Spec => []JudgedByActive
<1>1. IInv => JudgedByActive
    BY DEF IInv, RequestInv, ReadWasActive, Target, JudgedByActive
<1> QED BY <1>1, Invariance, PTL

\* A limiter is never given the params of another algorithm.
THEOREM JudgedOnOwnParams == Spec => []JudgedOnFittingParams
<1>1. IInv => JudgedOnFittingParams
    BY DEF IInv, RequestInv
<1> QED BY <1>1, Invariance, PTL

\* When an activation goes on to switch, no key of its policy is left from
\* before its scan.
THEOREM ResetsComplete == Spec => []ResetComplete
<1>1. IInv => ResetComplete
    BY DEF IInv, ScanInv, OlderAhead, ResetComplete
<1> QED BY <1>1, Invariance, PTL
=============================================================================
