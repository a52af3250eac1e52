---------------------------- MODULE PolicyService ----------------------------
(***************************************************************************)
(* The policy service: the rows of rate_limit_policies, the single row of  *)
(* active_policy, and the management handlers that change them.            *)
(*                                                                         *)
(* Every SQL statement is a transaction of its own.  Update reads a row,   *)
(* merges and validates, and then writes every column; Activate reads a    *)
(* row, resets the runtime state and then writes the active row.  Other    *)
(* handlers run between those steps.                                       *)
(*                                                                         *)
(* Of a params map the model keeps one number per family of parameters:    *)
(* its whole-number fields (window_size_sec and limit, or capacity) in     *)
(* half units, 0 when one is absent, zero or negative: all are refused     *)
(* alike.  Names and descriptions are left out; a duplicate name is one of *)
(* the failures of a statement.                                            *)
(***************************************************************************)
EXTENDS Integers

CONSTANTS
    Handlers,       \* concurrent management requests
    Policies,       \* policy ids
    Algorithms,     \* supported algorithms
    Families,       \* families of parameters
    Family,         \* algorithm -> family of its parameters
    RequestParams,  \* params maps that requests carry, in half units
    MaxVersion      \* bound on the version of a row

ASSUME PolicyAssumption ==
    /\ Family \in [Algorithms -> Families]
    /\ RequestParams \subseteq [Families -> Nat]
    /\ MaxVersion \in Nat

VARIABLES
    policies,  \* id -> row of rate_limit_policies, or NoRow
    active,    \* the row of active_policy, or NoActive
    admin,     \* handler -> what it has read and is about to do
    writes     \* history: id -> committed writes of the row

policyVars == <<policies, active, admin, writes>>

-----------------------------------------------------------------------------
NoRow == [version |-> 0]
NoActive == [policy_id |-> "none"]
Idle == [pc |-> "idle"]

Exists(id) == policies[id] # NoRow

\* The columns that a request can set.
Columns == [algorithm : Algorithms, params : [Families -> Nat], enabled : BOOLEAN]

Row(columns, version) ==
    [algorithm |-> columns.algorithm, params |-> columns.params,
     enabled |-> columns.enabled, version |-> version]

Rows == [algorithm : Algorithms, params : [Families -> Nat], enabled : BOOLEAN,
         version : Nat \ {0}]

\* What a handler holds between two of its statements.
Writing == [pc : {"write"}, id : Policies, columns : Columns, read : Nat]
Activating == [pc : {"reset", "upsert"}, id : Policies, algorithm : Algorithms,
               reset : BOOLEAN]

-----------------------------------------------------------------------------
(***************************************************************************)
(* Validation.                                                             *)
(***************************************************************************)

\* toPositiveInt accepts a positive fraction and truncates it.
Whole(halves) == halves - (halves % 2)

validateParams(algorithm, params) == params[Family[algorithm]] > 0

\* Mutant of Canonical: the params are stored as they came.
AllFields(algorithm, params) == [f \in Families |-> Whole(params[f])]

\* What is stored: the fields of the algorithm, truncated, and no others.
Canonical(algorithm, params) ==
    [f \in Families |-> IF f = Family[algorithm] THEN Whole(params[f]) ELSE 0]

Stored(columns) ==
    [columns EXCEPT !.params = Canonical(columns.algorithm, columns.params)]

-----------------------------------------------------------------------------
PolicyInit ==
    /\ policies = [p \in Policies |-> NoRow]
    /\ active = NoActive
    /\ admin = [h \in Handlers |-> Idle]
    /\ writes = [p \in Policies |-> 0]

\* Create validates the request and inserts the row, in one statement.
Create(id, columns) ==
    /\ ~ Exists(id)
    /\ validateParams(columns.algorithm, columns.params)
    /\ policies' = [policies EXCEPT ![id] = Row(Stored(columns), 1)]
    /\ writes' = [writes EXCEPT ![id] = 1]
    /\ UNCHANGED <<active, admin>>

\* Update starts from the row it reads: a field that the request leaves out
\* keeps the value read.  The params are validated for the algorithm
\* whichever of the two the request changes.
UpdateRead(h, id, columns) ==
    /\ admin[h] = Idle
    /\ Exists(id)
    /\ validateParams(columns.algorithm, columns.params)
    /\ admin' = [admin EXCEPT ![h] =
           [pc |-> "write", id |-> id, read |-> policies[id].version,
            columns |-> Stored(columns)]]
    /\ UNCHANGED <<policies, active, writes>>

\* A request names some fields and leaves out the others.
Merges(row) ==
    [algorithm : Algorithms, params : RequestParams \cup {row.params},
     enabled : BOOLEAN]

\* Mutant of Written: the statement leaves the algorithm of the row alone.
WrittenWithoutAlgorithm(h) ==
    [admin[h].columns EXCEPT !.algorithm = policies[admin[h].id].algorithm]

\* The columns that the statement leaves in the row: all are the handler's,
\* those its request did not name too.
Written(h) == admin[h].columns

\* Mutant of NextVersion: one more than the version the handler read.
VersionFromRead(h) == admin[h].read + 1

\* SET version = version + 1, on the row as the statement finds it.
NextVersion(h) == policies[admin[h].id].version + 1

UpdateWrite(h) ==
    LET id == admin[h].id IN
    /\ admin[h].pc = "write"
    /\ policies[id].version < MaxVersion
    /\ policies' = [policies EXCEPT ![id] = Row(Written(h), NextVersion(h))]
    /\ writes' = [writes EXCEPT ![id] = @ + 1]
    /\ admin' = [admin EXCEPT ![h] = Idle]
    /\ UNCHANGED active

\* The statement fails, for a duplicate name too: nothing is written.
UpdateFail(h) ==
    /\ admin[h].pc = "write"
    /\ admin' = [admin EXCEPT ![h] = Idle]
    /\ UNCHANGED <<policies, active, writes>>

\* Activate reads the row; a disabled policy is refused.
ActivateRead(h, id, reset) ==
    /\ admin[h] = Idle
    /\ Exists(id)
    /\ policies[id].enabled
    /\ admin' = [admin EXCEPT ![h] =
           [pc |-> IF reset THEN "reset" ELSE "upsert", id |-> id,
            algorithm |-> policies[id].algorithm, reset |-> reset]]
    /\ UNCHANGED <<policies, active, writes>>

\* The store has deleted the policy's keys.
ResetDone(h) ==
    /\ admin[h].pc = "reset"
    /\ admin' = [admin EXCEPT ![h].pc = "upsert"]
    /\ UNCHANGED <<policies, active, writes>>

\* The store failed, and the activation fails with it.
ResetFail(h) ==
    /\ admin[h].pc = "reset"
    /\ admin' = [admin EXCEPT ![h] = Idle]
    /\ UNCHANGED <<policies, active, writes>>

\* The active row is inserted or replaced, with the algorithm read before.
Upsert(h) ==
    /\ admin[h].pc = "upsert"
    /\ active' = [policy_id |-> admin[h].id, algorithm |-> admin[h].algorithm]
    /\ admin' = [admin EXCEPT ![h] = Idle]
    /\ UNCHANGED <<policies, writes>>

\* The statement fails; keys that were deleted stay deleted.
UpsertFail(h) ==
    /\ admin[h].pc = "upsert"
    /\ admin' = [admin EXCEPT ![h] = Idle]
    /\ UNCHANGED <<policies, active, writes>>

StartUpdate(h) ==
    \E id \in Policies :
        Exists(id) /\ \E columns \in Merges(policies[id]) : UpdateRead(h, id, columns)

CreateSome ==
    \E id \in Policies, a \in Algorithms, m \in RequestParams, e \in BOOLEAN :
        Create(id, [algorithm |-> a, params |-> m, enabled |-> e])

PolicyNext ==
    \/ CreateSome
    \/ \E h \in Handlers :
        \/ StartUpdate(h) \/ UpdateWrite(h) \/ UpdateFail(h)
        \/ \E id \in Policies, reset \in BOOLEAN : ActivateRead(h, id, reset)
        \/ ResetDone(h) \/ ResetFail(h)
        \/ Upsert(h) \/ UpsertFail(h)

PolicySpec == PolicyInit /\ [][PolicyNext]_policyVars

-----------------------------------------------------------------------------
(***************************************************************************)
(* Properties.                                                             *)
(***************************************************************************)

PolicyTypeOK ==
    /\ policies \in [Policies -> Rows \cup {NoRow}]
    /\ active \in [policy_id : Policies, algorithm : Algorithms] \cup {NoActive}
    /\ admin \in [Handlers -> {Idle} \cup Writing \cup Activating]
    /\ writes \in [Policies -> Nat]

\* The params are those of the algorithm: its fields, whole, and no others.
Fits(algorithm, params) ==
    \A f \in Families :
        IF f = Family[algorithm] THEN params[f] % 2 = 0 ELSE params[f] = 0

\* Whatever updates of the algorithm and of the params cross each other, the
\* params of a row are those of its algorithm: a limiter never misses a field.
PairsFit ==
    \A p \in Policies : Exists(p) => Fits(policies[p].algorithm, policies[p].params)

\* Every committed write is counted, although no update checks the version it
\* has read: a version never stands for two states of a row.
VersionCountsWrites ==
    \A p \in Policies : policies[p].version = writes[p]

\* "Disabled policy cannot be activated."
DocEnabledWhenActivated ==
    [][active' # active => policies[active'.policy_id].enabled]_policyVars
=============================================================================
