------------------------------- MODULE Gateway -------------------------------
(***************************************************************************)
(* The gateway as a whole: requests that are judged by the active policy,  *)
(* while the management handlers of PolicyService change it and delete its *)
(* runtime keys.                                                           *)
(*                                                                         *)
(* A request (Evaluate) reads the active row, then the policy's row, and   *)
(* then calls a limiter with what it has read.  What a limiter decides is  *)
(* the matter of the limiters' own modules; here either answer is          *)
(* possible.  A runtime key stands for all keys of a policy under one      *)
(* algorithm (rl:<algorithm>:<policy>:...).                                *)
(***************************************************************************)
EXTENDS PolicyService

CONSTANT Requests  \* concurrent requests, simulated or proxied

VARIABLES
    requests,  \* request -> what it has read and is about to do
    keys,      \* runtime keys that exist
    scan,      \* handler -> its progress through the keys of its policy
    older,     \* history: handler -> keys from before its scan began
    seen       \* history: request -> active rows since it began

vars == <<policyVars, requests, keys, scan, older, seen>>

-----------------------------------------------------------------------------
Keys == Policies \X Algorithms
KeysOf(id) == {id} \X Algorithms

NoScan == [todo |-> {}, batch |-> {}]

Reading == [pc : {"read"}]
Found == [pc : {"found"}, id : Policies, algorithm : Algorithms]
Judging == [pc : {"judge"}, id : Policies, algorithm : Algorithms,
            params : [Families -> Nat]]
Forwarding == [pc : {"forward"}]

TypeOK ==
    /\ PolicyTypeOK
    /\ requests \in [Requests -> {Idle} \cup Reading \cup Found
                                        \cup Judging \cup Forwarding]
    /\ keys \in SUBSET Keys
    /\ scan \in [Handlers -> [todo : SUBSET Keys, batch : SUBSET Keys]]
    /\ older \in [Handlers -> SUBSET Keys]
    /\ \A q \in Requests :
        seen[q] \subseteq [policy_id : Policies, algorithm : Algorithms]
                              \cup {NoActive}

-----------------------------------------------------------------------------
(***************************************************************************)
(* Requests.                                                               *)
(***************************************************************************)
RequestUnchanged == UNCHANGED <<policyVars, scan, older>>

Answer(q) == requests' = [requests EXCEPT ![q] = Idle]

Arrive(q) ==
    /\ requests[q] = Idle
    /\ requests' = [requests EXCEPT ![q] = [pc |-> "read"]]
    /\ UNCHANGED keys /\ RequestUnchanged

\* Without an active row the request is answered at once.
ReadActive(q) ==
    /\ requests[q].pc = "read"
    /\ IF active = NoActive
       THEN Answer(q)
       ELSE requests' = [requests EXCEPT ![q] =
                [pc |-> "found", id |-> active.policy_id,
                 algorithm |-> active.algorithm]]
    /\ UNCHANGED keys /\ RequestUnchanged

\* Mutant of IsTarget: the row is not compared with the active row.
AnyTarget(q) == TRUE

\* The policy's algorithm may have changed since it was activated.
IsTarget(q) == policies[requests[q].id].algorithm = requests[q].algorithm

\* A row that is not the active row's target is answered as missing.
ReadPolicy(q) ==
    LET row == policies[requests[q].id] IN
    /\ requests[q].pc = "found"
    /\ IF IsTarget(q)
       THEN requests' = [requests EXCEPT ![q] =
                [pc |-> "judge", id |-> requests[q].id,
                 algorithm |-> row.algorithm, params |-> row.params]]
       ELSE Answer(q)
    /\ UNCHANGED keys /\ RequestUnchanged

Key(q) == <<requests[q].id, requests[q].algorithm>>

\* The limiter refuses params that are not positive before it calls Redis.
Usable(q) == requests[q].params[Family[requests[q].algorithm]] > 0

\* The limiter's calls run and create the key if it is missing.  A proxied
\* request that is allowed goes on to its route; any other is answered.
Judge(q) ==
    /\ requests[q].pc = "judge"
    /\ Usable(q)
    /\ keys' = keys \cup {Key(q)}
    /\ \/ Answer(q)
       \/ requests' = [requests EXCEPT ![q] = [pc |-> "forward"]]
    /\ RequestUnchanged

\* Params that are not positive, or a failure of Redis, before or after it
\* has done what it was asked.
JudgeFail(q) ==
    /\ requests[q].pc = "judge"
    /\ \/ UNCHANGED keys
       \/ Usable(q) /\ keys' = keys \cup {Key(q)}
    /\ Answer(q)
    /\ RequestUnchanged

\* Only now is the route resolved: there may be none, or the upstream fails.
Forward(q) ==
    /\ requests[q].pc = "forward"
    /\ Answer(q)
    /\ UNCHANGED keys /\ RequestUnchanged

-----------------------------------------------------------------------------
(***************************************************************************)
(* ScanDelete: SCAN walks the keyspace and DEL deletes each batch found.   *)
(* Redis returns every key that exists from the first call to the last;    *)
(* a key that comes or goes meanwhile may be returned or not.              *)
(***************************************************************************)
HandlerUnchanged == UNCHANGED <<requests, keys>>

BeginActivate(h, id, reset) ==
    /\ ActivateRead(h, id, reset)
    /\ scan' = [scan EXCEPT ![h].todo = IF reset THEN KeysOf(id) ELSE {}]
    /\ UNCHANGED older /\ HandlerUnchanged

Begun(h) == scan[h].todo # KeysOf(admin[h].id)

\* Mutant of LeftAfter: after a batch with keys the walk starts again.
AllAfter(h, B) ==
    IF B \cap keys = {} THEN scan[h].todo \ B ELSE KeysOf(admin[h].id)

\* The part of the keyspace still to be walked after a call that covered B.
LeftAfter(h, B) == scan[h].todo \ B

Scan(h) ==
    /\ admin[h].pc = "reset"
    /\ scan[h].batch = {}
    /\ \E B \in SUBSET scan[h].todo \ {{}} :
           scan' = [scan EXCEPT ![h] =
                       [todo |-> LeftAfter(h, B), batch |-> B \cap keys]]
    /\ older' = [older EXCEPT ![h] =
           IF Begun(h) THEN @ ELSE keys \cap KeysOf(admin[h].id)]
    /\ UNCHANGED <<policyVars, requests, keys>>

Remove(K) ==
    /\ keys' = keys \ K
    /\ older' = [h \in Handlers |-> older[h] \ K]

Delete(h) ==
    /\ admin[h].pc = "reset"
    /\ scan[h].batch # {}
    /\ Remove(scan[h].batch)
    /\ scan' = [scan EXCEPT ![h].batch = {}]
    /\ UNCHANGED <<policyVars, requests>>

\* Mutant of ScanOver: an empty batch is taken for the end.
ScanOverAtGap(h) == Begun(h)

\* The cursor is back at 0 and the last batch is deleted.
ScanOver(h) == scan[h].todo = {}

EndScan(h) ==
    /\ ResetDone(h)
    /\ ScanOver(h)
    /\ scan[h].batch = {}
    /\ scan' = [scan EXCEPT ![h] = NoScan]
    /\ UNCHANGED older /\ HandlerUnchanged

\* SCAN or DEL fails: what is deleted stays deleted.
AbortScan(h) ==
    /\ ResetFail(h)
    /\ scan' = [scan EXCEPT ![h] = NoScan]
    /\ older' = [older EXCEPT ![h] = {}]
    /\ HandlerUnchanged

WriteRow(h) ==
    /\ UpdateWrite(h) \/ UpdateFail(h)
    /\ UNCHANGED <<scan, older>> /\ HandlerUnchanged

Switch(h) ==
    /\ Upsert(h) \/ UpsertFail(h)
    /\ older' = [older EXCEPT ![h] = {}]
    /\ UNCHANGED scan /\ HandlerUnchanged

\* A key that is not used is deleted by its TTL.
Expire(k) ==
    /\ k \in keys
    /\ Remove({k})
    /\ UNCHANGED <<policyVars, requests, scan>>

-----------------------------------------------------------------------------
Init ==
    /\ PolicyInit
    /\ requests = [q \in Requests |-> Idle]
    /\ keys = {}
    /\ scan = [h \in Handlers |-> NoScan]
    /\ older = [h \in Handlers |-> {}]
    /\ seen = [q \in Requests |-> {}]

RequestStep(q) ==
    \/ ReadActive(q) \/ ReadPolicy(q) \/ Judge(q) \/ JudgeFail(q) \/ Forward(q)

HandlerStep(h) ==
    \/ WriteRow(h)
    \/ Scan(h) \/ Delete(h) \/ EndScan(h) \/ AbortScan(h) \/ Switch(h)

Remember ==
    seen' = [q \in Requests |->
        IF requests'[q] = Idle THEN {}
        ELSE IF requests[q] = Idle THEN {active'} ELSE seen[q] \cup {active'}]

Step ==
    \/ CreateSome /\ UNCHANGED <<requests, keys, scan, older>>
    \/ \E h \in Handlers :
        \/ StartUpdate(h) /\ UNCHANGED <<requests, keys, scan, older>>
        \/ \E id \in Policies, reset \in BOOLEAN : BeginActivate(h, id, reset)
        \/ HandlerStep(h)
    \/ \E q \in Requests :
        Arrive(q) \/ RequestStep(q)
    \/ \E k \in Keys : Expire(k)

Next == Step /\ Remember

(***************************************************************************)
(* Go runs every goroutine, and every statement and Redis call ends, with  *)
(* an error at the latest when its connection times out.                   *)
(***************************************************************************)
Fairness ==
    /\ \A q \in Requests : WF_vars(RequestStep(q) /\ Remember)
    /\ \A h \in Handlers : WF_vars(HandlerStep(h) /\ Remember)

Spec == Init /\ [][Next]_vars /\ Fairness
-----------------------------------------------------------------------------
(***************************************************************************)
(* Properties.                                                             *)
(***************************************************************************)

\* When an activation with reset_runtime_state goes on to switch, no key of
\* its policy is left from before its scan, whatever requests, expiry and
\* other activations did to the keys meanwhile: limiter state that survives
\* is younger than the reset.
ResetComplete ==
    \A h \in Handlers : admin[h].pc = "upsert" => older[h] = {}

\* A request is judged under a policy and an algorithm that were active
\* together at some moment since it began, although it reads the two rows in
\* two statements with activations and updates between them.
JudgedByActive ==
    \A q \in Requests :
        requests[q].pc = "judge" =>
            [policy_id |-> requests[q].id, algorithm |-> requests[q].algorithm]
                \in seen[q]

\* A limiter is never given the params of another algorithm, so a request
\* fails on its params only when a stored number is 0.
JudgedOnFittingParams ==
    \A q \in Requests :
        requests[q].pc = "judge" => Fits(requests[q].algorithm, requests[q].params)

\* Every management request ends, an activation too whose scan meets keys
\* that requests create as fast as it deletes them.
ManagementEnds ==
    \A h \in Handlers : admin[h] # Idle ~> admin[h] = Idle
=============================================================================
