---------------------------- MODULE DashboardSync ----------------------------
(***************************************************************************)
(* Dashboard pages and the policies they share: what the Start buttons of  *)
(* several pages do to the policy service, call by call.                   *)
(*                                                                         *)
(* A visit is one page from mount to unmount; pages in other tabs are      *)
(* visits too.  A visit has one sync in progress at most (two, when a      *)
(* reload has hidden the first, are two visits of one page).  The sync     *)
(* makes its calls one after the other, so its open PUT or POST is one     *)
(* management handler of PolicyService, which bears the visit's name.      *)
(*                                                                         *)
(* The other handlers serve other clients of the API: they create, update, *)
(* disable and activate policies, but leave the algorithm of a policy as   *)
(* it is, as every client in the repository does.                          *)
(*                                                                         *)
(* Of a name only one thing matters: the dashboard that it belongs to.     *)
(* Names are unique; "other" stands for all names of no dashboard.         *)
(***************************************************************************)
EXTENDS PolicyService

CONSTANTS
    Visits,    \* visits of pages, each with a handler of the same name
    Forms,     \* params that Start sends, whole and positive after clampConfig
    MaxOthers  \* bound on the requests of other clients

ASSUME VisitAssumption ==
    /\ Visits \subseteq Handlers
    /\ Forms \subseteq RequestParams
    /\ \A form \in Forms, a \in Algorithms :
        LET number == form[Family[a]] IN number > 0 /\ number = Whole(number)
    /\ MaxOthers \in Nat
    /\ "none" \notin Policies
    /\ "other" \notin Algorithms

VARIABLES
    page,     \* visit -> the algorithm of its page
    mounted,  \* visit -> "new" | "open" | "left"
    names,    \* id -> the dashboard whose name the policy bears, or "other"
    sync,     \* visit -> its sync in progress, or NoSync
    session,  \* visit -> the policy its running session began on, or NoPolicy
    others,   \* requests of other clients
    alone     \* history: visits whose sync nobody and no fault has disturbed

syncVars == <<policyVars, page, mounted, names, sync, session, others, alone>>

-----------------------------------------------------------------------------
NoSync == [pc |-> "idle"]
NoPolicy == [id |-> "none", version |-> 0]

Snapshot(id) == [id |-> id, version |-> policies[id].version]

ActiveRows == [policy_id : Policies, algorithm : Algorithms] \cup {NoActive}

\* What a sync holds between two of its statements: the form, the policy it
\* has settled on, the active row just read, and the version it has written.
Syncs == [pc : {"find", "found", "list", "create", "update", "put", "reply",
                "activate", "post", "latest", "reread"},
          form : Forms, id : Policies \cup {"none"}, read : ActiveRows, wrote : Nat]

SyncTypeOK ==
    /\ PolicyTypeOK
    /\ page \in [Visits -> Algorithms]
    /\ mounted \in [Visits -> {"new", "open", "left"}]
    /\ names \in [Policies -> Algorithms \cup {"other"}]
    /\ sync \in [Visits -> Syncs \cup {NoSync}]
    /\ session \in [Visits -> [id : Policies \cup {"none"}, version : Nat]]
    /\ others \in 0 .. MaxOthers
    /\ alone \subseteq Visits

-----------------------------------------------------------------------------
(***************************************************************************)
(* How a page reads policies.                                              *)
(***************************************************************************)
Number(v, id) == policies[id].params[Family[page[v]]]

\* Mutant of mapPolicySnapshot: the algorithm is not looked at.
mapAnyPolicy(v, id) == Number(v, id) > 0

\* A policy of another algorithm, or one whose number is stored as 0, is not
\* there for the page.
mapPolicySnapshot(v, id) ==
    policies[id].algorithm = page[v] /\ Number(v, id) > 0

\* GET /api/policies/active reads the active row and then the policy's row.
Answered(v, read) ==
    /\ policies[read.policy_id].algorithm = read.algorithm
    /\ mapPolicySnapshot(v, read.policy_id)

NameTaken(name) == \E id \in Policies : Exists(id) /\ names[id] = name

\* What listPolicies is searched for.
Managed(v) ==
    {id \in Policies : Exists(id) /\ mapPolicySnapshot(v, id) /\ names[id] = page[v]}

\* Mutant of Requested: the update does not enable the policy.
RequestedAsItIs(v) ==
    [algorithm |-> page[v], params |-> sync[v].form,
     enabled |-> sync[v].id = "none" \/ policies[sync[v].id].enabled]

Requested(v) ==
    [algorithm |-> page[v], params |-> sync[v].form, enabled |-> TRUE]

-----------------------------------------------------------------------------
(***************************************************************************)
(* The sync of Start, one action per statement of the gateway.             *)
(***************************************************************************)
At(v, pc) == sync[v].pc = pc
Goes(v, next) == sync' = [sync EXCEPT ![v] = next] /\ UNCHANGED <<page, mounted, session>>
Moves(v, pc) == Goes(v, [sync[v] EXCEPT !.pc = pc])

\* The page tells of the error, or is left and does not.
Fails(v) == Goes(v, NoSync)

Start(v) ==
    /\ mounted[v] = "open" /\ session[v] = NoPolicy /\ sync[v] = NoSync
    /\ \E form \in Forms :
        Goes(v, [pc |-> "find", form |-> form, id |-> "none",
                 read |-> NoActive, wrote |-> 0])
    /\ UNCHANGED <<policyVars, names>>

FindActive(v) ==
    /\ At(v, "find")
    /\ IF active = NoActive
       THEN Moves(v, "list")
       ELSE Goes(v, [sync[v] EXCEPT !.pc = "found", !.read = active])
    /\ UNCHANGED <<policyVars, names>>

\* An enabled active policy of the page's algorithm is taken, whatever its
\* name is.
FindPolicy(v) ==
    LET read == sync[v].read IN
    /\ At(v, "found")
    /\ IF Answered(v, read) /\ policies[read.policy_id].enabled
       THEN Goes(v, [sync[v] EXCEPT !.pc = "update", !.id = read.policy_id,
                                    !.read = NoActive])
       ELSE Goes(v, [sync[v] EXCEPT !.pc = "list", !.read = NoActive])
    /\ UNCHANGED <<policyVars, names>>

List(v) ==
    /\ At(v, "list")
    /\ IF Managed(v) = {}
       THEN Moves(v, "create")
       ELSE \E id \in Managed(v) :
                Goes(v, [sync[v] EXCEPT !.pc = "update", !.id = id])
    /\ UNCHANGED <<policyVars, names>>

\* The name may be taken: by a policy that the page cannot map, or since
\* policies were listed.
CreateOwn(v) ==
    /\ At(v, "create")
    /\ IF NameTaken(page[v])
       THEN Fails(v) /\ UNCHANGED <<policyVars, names>>
       ELSE \E id \in Policies :
            /\ Create(id, Requested(v))
            /\ names' = [names EXCEPT ![id] = page[v]]
            /\ Goes(v, [sync[v] EXCEPT !.pc = "reply", !.id = id, !.wrote = 1])

PutRead(v) ==
    /\ At(v, "update")
    /\ UpdateRead(v, sync[v].id, Requested(v))
    /\ Moves(v, "put")
    /\ UNCHANGED names

PutWrite(v) ==
    /\ At(v, "put")
    /\ UpdateWrite(v)
    /\ Goes(v, [sync[v] EXCEPT !.pc = "reply", !.wrote = NextVersion(v)])
    /\ UNCHANGED names

\* The handler answers with the row as it is now, and the page maps it.
Reply(v) ==
    /\ At(v, "reply")
    /\ IF mapPolicySnapshot(v, sync[v].id) THEN Moves(v, "activate") ELSE Fails(v)
    /\ UNCHANGED <<policyVars, names>>

\* The policy may have been disabled meanwhile.
PostRead(v) ==
    /\ At(v, "activate")
    /\ IF policies[sync[v].id].enabled
       THEN ActivateRead(v, sync[v].id, TRUE) /\ Moves(v, "post")
       ELSE Fails(v) /\ UNCHANGED policyVars
    /\ UNCHANGED names

PostReset(v) ==
    /\ At(v, "post")
    /\ ResetDone(v)
    /\ UNCHANGED <<names, page, mounted, sync, session>>

PostUpsert(v) ==
    /\ At(v, "post")
    /\ Upsert(v)
    /\ Moves(v, "latest")
    /\ UNCHANGED names

ReadLatest(v) ==
    /\ At(v, "latest")
    /\ Goes(v, [sync[v] EXCEPT !.pc = "reread", !.read = active])
    /\ UNCHANGED <<policyVars, names>>

\* Mutant of Latest: the row as it was before the write.
LatestBeforeWrite(v) == [id |-> sync[v].id, version |-> sync[v].wrote - 1]

Latest(v) == Snapshot(sync[v].read.policy_id)

\* The sync ends with the policy that is active by now.  A page that is left
\* is looked at only here; one that is not begins its session.
Finish(v) ==
    /\ At(v, "reread")
    /\ sync' = [sync EXCEPT ![v] = NoSync]
    /\ IF /\ sync[v].read # NoActive
          /\ Answered(v, sync[v].read)
          /\ mounted[v] = "open"
       THEN session' = [session EXCEPT ![v] = Latest(v)]
       ELSE UNCHANGED session
    /\ UNCHANGED <<policyVars, page, names, mounted>>

SyncStep(v) ==
    \/ FindActive(v) \/ FindPolicy(v) \/ List(v) \/ CreateOwn(v)
    \/ PutRead(v) \/ PutWrite(v) \/ Reply(v)
    \/ PostRead(v) \/ PostReset(v) \/ PostUpsert(v)
    \/ ReadLatest(v) \/ Finish(v)

\* A call fails before its handler has written, or its answer is lost.
CallFails(v) ==
    /\ sync[v] # NoSync
    /\ \/ admin[v] = Idle /\ UNCHANGED policyVars
       \/ UpdateFail(v) \/ ResetFail(v) \/ UpsertFail(v)
    /\ Fails(v)
    /\ UNCHANGED names

-----------------------------------------------------------------------------
(***************************************************************************)
(* The rest of a visit.  Reload, which only reads, is in Dashboard.        *)
(***************************************************************************)
Enter(v) ==
    /\ mounted[v] = "new"
    /\ mounted' = [mounted EXCEPT ![v] = "open"]
    /\ UNCHANGED <<policyVars, page, names, sync, session>>

\* The session ends, at its deadline or with Stop.
SessionEnds(v) ==
    /\ session[v] # NoPolicy
    /\ session' = [session EXCEPT ![v] = NoPolicy]
    /\ UNCHANGED <<policyVars, page, names, sync, mounted>>

\* The calls that the page has made go on.
Leave(v) ==
    /\ mounted[v] = "open"
    /\ mounted' = [mounted EXCEPT ![v] = "left"]
    /\ session' = [session EXCEPT ![v] = NoPolicy]
    /\ UNCHANGED <<policyVars, page, names, sync>>

-----------------------------------------------------------------------------
(***************************************************************************)
(* Other clients of the API.                                               *)
(***************************************************************************)
OtherHandlers == Handlers \ Visits

OtherCreates ==
    \E id \in Policies, a \in Algorithms, m \in RequestParams,
       e \in BOOLEAN, name \in Algorithms \cup {"other"} :
        /\ name = "other" \/ ~ NameTaken(name)
        /\ Create(id, [algorithm |-> a, params |-> m, enabled |-> e])
        /\ names' = [names EXCEPT ![id] = name]

OtherUpdates(h) ==
    \E id \in Policies :
        /\ Exists(id)
        /\ \E columns \in Merges(policies[id]) :
            /\ columns.algorithm = policies[id].algorithm
            /\ UpdateRead(h, id, columns)

OtherAsks(h) ==
    \/ OtherCreates
    \/ /\ \/ OtherUpdates(h)
          \/ \E id \in Policies, reset \in BOOLEAN : ActivateRead(h, id, reset)
       /\ UNCHANGED names

OtherStep(h) ==
    \/ /\ others < MaxOthers
       /\ OtherAsks(h)
       /\ others' = others + 1
    \/ /\ \/ UpdateWrite(h) \/ UpdateFail(h)
          \/ ResetDone(h) \/ ResetFail(h) \/ Upsert(h) \/ UpsertFail(h)
       /\ UNCHANGED <<names, others>>

-----------------------------------------------------------------------------
SyncInit ==
    /\ PolicyInit
    /\ page \in [Visits -> Algorithms]
    /\ mounted = [v \in Visits |-> "new"]
    /\ names = [id \in Policies |-> "other"]
    /\ sync = [v \in Visits |-> NoSync]
    /\ session = [v \in Visits |-> NoPolicy]
    /\ others = 0
    /\ alone = {}

\* What an actor changes disturbs every sync in progress but its own.
Disturbs(syncing) ==
    alone' = IF UNCHANGED <<policies, active>> THEN alone ELSE alone \ syncing

SyncNext ==
    \/ /\ UNCHANGED others
       /\ \E v \in Visits :
            \/ Start(v) /\ alone' = alone \cup {v}
            \/ SyncStep(v) /\ Disturbs(Visits \ {v})
            \/ CallFails(v) /\ alone' = alone \ {v}
            \/ (Enter(v) \/ SessionEnds(v) \/ Leave(v)) /\ UNCHANGED alone
    \/ \E h \in OtherHandlers :
        /\ OtherStep(h)
        /\ Disturbs(Visits)
        /\ UNCHANGED <<page, mounted, sync, session>>

SyncSpec == SyncInit /\ [][SyncNext]_syncVars

\* One tab: a page is left before the next is entered.
OneTab == \A v, w \in Visits : mounted[v] = "open" /\ mounted[w] = "open" => v = w

OneTabSpec == SyncInit /\ [][SyncNext /\ OneTab']_syncVars

-----------------------------------------------------------------------------
(***************************************************************************)
(* Properties.                                                             *)
(***************************************************************************)

\* However syncs of different dashboards cross each other and activations of
\* other clients, none takes over a policy of another algorithm by writing
\* its own algorithm into it.
NeverTakenOver ==
    [][\A id \in Policies :
           Exists(id) => policies'[id].algorithm = policies[id].algorithm]_syncVars

Ends(v) == sync[v] # NoSync /\ sync'[v] = NoSync

\* The page has asked for a policy, and it is the active one.
Won(v) ==
    LET id == sync[v].id IN
    /\ active = [policy_id |-> id, algorithm |-> page[v]]
    /\ policies[id].algorithm = page[v]
    /\ policies[id].params = Canonical(page[v], sync[v].form)
    /\ policies[id].enabled

\* Its name is borne by a policy that it cannot map: every Start ends in 409.
Blocked(v) ==
    \E id \in Policies : Exists(id) /\ names[id] = page[v] /\ ~ mapPolicySnapshot(v, id)

\* A sync that nobody and no fault disturbs gives the page what it asked for,
\* whatever it finds: no active policy, one that is disabled, of another
\* algorithm or name, an own policy that is disabled or not there.
LoneSyncSucceeds ==
    [][\A v \in Visits :
           Ends(v) /\ v \in alone' /\ ~ Blocked(v) =>
               /\ Won(v)
               /\ mounted[v] = "open" => session'[v] = Snapshot(sync[v].id)]_syncVars

\* A session never begins on a snapshot from before the page's own write,
\* whatever other pages and clients have written and activated meanwhile.
ReadsOwnWrite ==
    [][\A v \in Visits :
           Ends(v) /\ session'[v] # NoPolicy /\ session'[v].id = sync[v].id =>
               session'[v].version >= sync[v].wrote]_syncVars

\* "Token Bucket frontend tab is fully functional and independent": with one
\* page open at a time and no other client, the policy of a running session
\* stays active.
DocTabsIndependent ==
    \A v \in Visits : session[v] # NoPolicy => active.algorithm = page[v]
=============================================================================
