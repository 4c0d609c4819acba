--------------------------- MODULE PlanVersions ---------------------------
(***************************************************************************)
(* Drafting, editing and publishing the versions of a Plan, and managing   *)
(* the mutable coverage content of their services (catalog/services.py).   *)
(*                                                                         *)
(* Every request is a process.  Its database transaction runs statement by *)
(* statement under PostgreSQL's READ COMMITTED isolation: a statement      *)
(* reads what is committed when it starts, a row lock is held from the     *)
(* statement that takes it to the end of the transaction, and the writes   *)
(* of the transaction become visible at its commit, which is therefore the *)
(* step that applies them.  A request whose process dies rolls back.       *)
(***************************************************************************)
EXTENDS Naturals, FiniteSets

CONSTANTS
    Requests,     \* HTTP requests, one service call each
    Users,        \* the actors of the requests
    Superusers,   \* the platform operators among them
    Plans,        \* plan rows; each has one reseller and one provider
    VersionIds,   \* primary keys that version rows may take
    Contents,     \* the texts a version's terms may hold
    MaxServices,  \* services of a version, at most
    MaxChanges,   \* organization changes by other actors, at most
    Ops,          \* the operations requests may ask for
    None          \* no user, plan, request or content

Operations == {"create_draft", "edit_draft", "publish", "coverage"}

ASSUME RequestsAssumption == None \notin Requests
ASSUME UsersAssumption == Superusers \subseteq Users /\ None \notin Users
ASSUME KeysAssumption == IsFiniteSet(VersionIds)
ASSUME PlansAssumption == None \notin Plans
ASSUME BoundsAssumption == MaxServices \in Nat \ {0} /\ MaxChanges \in Nat
ASSUME OpsAssumption == Ops \subseteq Operations

VARIABLES
    row,           \* committed version rows, with their service rows
    audit,         \* committed audit events of these requests
    planLock,      \* holder of each plan row's FOR UPDATE lock
    versionLock,   \* holder of each version row's lock
    serviceLock,   \* holder of each service row's lock
    pc,            \* the statement each request runs next
    req,           \* what each request asks for
    reads,         \* what its transaction has read so far
    admins,        \* users with a live reseller_admin grant over a plan
    resellerLive,  \* the plan's reseller is active and not deleted
    providerLive,  \* the plan's provider is active and not deleted
    changes,       \* organization changes so far
    witnessed      \* history: scope facts true at some instant of a request

locks == <<planLock, versionLock, serviceLock>>
scope == <<admins, resellerLive, providerLive, changes>>
vars == <<row, audit, locks, pc, req, reads, scope, witnessed>>

-----------------------------------------------------------------------------
(* Rows, requests and the organization scope they are judged by.          *)

Positions == 1..MaxServices

\* A service row is the version, its position, and the generation of rows it
\* belongs to: editing a draft deletes its services and inserts new ones.
\* notes holds the request that last wrote the row's mutable content.
Row == [status : {"absent", "draft", "published"},
        plan : Plans \cup {None},
        number : Nat,
        author : Users \cup {None},
        text : Contents \cup {None},
        count : 0..MaxServices,
        generation : Nat,
        notes : [Positions -> Requests \cup {None}],
        published_by : Users \cup {None}]

NoNotes == [p \in Positions |-> None]

NoRow == [status |-> "absent", plan |-> None, number |-> 0, author |-> None,
          text |-> None, count |-> 0, generation |-> 0, notes |-> NoNotes,
          published_by |-> None]

Stored(v) == row[v].status # "absent"

VersionsOf(plan) == {v \in VersionIds : Stored(v) /\ row[v].plan = plan}

Request == [op : Operations \cup {"none"},
            actor : Users \cup {None},
            plan : Plans \cup {None},
            version : VersionIds \cup {None},
            position : Positions,
            generation : Nat,
            text : Contents \cup {None},
            count : 0..MaxServices]

NoRequest == [op |-> "none", actor |-> None, plan |-> None, version |-> None,
              position |-> 1, generation |-> 0, text |-> None, count |-> 0]

\* plan: the plan row the transaction works on; provider: liveness of its
\* provider as joined by the locking statement; latest: Max(number);
\* entry: 1 inside update_coverage_notes, 2 inside
\* update_coverage_presentation; refusal: why the mutation was refused.
Reads == [plan : Plans \cup {None}, provider : BOOLEAN, latest : Nat,
          entry : {1, 2}, refusal : {"none", "denied", "invalid"}]

NoReads == [plan |-> None, provider |-> FALSE, latest |-> 0, entry |-> 1,
            refusal |-> "none"]

AuditEvents ==
    [request : Requests,
     action : {"plan.drafted", "plan.draft_updated", "plan.published",
               "plan.coverage_notes_updated",
               "plan.coverage_presentation_updated", "plan.rejected"},
     actor : Users,
     version : VersionIds \cup {None}]

Visible(u, plan) ==
    u \in Superusers \/ (u \in admins[plan] /\ resellerLive[plan])

InCatalog(u, plan) ==
    resellerLive[plan] /\ (u \in Superusers \/ u \in admins[plan])

\* Mutant: services are found by version and position, not by primary key.
ServiceAtPosition(r) ==
    LET v == req[r].version IN Stored(v) /\ req[r].position <= row[v].count

ServiceExists(r) ==
    LET v == req[r].version IN
        /\ Stored(v)
        /\ row[v].generation = req[r].generation
        /\ req[r].position <= row[v].count

Working == {"candidate", "select", "lockPlan", "checks", "latest",
            "lockVersion", "draftChecks", "deleteServices", "publishChecks",
            "coverage", "lockService", "lockCoverageVersion",
            "lockCoveragePlan", "coverageCheck", "commit", "refused"}

Answered == {"ok", "denied", "invalid", "error", "crashed"}

-----------------------------------------------------------------------------
(* What every statement is built from.                                     *)

\* Facts about the organization scope that hold for a request's target.
ScopeFacts(u, plan, adm, rlive, plive) ==
    (IF rlive[plan] /\ (u \in Superusers \/ u \in adm[plan])
        THEN {"catalog"} ELSE {})
    \cup (IF plive[plan] THEN {"provider"} ELSE {})

TargetPlan(r) == IF req[r].op = "create_draft" THEN req[r].plan
                                               ELSE row[req[r].version].plan

\* The end of a transaction, and the rollback of its savepoint.
Release(r) ==
    /\ planLock' = [p \in Plans |-> IF planLock[p] = r THEN None ELSE planLock[p]]
    /\ versionLock' = [v \in VersionIds |->
                         IF versionLock[v] = r THEN None ELSE versionLock[v]]
    /\ serviceLock' = [s \in VersionIds \X Positions |->
                         IF serviceLock[s] = r THEN None ELSE serviceLock[s]]

\* PermissionDenied or ValidationError inside _catalog_change.  The savepoint
\* of update_coverage_presentation took no lock that update_coverage_notes
\* did not already hold in the outer transaction, so its rollback frees none.
Refuse(r, why) ==
    /\ pc' = [pc EXCEPT ![r] = "refused"]
    /\ reads' = [reads EXCEPT ![r].refusal = why]
    /\ IF reads[r].entry = 2 THEN UNCHANGED locks ELSE Release(r)
    /\ UNCHANGED <<row, audit, req, scope, witnessed>>

\* A statement that only reads, and continues at the next one.
Continue(r, next) ==
    /\ pc' = [pc EXCEPT ![r] = next]
    /\ UNCHANGED <<row, audit, locks, req, scope, witnessed>>

\* A check that refuses the mutation, or lets it go on to the next statement.
Proceed(r, refusal, next) ==
    IF refusal = "none" THEN Continue(r, next) /\ UNCHANGED reads
                        ELSE Refuse(r, refusal)

Event(r, action, v) ==
    [request |-> r, action |-> action, actor |-> req[r].actor, version |-> v]

\* The writes of a transaction and its audit events become visible together.
Commit(r, v, newRow, actions) ==
    /\ row' = [row EXCEPT ![v] = newRow]
    /\ audit' = audit \cup {Event(r, a, v) : a \in actions}
    /\ pc' = [pc EXCEPT ![r] = "ok"]
    /\ Release(r)
    /\ UNCHANGED <<req, reads, scope, witnessed>>

-----------------------------------------------------------------------------
(* Requests arrive.  They name rows that exist: the page that posts them   *)
(* was rendered from them.  count = 0 stands for all terms _save_terms     *)
(* refuses.                                                                *)

Arrive(r, request, plan, first) ==
    /\ pc[r] = "idle"
    /\ request.op \in Ops
    /\ req' = [req EXCEPT ![r] = request]
    /\ reads' = [reads EXCEPT
                   ![r].plan = IF first = "select" THEN plan ELSE None]
    /\ pc' = [pc EXCEPT ![r] = first]
    /\ witnessed' = [witnessed EXCEPT ![r] =
           ScopeFacts(request.actor, plan, admins, resellerLive, providerLive)]
    /\ UNCHANGED <<row, audit, locks, scope>>

\* A bound of the model: no more create_draft requests than version keys.
KeysLeft == Cardinality({r \in Requests : req[r].op = "create_draft"})
              < Cardinality(VersionIds)

CreateDraft(r, u, plan, text, count) ==
    /\ KeysLeft
    /\ Arrive(r, [NoRequest EXCEPT !.op = "create_draft", !.actor = u,
                                   !.plan = plan, !.text = text, !.count = count],
              plan, "select")

UpdateDraft(r, u, v, text, count) ==
    /\ Stored(v)
    /\ Arrive(r, [NoRequest EXCEPT !.op = "edit_draft", !.actor = u,
                                   !.version = v, !.text = text, !.count = count],
              row[v].plan, "candidate")

PublishDraft(r, u, v) ==
    /\ Stored(v)
    /\ Arrive(r, [NoRequest EXCEPT !.op = "publish", !.actor = u, !.version = v],
              row[v].plan, "candidate")

ManageCoverage(r, u, v, p) ==
    /\ Stored(v)
    /\ p <= row[v].count
    /\ Arrive(r, [NoRequest EXCEPT !.op = "coverage", !.actor = u, !.version = v,
                                   !.position = p,
                                   !.generation = row[v].generation],
              row[v].plan, "coverage")

-----------------------------------------------------------------------------
(* _locked_version and _editable_plan.                                     *)

\* The unlocked read of the version by which its plan is found.
Candidate(r) ==
    LET plan == row[req[r].version].plan IN
        /\ pc[r] = "candidate"
        /\ IF Visible(req[r].actor, plan)
              THEN /\ reads' = [reads EXCEPT ![r].plan = plan]
                   /\ Continue(r, "select")
              ELSE Refuse(r, "denied")

\* Mutant: publish_draft locks its version before the plan.
SelectVersionFirst(r) ==
    LET v == req[r].version IN
        /\ pc[r] = "select"
        /\ req[r].op = "publish" => versionLock[v] = None
        /\ versionLock' = IF req[r].op = "publish"
                             THEN [versionLock EXCEPT ![v] = r] ELSE versionLock
        /\ reads' = [reads EXCEPT ![r].provider = TRUE]
        /\ pc' = [pc EXCEPT ![r] = "lockPlan"]
        /\ UNCHANGED <<row, audit, planLock, serviceLock, req, scope, witnessed>>

\* The locking SELECT starts: its snapshot decides visibility and carries the
\* provider row, which is not locked, through the wait for the plan row.
SelectEditablePlan(r) ==
    LET plan == reads[r].plan IN
        /\ pc[r] = "select"
        /\ IF Visible(req[r].actor, plan)
              THEN /\ reads' = [reads EXCEPT ![r].provider = providerLive[plan]]
                   /\ Continue(r, "lockPlan")
              ELSE Refuse(r, "denied")

\* Mutant: the plan is read without FOR UPDATE.
LockPlanNot(r) ==
    /\ pc[r] = "lockPlan"
    /\ pc' = [pc EXCEPT ![r] = "checks"]
    /\ UNCHANGED <<row, audit, locks, req, reads, scope, witnessed>>

LockPlan(r) ==
    LET plan == reads[r].plan IN
        /\ pc[r] = "lockPlan"
        /\ planLock[plan] = None
        /\ planLock' = [planLock EXCEPT ![plan] = r]
        /\ pc' = [pc EXCEPT ![r] = "checks"]
        /\ UNCHANGED <<row, audit, versionLock, serviceLock, req, reads, scope,
                       witnessed>>

\* Mutant: _editable_plan without its look at the provider.
AnyProviderRefusal(r) ==
    IF InCatalog(req[r].actor, reads[r].plan) THEN "none" ELSE "denied"

\* A second statement, so a second look at the actor's grants; the provider
\* is the one the locking statement joined.
EditablePlanRefusal(r) ==
    IF InCatalog(req[r].actor, reads[r].plan)
       THEN IF reads[r].provider THEN "none" ELSE "invalid"
       ELSE "denied"

CheckEditablePlan(r) ==
    /\ pc[r] = "checks"
    /\ Proceed(r, EditablePlanRefusal(r),
               IF req[r].op = "create_draft" THEN "latest" ELSE "lockVersion")

LockVersion(r) ==
    LET v == req[r].version IN
        /\ pc[r] = "lockVersion"
        /\ versionLock[v] = None
        /\ versionLock' = [versionLock EXCEPT ![v] = r]
        /\ pc' = [pc EXCEPT ![r] = IF req[r].op = "edit_draft"
                                      THEN "draftChecks" ELSE "publishChecks"]
        /\ UNCHANGED <<row, audit, planLock, serviceLock, req, reads, scope,
                       witnessed>>

-----------------------------------------------------------------------------
(* create_draft, update_draft and publish_draft under their locks.         *)

\* Max(number) over the plan's committed versions, 0 when there is none.
LatestNumber(r) ==
    LET numbers == {0} \cup {row[v].number : v \in VersionsOf(reads[r].plan)} IN
        /\ pc[r] = "latest"
        /\ IF req[r].count = 0
              THEN Refuse(r, "invalid")
              ELSE \E n \in numbers :
                      /\ \A m \in numbers : m <= n
                      /\ reads' = [reads EXCEPT ![r].latest = n]
                      /\ Continue(r, "commit")

CommitDraft(r, v) ==
    /\ pc[r] = "commit"
    /\ req[r].op = "create_draft"
    /\ ~Stored(v)
    /\ Commit(r, v,
              [status |-> "draft", plan |-> reads[r].plan,
               number |-> reads[r].latest + 1, author |-> req[r].actor,
               text |-> req[r].text, count |-> req[r].count,
               generation |-> 0, notes |-> NoNotes, published_by |-> None],
              {"plan.drafted"})

\* Mutant: any administrator edits a draft.
AnyAuthorRefusal(r) ==
    IF row[req[r].version].status = "draft" THEN "none" ELSE "invalid"

UpdateDraftRefusal(r) ==
    LET version == row[req[r].version] IN
        IF version.status = "draft"
           THEN IF version.author = req[r].actor THEN "none" ELSE "denied"
           ELSE "invalid"

CheckUpdateDraft(r) ==
    /\ pc[r] = "draftChecks"
    /\ Proceed(r, UpdateDraftRefusal(r), "deleteServices")

\* DELETE takes the service rows one by one, in an order SQL leaves open.
LockServiceRow(r, p) ==
    LET v == req[r].version IN
        /\ pc[r] = "deleteServices"
        /\ p <= row[v].count
        /\ serviceLock[<<v, p>>] = None
        /\ serviceLock' = [serviceLock EXCEPT ![<<v, p>>] = r]
        /\ UNCHANGED <<row, audit, planLock, versionLock, pc, req, reads, scope,
                       witnessed>>

SaveTerms(r) ==
    LET v == req[r].version IN
        /\ pc[r] = "deleteServices"
        /\ \A p \in 1..row[v].count : serviceLock[<<v, p>>] = r
        /\ Proceed(r, IF req[r].count = 0 THEN "invalid" ELSE "none", "commit")

CommitUpdate(r) ==
    LET v == req[r].version IN
        /\ pc[r] = "commit"
        /\ req[r].op = "edit_draft"
        /\ Commit(r, v, [row[v] EXCEPT !.text = req[r].text,
                                       !.count = req[r].count,
                                       !.generation = @ + 1,
                                       !.notes = NoNotes],
                  {"plan.draft_updated"})

PublishRefusal(r) ==
    LET version == row[req[r].version] IN
        IF version.author # req[r].actor
           THEN IF version.status = "draft" /\ version.count > 0
                   THEN "none" ELSE "invalid"
           ELSE "denied"

CheckPublish(r) ==
    /\ pc[r] = "publishChecks"
    /\ Proceed(r, PublishRefusal(r), "commit")

Published(r) ==
    [row[req[r].version] EXCEPT !.status = "published",
                                !.published_by = req[r].actor]

CommitPublish(r) ==
    /\ pc[r] = "commit"
    /\ req[r].op = "publish"
    /\ Commit(r, req[r].version, Published(r), {"plan.published"})

-----------------------------------------------------------------------------
(* coverage_manage: update_coverage_notes, then                            *)
(* update_coverage_presentation, in one outer transaction.  Each runs the  *)
(* same locking SELECT over service, version and plan, in that order.      *)

SelectCoverage(r) ==
    LET plan == row[req[r].version].plan IN
        /\ pc[r] = "coverage"
        /\ IF ServiceExists(r) /\ Visible(req[r].actor, plan)
              THEN /\ reads' = [reads EXCEPT ![r].plan = plan]
                   /\ Continue(r, "lockService")
              ELSE Refuse(r, "denied")

\* A service row deleted while the statement waited is not returned.
LockService(r) ==
    LET service == <<req[r].version, req[r].position>> IN
        /\ pc[r] = "lockService"
        /\ serviceLock[service] \in {None, r}
        /\ IF ServiceExists(r)
              THEN /\ serviceLock' = [serviceLock EXCEPT ![service] = r]
                   /\ pc' = [pc EXCEPT ![r] = "lockCoverageVersion"]
                   /\ UNCHANGED <<row, audit, planLock, versionLock, req, reads,
                                  scope, witnessed>>
              ELSE Refuse(r, "denied")

LockCoverageVersion(r) ==
    LET v == req[r].version IN
        /\ pc[r] = "lockCoverageVersion"
        /\ versionLock[v] \in {None, r}
        /\ versionLock' = [versionLock EXCEPT ![v] = r]
        /\ pc' = [pc EXCEPT ![r] = "lockCoveragePlan"]
        /\ UNCHANGED <<row, audit, planLock, serviceLock, req, reads, scope,
                       witnessed>>

LockCoveragePlan(r) ==
    LET plan == reads[r].plan IN
        /\ pc[r] = "lockCoveragePlan"
        /\ planLock[plan] \in {None, r}
        /\ planLock' = [planLock EXCEPT ![plan] = r]
        /\ pc' = [pc EXCEPT ![r] = "coverageCheck"]
        /\ UNCHANGED <<row, audit, versionLock, serviceLock, req, reads, scope,
                       witnessed>>

\* The platform operator skips the reseller check, and nobody's provider is
\* looked at.
CheckCoverage(r) ==
    /\ pc[r] = "coverageCheck"
    /\ IF req[r].actor \in Superusers \/ InCatalog(req[r].actor, reads[r].plan)
          THEN /\ Continue(r, IF reads[r].entry = 1 THEN "coverage" ELSE "commit")
               /\ reads' = [reads EXCEPT ![r].entry = 2]
          ELSE Refuse(r, "denied")

CommitCoverage(r) ==
    LET v == req[r].version IN
        /\ pc[r] = "commit"
        /\ req[r].op = "coverage"
        /\ Commit(r, v, [row[v] EXCEPT !.notes[req[r].position] = r],
                  {"plan.coverage_notes_updated",
                   "plan.coverage_presentation_updated"})

-----------------------------------------------------------------------------
(* How requests fail.                                                      *)

\* Mutant: plan.rejected is written in the transaction that is rolled back.
ForgetRefusal(r) ==
    /\ pc[r] = "refused"
    /\ pc' = [pc EXCEPT ![r] = reads[r].refusal]
    /\ Release(r)
    /\ UNCHANGED <<row, audit, req, reads, scope, witnessed>>

\* _catalog_change records the refusal after its savepoint rolled back, and
\* raises again.  coverage_manage's outer transaction then rolls back the
\* record as well.
RecordRefusal(r) ==
    /\ pc[r] = "refused"
    /\ audit' = IF req[r].op = "coverage" THEN audit
                ELSE audit \cup {Event(r, "plan.rejected", req[r].version)}
    /\ pc' = [pc EXCEPT ![r] = reads[r].refusal]
    /\ Release(r)
    /\ UNCHANGED <<row, req, reads, scope, witnessed>>

\* The requests whose locks keep r waiting.
BlockedBy(r) ==
    {CASE pc[r] \in {"lockPlan", "lockCoveragePlan"} -> planLock[reads[r].plan]
       [] pc[r] \in {"lockVersion", "lockCoverageVersion"} ->
            versionLock[req[r].version]
       [] pc[r] = "lockService" -> serviceLock[<<req[r].version, req[r].position>>]
       [] OTHER -> None}
    \cup {serviceLock[<<req[r].version, p>>] :
             p \in {q \in Positions : /\ pc[r] = "deleteServices"
                                      /\ q <= row[req[r].version].count}}

Waits(S) == \A r \in S : (BlockedBy(r) \ {r}) \cap S # {}

\* A set of requests each of which waits for another of them, and no part of
\* which does: a cycle.
Cycle(S) == /\ S # {}
            /\ Waits(S)
            /\ \A T \in SUBSET S : T \notin {{}, S} => ~Waits(T)

\* Mutant: deadlocks are never detected.
NeverAbort(r) == FALSE

\* PostgreSQL aborts one transaction of a cycle; the error is neither
\* PermissionDenied nor ValidationError, so no refusal is recorded.
DeadlockAbort(r) ==
    /\ \E S \in SUBSET Requests : r \in S /\ Cycle(S)
    /\ pc' = [pc EXCEPT ![r] = "error"]
    /\ Release(r)
    /\ UNCHANGED <<row, audit, req, reads, scope, witnessed>>

\* The serving process dies and PostgreSQL rolls its transaction back.
Crash(r) ==
    /\ pc[r] \in Working
    /\ pc' = [pc EXCEPT ![r] = "crashed"]
    /\ Release(r)
    /\ UNCHANGED <<row, audit, req, reads, scope, witnessed>>

-----------------------------------------------------------------------------
(* The platform changes grants, resellers and providers while requests run. *)

ChangeScope ==
    /\ changes < MaxChanges
    /\ changes' = changes + 1
    /\ witnessed' = [r \in Requests |->
           IF pc[r] \in Working
              THEN witnessed[r] \cup ScopeFacts(req[r].actor, TargetPlan(r),
                                                admins', resellerLive',
                                                providerLive')
              ELSE witnessed[r]]
    /\ UNCHANGED <<row, audit, locks, pc, req, reads>>

GrantOrRevoke(u, plan) ==
    /\ admins' = [admins EXCEPT ![plan] = IF u \in @ THEN @ \ {u} ELSE @ \cup {u}]
    /\ UNCHANGED <<resellerLive, providerLive>>
    /\ ChangeScope

ToggleReseller(plan) ==
    /\ resellerLive' = [resellerLive EXCEPT ![plan] = ~@]
    /\ UNCHANGED <<admins, providerLive>>
    /\ ChangeScope

ToggleProvider(plan) ==
    /\ providerLive' = [providerLive EXCEPT ![plan] = ~@]
    /\ UNCHANGED <<admins, resellerLive>>
    /\ ChangeScope

-----------------------------------------------------------------------------
Init ==
    /\ row = [v \in VersionIds |-> NoRow]
    /\ audit = {}
    /\ planLock = [p \in Plans |-> None]
    /\ versionLock = [v \in VersionIds |-> None]
    /\ serviceLock = [s \in VersionIds \X Positions |-> None]
    /\ pc = [r \in Requests |-> "idle"]
    /\ req = [r \in Requests |-> NoRequest]
    /\ reads = [r \in Requests |-> NoReads]
    /\ admins = [p \in Plans |-> Users \ Superusers]
    /\ resellerLive = [p \in Plans |-> TRUE]
    /\ providerLive = [p \in Plans |-> TRUE]
    /\ changes = 0
    /\ witnessed = [r \in Requests |-> {}]

Arrival(r) ==
    \E u \in Users :
        \/ \E plan \in Plans, text \in Contents, count \in 0..MaxServices :
              CreateDraft(r, u, plan, text, count)
        \/ \E v \in VersionIds :
              \/ \E text \in Contents, count \in 0..MaxServices :
                    UpdateDraft(r, u, v, text, count)
              \/ PublishDraft(r, u, v)
              \/ \E p \in Positions : ManageCoverage(r, u, v, p)

\* The next statement of a request that has arrived.
Statement(r) ==
    \/ Candidate(r) \/ SelectEditablePlan(r) \/ LockPlan(r)
    \/ CheckEditablePlan(r) \/ LockVersion(r)
    \/ LatestNumber(r)
    \/ \E v \in VersionIds : CommitDraft(r, v)
    \/ CheckUpdateDraft(r)
    \/ \E p \in Positions : LockServiceRow(r, p)
    \/ SaveTerms(r) \/ CommitUpdate(r)
    \/ CheckPublish(r) \/ CommitPublish(r)
    \/ SelectCoverage(r) \/ LockService(r) \/ LockCoverageVersion(r)
    \/ LockCoveragePlan(r) \/ CheckCoverage(r) \/ CommitCoverage(r)
    \/ RecordRefusal(r)
    \/ DeadlockAbort(r)

Platform ==
    \E plan \in Plans :
        \/ \E u \in Users \ Superusers : GrantOrRevoke(u, plan)
        \/ ToggleReseller(plan)
        \/ ToggleProvider(plan)

\* No request is running; the site waits for more.
Quiescent == (\A r \in Requests : pc[r] \notin Working) /\ UNCHANGED vars

Next ==
    \/ \E r \in Requests : Arrival(r) \/ Statement(r) \/ Crash(r)
    \/ Platform
    \/ Quiescent

Spec == Init /\ [][Next]_vars

-----------------------------------------------------------------------------
(* Properties.                                                             *)

\* The shape of the state: rows, requests and locks hold what their columns
\* and owners may be.
TypeOK ==
    /\ row \in [VersionIds -> Row]
    /\ audit \subseteq AuditEvents
    /\ planLock \in [Plans -> Requests \cup {None}]
    /\ versionLock \in [VersionIds -> Requests \cup {None}]
    /\ serviceLock \in [VersionIds \X Positions -> Requests \cup {None}]
    /\ pc \in [Requests -> {"idle"} \cup Working \cup Answered]
    /\ req \in [Requests -> Request]
    /\ reads \in [Requests -> Reads]
    /\ admins \in [Plans -> SUBSET Users]
    /\ resellerLive \in [Plans -> BOOLEAN]
    /\ providerLive \in [Plans -> BOOLEAN]
    /\ changes \in 0..MaxChanges
    /\ witnessed \in [Requests -> SUBSET {"catalog", "provider"}]

\* Parallel drafts of a plan are numbered 1, 2, 3 ... with no number used twice
\* and none skipped, so uq_plan_version_number is never what refuses one
\* (create_draft reads Max(number) and inserts under the plan's lock).
ConsecutiveNumbers ==
    \A v \in VersionIds : Stored(v) =>
        /\ \A w \in VersionsOf(row[v].plan) : row[w].number = row[v].number => w = v
        /\ row[v].number \in Nat \ {0}
        /\ row[v].number > 1 =>
              \E w \in VersionsOf(row[v].plan) : row[w].number = row[v].number - 1

\* Whoever published a version never drafted or edited it, whatever drafts,
\* edits and publications raced ("Reviewers cannot edit another author's draft
\* and then approve their own changes"): publish_draft and update_draft.
TwoPersonPublication ==
    \A v \in VersionIds : row[v].status = "published" =>
        /\ row[v].published_by # None
        /\ \A e \in audit :
              e.version = v /\ e.action \in {"plan.drafted", "plan.draft_updated"}
                  => e.actor # row[v].published_by

\* A version is published exactly when one request published it, and the
\* evidence names the publisher (two concurrent publish_draft calls).
PublishedOnce ==
    \A v \in VersionIds :
        LET evidence == {e \in audit : e.version = v /\ e.action = "plan.published"}
        IN  IF row[v].status = "published"
               THEN \E e \in evidence : evidence = {e} /\ e.actor = row[v].published_by
               ELSE evidence = {}

\* Once published, a version's terms and services never change again, though
\* edits that read it as a draft may still be running (update_draft).
PublishedTermsFrozen ==
    [][\A v \in VersionIds : row[v].status = "published" =>
          row'[v] = [row[v] EXCEPT !.notes = row'[v].notes]]_vars

\* Mutable content written for a service never lands on the row that replaced
\* it when the draft was edited (update_coverage_notes waiting on a service
\* that update_draft deletes).
NotesReachTheirService ==
    \A v \in VersionIds, p \in Positions :
        LET r == row[v].notes[p] IN
            r # None => /\ req[r].version = v
                        /\ req[r].position = p
                        /\ req[r].generation = row[v].generation
                        /\ p <= row[v].count

\* What each operation leaves in the audit log when it succeeds.
Evidence(op) ==
    CASE op = "create_draft" -> {"plan.drafted"}
      [] op = "edit_draft" -> {"plan.draft_updated"}
      [] op = "publish" -> {"plan.published"}
      [] OTHER -> {"plan.coverage_notes_updated",
                   "plan.coverage_presentation_updated"}

EvidenceOf(r) == {e.action : e \in {f \in audit : f.request = r}}

\* The audit log tells the outcome of every request: success leaves the
\* operation's events, a refusal of a draft operation leaves plan.rejected, that of
\* a coverage edit nothing else, and a rolled back, aborted or unfinished request
\* leaves nothing (_catalog_change, _rejected_request).
EvidenceMatchesOutcome ==
    \A r \in Requests :
        /\ pc[r] = "ok" => EvidenceOf(r) = Evidence(req[r].op)
        /\ pc[r] \in {"denied", "invalid"} =>
              /\ EvidenceOf(r) \subseteq {"plan.rejected"}
              /\ req[r].op # "coverage" => EvidenceOf(r) = {"plan.rejected"}
        /\ pc[r] \notin {"ok", "denied", "invalid"} => EvidenceOf(r) = {}

\* A draft operation that commits acted, at some instant since it arrived, for
\* an administrator of the plan's live reseller (or the platform operator), and
\* for a live provider: revoked grants and stale reads of _editable_plan.
DraftsSawLiveScope ==
    \A r \in Requests : pc[r] = "ok" /\ req[r].op # "coverage" =>
        witnessed[r] = {"catalog", "provider"}

\* "Inactive resellers or inactive/deleted providers block mutations": the
\* same of every operation, coverage edits included.
LiveScopeForEveryMutation ==
    \A r \in Requests : pc[r] = "ok" => witnessed[r] = {"catalog", "provider"}

\* Operations that lock plan, version and services in this order never wait
\* for each other in a cycle, and coverage edits, which lock them in the
\* opposite order, never do so among themselves.
DeadlocksNeedCoverage ==
    \A S \in SUBSET Requests : Cycle(S) =>
        /\ \E r \in S : req[r].op = "coverage"
        /\ \E r \in S : req[r].op \in {"edit_draft", "publish"}

\* No lock of another request keeps r from its next statement, or PostgreSQL
\* aborts it to break a cycle.
Free(r) ==
    /\ \A q \in BlockedBy(r) :
          q = None \/ (q = r /\ pc[r] \notin {"lockPlan", "lockVersion"})
    /\ pc[r] = "commit" /\ req[r].op = "create_draft" => \E v \in VersionIds : ~Stored(v)

Ready(r) ==
    /\ pc[r] \in Working
    /\ Free(r) \/ \E S \in SUBSET Requests : r \in S /\ Cycle(S)

\* Requests never all wait: no answered request keeps a lock and PostgreSQL
\* breaks every cycle of coverage edits and draft operations.
SomebodyIsReady ==
    (\E r \in Requests : pc[r] \in Working) => \E r \in Requests : Ready(r)

\* Whoever is ready goes on, and so somebody always does.  A request has
\* finitely many statements, so every one of them is answered.
SomebodyGoesOn ==
    /\ SomebodyIsReady
    /\ \A r \in Requests : Ready(r) => ENABLED Statement(r)

-----------------------------------------------------------------------------
(* The committed rows, without the history of their services, are the      *)
(* ledger the catalog promises.                                            *)

Entry(v) ==
    [phase |-> row[v].status, plan |-> row[v].plan, number |-> row[v].number,
     author |-> row[v].author,
     terms |-> IF Stored(v) THEN <<row[v].text, row[v].count>> ELSE None,
     publisher |-> row[v].published_by]

Ledger == INSTANCE PublicationLedger WITH
    Keys <- VersionIds,
    Terms <- Contents \X Positions,
    ledger <- [v \in VersionIds |-> Entry(v)]

\* Whatever the interleaving of requests, failures and scope changes, the rows
\* behave as the abstract ledger does.
ImplementsLedger == Ledger!Spec
=============================================================================
