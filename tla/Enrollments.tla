---------------------------- MODULE Enrollments ----------------------------
(***************************************************************************)
(* The Pólizas of one business (enrollments/services.py): creation with    *)
(* and without exceptions, renewal, status transitions and beneficiaries.  *)
(*                                                                         *)
(* As in PlanVersions every request is a transaction that runs statement   *)
(* by statement under READ COMMITTED, and its writes become visible with   *)
(* its commit.  create_enrollment takes no lock: each of its statements    *)
(* sees what is committed then, and its COMMIT waits for the rows that the *)
(* deferred foreign keys of the new row refer to.                          *)
(*                                                                         *)
(* The requests of the catalog that lock versions and plans take part with *)
(* their locks; PlanVersions is about what they do under them.             *)
(***************************************************************************)
EXTENDS CalendarMonths, FiniteSets

CONSTANTS
    Requests,      \* HTTP requests, one service call each
    Users,         \* the actors of the requests
    Superusers,    \* the platform operators among them
    Members,       \* the business's members
    Renewing,      \* those with auto_renew_allowed
    Plans,         \* the plans of the reseller
    Versions,      \* their versions
    VersionTerms,  \* plan, number, window and duration of each version
    Policies,      \* primary keys that enrollment rows may take
    StartDates,    \* start dates the form is posted with
    ExplicitEnds,  \* explicit end dates it is posted with
    Starts,        \* enrollment rows when the requests begin
    MaxChanges,    \* changes of the surrounding rows, at most
    Ops,           \* the operations requests may ask for
    None           \* nothing: no policy, plan, version, date or user

Operations == {"create", "renew", "transition", "add_beneficiary"}

\* edit_coverage: the coverage edits, which lock a service's version and its
\* plan; edit_draft: update_draft and publish_draft, which lock a plan and then
\* one of its versions, a published one included, and refuse it afterwards.
CatalogOps == {"edit_coverage", "edit_draft"}

ASSUME RequestsAssumption == None \notin Requests
ASSUME PoliciesAssumption == None \notin Policies /\ IsFiniteSet(Policies)
ASSUME OpsAssumption == Ops \subseteq Operations \cup CatalogOps /\ MaxChanges \in Nat
ASSUME TermsAssumption ==
    \A v \in Versions :
        /\ VersionTerms[v].plan \in Plans
        /\ VersionTerms[v].months \in Nat \ {0}
        /\ VersionTerms[v].number \in Nat
        /\ Valid(VersionTerms[v].from) /\ Valid(VersionTerms[v].until)
\* ORDER BY -number has a first row.
ASSUME NumbersAssumption ==
    \A versions \in SUBSET Versions : versions # {} =>
        \E v \in versions : \A w \in versions : VersionTerms[w].number <= VersionTerms[v].number
ASSUME DatesAssumption == \A date \in StartDates \cup ExplicitEnds : Valid(date)

VARIABLES
    policy,        \* committed enrollment rows
    beneficiaries, \* committed beneficiary rows, by the request that added each
    audit,         \* committed audit events
    policyLock,    \* holder of each enrollment row's lock
    memberLock,    \* holder of each member row's lock
    versionLock,   \* holder of each version row's lock
    planLock,      \* holder of each plan row's lock
    pc,            \* the statement each request runs next
    req,           \* what each request asks for
    reads,         \* what its transaction has read so far
    grants,        \* users with a live reseller_admin grant over the business
    live,          \* which of the business and the reseller are live
    sameReseller,  \* the business belongs to the reseller of the plans
    open,          \* plans with a live provider, available to the business
    contracted,    \* plans whose provider has a live contract with it
    published,     \* published versions
    autoRenew,     \* plans with auto_renew_enabled
    changes,       \* changes so far
    witnessed      \* history: what was true at some instant of a request

locks == <<policyLock, memberLock, versionLock, planLock>>
scope == <<grants, live, sameReseller, open, contracted, published, autoRenew, changes>>
vars == <<policy, beneficiaries, audit, locks, pc, req, reads, scope, witnessed>>

-----------------------------------------------------------------------------
(* Rows, requests and what surrounds them.                                 *)

Statuses == {"pending_payment", "active", "suspended", "expired", "cancelled"}

\* ALLOWED_TRANSITIONS
Allowed(status) ==
    CASE status = "pending_payment" -> {"active", "cancelled"}
      [] status = "active" -> {"suspended", "expired", "cancelled"}
      [] status = "suspended" -> {"active", "expired", "cancelled"}
      [] OTHER -> {}

\* The transitions the trigger lets an UPDATE make, written out once more.
TriggerAllows(old, new) ==
    \/ old = "pending_payment" /\ new \in {"active", "cancelled"}
    \/ old = "active" /\ new \in {"suspended", "expired", "cancelled"}
    \/ old = "suspended" /\ new \in {"active", "expired", "cancelled"}

NoPolicy == [status |-> "absent", member |-> None, version |-> None,
             preceding |-> None, start |-> None, end |-> None,
             override_reason |-> FALSE, created_by |-> None]

Dates == [year : Int, month : 1 .. 12, day : 1 .. 31]

\* A PlanEnrollment row.
Row == [status : Statuses, member : Members, version : Versions,
        preceding : Policies \cup {None}, start : Dates, end : Dates,
        override_reason : BOOLEAN, created_by : Users]

ASSUME StartsAssumption ==
    /\ Starts \subseteq [Policies -> Row \cup {NoPolicy}]
    /\ \A rows \in Starts, p \in Policies :
          rows[p] # NoPolicy => Before(rows[p].start, rows[p].end)

Issued(p) == policy[p].status # "absent"

PlanOf(p) == VersionTerms[policy[p].version].plan

Renewed(p) == \E q \in Policies : policy[q].preceding = p

\* version: the row to lock, that of the Poliza to renew or of the catalog page.
Request == [op : Operations \cup CatalogOps \cup {"none"}, actor : Users \cup {None},
            member : Members \cup {None}, plan : Plans \cup {None},
            version : Versions \cup {None}, start : Dates \cup {None}, explicit : ExplicitEnds \cup {None},
            override : BOOLEAN, reason : BOOLEAN, policy : Policies \cup {None},
            target : Statuses \cup {None}]

NoRequest == [op |-> "none", actor |-> None, member |-> None, plan |-> None,
              version |-> None, start |-> None, explicit |-> None, override |-> FALSE,
              reason |-> FALSE, policy |-> None, target |-> None]

\* tenant: the business's reseller, loaded with the member, is the plan's;
\* eligible: what resolve_available_plan_version has found so far; from: the
\* status of the locked row; flag: auto_renew_enabled of the locked plan row.
NoReads == [tenant |-> FALSE, eligible |-> FALSE, version |-> None,
            from |-> None, flag |-> FALSE]

Reads == [tenant : BOOLEAN, eligible : BOOLEAN, version : Versions \cup {None},
          from : Statuses \cup {None}, flag : BOOLEAN]

Working == {"member", "plan", "business", "contract", "version", "exception",
            "insert", "businessKey", "memberKey", "versionKey",
            "lockPolicy", "lockMember", "lockVersion", "lockPlan", "renewChecks",
            "transitionChecks", "update", "beneficiary", "addBeneficiary", "catalog"}

Answered == {"ok", "denied", "invalid", "error", "deadlock", "crashed"}

\* administered_businesses; a reseller that the business moved to is live.
InPortfolio(u, gr, lv, same) ==
    u \in gr /\ "business" \in lv /\ (same => "reseller" \in lv)

\* _administered_member: operators always, others through live organizations.
Administers(u) == u \in Superusers \/ InPortfolio(u, grants, live, sameReseller)

Effective(plan, date) ==
    {v \in published : /\ VersionTerms[v].plan = plan
                       /\ ~Before(date, VersionTerms[v].from)
                       /\ Before(date, VersionTerms[v].until)}

\* ORDER BY -number, the first; None of an empty set.
Latest(versions) ==
    IF versions = {} THEN None
    ELSE CHOOSE v \in versions :
            \A w \in versions : VersionTerms[w].number <= VersionTerms[v].number

Facts == {"actor", "plan", "business", "contract", "moved"}

\* What a request's actor, plan and date have going for them.
Circumstances(request, gr, lv, same, op, con) ==
    (IF request.actor \in Superusers \/ InPortfolio(request.actor, gr, lv, same)
        THEN {"actor"} ELSE {})
    \cup (IF "reseller" \in lv /\ request.plan \in op THEN {"plan"} ELSE {})
    \cup (IF "business" \in lv /\ same THEN {"business"} ELSE {})
    \cup (IF request.plan \in con THEN {"contract"} ELSE {})
    \cup (IF same THEN {} ELSE {"moved"})

-----------------------------------------------------------------------------
(* What every statement is built from.                                     *)

\* The end of a transaction.
Release(r) ==
    /\ policyLock' = [p \in Policies |-> IF policyLock[p] = r THEN None ELSE policyLock[p]]
    /\ memberLock' = [m \in Members |-> IF memberLock[m] = r THEN None ELSE memberLock[m]]
    /\ versionLock' = [v \in Versions |-> IF versionLock[v] = r THEN None ELSE versionLock[v]]
    /\ planLock' = [p \in Plans |-> IF planLock[p] = r THEN None ELSE planLock[p]]

\* An exception leaves the service: the transaction rolls back.  Nothing
\* records refusals here.
Refuse(r, why) ==
    /\ pc' = [pc EXCEPT ![r] = why]
    /\ Release(r)
    /\ reads' = [reads EXCEPT ![r] = IF why = "error" THEN reads[r] ELSE NoReads]
    /\ witnessed' = [witnessed EXCEPT ![r] = IF why = "error" THEN witnessed[r] ELSE {}]
    /\ UNCHANGED <<policy, beneficiaries, audit, req, scope>>

\* A statement that read something goes on to the next one.
Continue(r, read, next) ==
    /\ reads' = [reads EXCEPT ![r] = read]
    /\ pc' = [pc EXCEPT ![r] = next]
    /\ UNCHANGED <<policy, beneficiaries, audit, locks, req, scope, witnessed>>

Event(r, action, p) ==
    [request |-> r, action |-> action, policy |-> p, from |-> None, to |-> None]

\* The transaction commits what it wrote with its events.
Commit(r, newPolicy, newBeneficiaries, events) ==
    /\ policy' = newPolicy
    /\ beneficiaries' = newBeneficiaries
    /\ audit' = audit \cup events
    /\ pc' = [pc EXCEPT ![r] = "ok"]
    /\ Release(r)
    /\ UNCHANGED <<req, reads, scope, witnessed>>

-----------------------------------------------------------------------------
(* Requests arrive from pages that showed rows and choices that exist; the *)
(* views admit nobody, not even operators, without the grant.              *)

Arrive(r, request, first) ==
    /\ pc[r] = "idle"
    /\ request.op \in Ops
    /\ request.op \in Operations => InPortfolio(request.actor, grants, live, sameReseller)
    /\ req' = [req EXCEPT ![r] = request]
    /\ pc' = [pc EXCEPT ![r] = first]
    /\ witnessed' = [witnessed EXCEPT ![r] =
           Circumstances(request, grants, live, sameReseller, open, contracted)]
    /\ UNCHANGED <<policy, beneficiaries, audit, locks, reads, scope>>

\* Requests on their way to the insertion of a row, and the keys left for it.
Inserting == {r \in Requests : req[r].op \in {"create", "renew"} /\ pc[r] \in Working}

FreeKeys == {p \in Policies : ~Issued(p)}

\* A bound of the model: no more insertions under way than keys.
KeysLeft == Cardinality(Inserting) < Cardinality(FreeKeys)

\* The form offers the plans of the business's reseller.
CreateEnrollment(r, u, m, plan, start, explicit, override, reason) ==
    /\ KeysLeft
    /\ sameReseller
    /\ Arrive(r, [NoRequest EXCEPT !.op = "create", !.actor = u, !.member = m,
                    !.plan = plan, !.start = start, !.explicit = explicit,
                    !.override = override, !.reason = reason], "member")

RenewEnrollment(r, u, p) ==
    /\ KeysLeft
    /\ Issued(p)
    /\ Arrive(r, [NoRequest EXCEPT !.op = "renew", !.actor = u, !.policy = p,
                    !.member = policy[p].member, !.plan = PlanOf(p),
                    !.version = policy[p].version, !.start = policy[p].end], "lockPolicy")

\* The form offers the transitions of the status that the page was read with.
TransitionEnrollment(r, u, p, status) ==
    /\ Issued(p)
    /\ status \in Allowed(policy[p].status)
    /\ Arrive(r, [NoRequest EXCEPT !.op = "transition", !.actor = u, !.policy = p,
                    !.member = policy[p].member, !.target = status], "lockPolicy")

AddBeneficiary(r, u, p) ==
    /\ Issued(p)
    /\ Arrive(r, [NoRequest EXCEPT !.op = "add_beneficiary", !.actor = u,
                    !.policy = p, !.member = policy[p].member], "beneficiary")

\* coverage_manage, of a version that a page showed.
EditCoverage(r, v) ==
    Arrive(r, [NoRequest EXCEPT !.op = "edit_coverage", !.version = v,
                 !.plan = VersionTerms[v].plan], "lockVersion")

\* version_edit and version_publish, of a version that a page showed, which may
\* have been published since.
EditDraft(r, v) ==
    Arrive(r, [NoRequest EXCEPT !.op = "edit_draft", !.version = v,
                 !.plan = VersionTerms[v].plan], "lockPlan")

-----------------------------------------------------------------------------
(* SELECT ... FOR UPDATE over the enrollment, its member and, to renew it, *)
(* its version and plan: locks the rows of the join in this order.  The    *)
(* coverage edits lock version and plan in this order too, the edits and   *)
(* publications of drafts in the other.                                    *)

\* Who has checked a new row's foreign key to the member's row and not yet
\* committed holds it FOR KEY SHARE.
KeySharers(m) == {r \in Requests : pc[r] = "versionKey" /\ req[r].member = m}

\* The requests that keep r waiting: they hold a row it locks, or that the
\* foreign key of a row it inserted refers to.
BlockedBy(r) ==
    (CASE pc[r] \in {"lockPolicy", "addBeneficiary"} -> {policyLock[req[r].policy]}
       [] pc[r] = "lockMember" ->
            {memberLock[req[r].member]} \cup KeySharers(req[r].member)
       [] pc[r] = "memberKey" -> {memberLock[req[r].member]}
       [] pc[r] = "lockVersion" -> {versionLock[req[r].version]}
       [] pc[r] = "versionKey" -> {versionLock[reads[r].version]}
       [] pc[r] = "lockPlan" -> {planLock[req[r].plan]}
       [] OTHER -> {})
    \ {r, None}

\* Mutant: renew_enrollment names the member last among the rows it locks.
MemberLast(op, statement) ==
    CASE statement = "lockPolicy" -> IF op = "renew" THEN "lockVersion" ELSE "lockMember"
      [] statement = "lockMember" -> IF op = "renew" THEN "renewChecks"
                                                     ELSE "transitionChecks"
      [] statement = "lockVersion" -> IF op = "edit_draft" THEN "catalog" ELSE "lockPlan"
      [] OTHER -> CASE op = "renew" -> "lockMember"
                    [] op = "edit_draft" -> "lockVersion"
                    [] OTHER -> "catalog"

\* The statement after a lock.
AfterLock(op, statement) ==
    CASE statement = "lockPolicy" -> "lockMember"
      [] statement = "lockMember" -> IF op = "renew" THEN "lockVersion"
                                                     ELSE "transitionChecks"
      [] statement = "lockVersion" -> IF op = "edit_draft" THEN "catalog" ELSE "lockPlan"
      [] OTHER -> CASE op = "renew" -> "renewChecks"
                    [] op = "edit_draft" -> "lockVersion"
                    [] OTHER -> "catalog"

\* Mutant: the enrollment is read without FOR UPDATE.
LockPolicyNot(r) ==
    /\ pc[r] = "lockPolicy"
    /\ Continue(r, [reads[r] EXCEPT !.from = policy[req[r].policy].status],
                "lockMember")

LockPolicy(r) ==
    LET p == req[r].policy IN
        /\ pc[r] = "lockPolicy"
        /\ BlockedBy(r) = {}
        /\ policyLock' = [policyLock EXCEPT ![p] = r]
        /\ reads' = [reads EXCEPT ![r].from = policy[p].status]
        /\ pc' = [pc EXCEPT ![r] = AfterLock(req[r].op, "lockPolicy")]
        /\ UNCHANGED <<policy, beneficiaries, audit, memberLock, versionLock,
                       planLock, req, scope, witnessed>>

LockMember(r) ==
    /\ pc[r] = "lockMember"
    /\ BlockedBy(r) = {}
    /\ memberLock' = [memberLock EXCEPT ![req[r].member] = r]
    /\ pc' = [pc EXCEPT ![r] = AfterLock(req[r].op, "lockMember")]
    /\ UNCHANGED <<policy, beneficiaries, audit, policyLock, versionLock, planLock,
                   req, reads, scope, witnessed>>

LockVersion(r) ==
    /\ pc[r] = "lockVersion"
    /\ BlockedBy(r) = {}
    /\ versionLock' = [versionLock EXCEPT ![req[r].version] = r]
    /\ pc' = [pc EXCEPT ![r] = AfterLock(req[r].op, "lockVersion")]
    /\ UNCHANGED <<policy, beneficiaries, audit, policyLock, memberLock, planLock,
                   req, reads, scope, witnessed>>

\* Mutant: the plan is read without FOR UPDATE, of=("self", "plan_version").
LockPlanNot(r) ==
    /\ pc[r] = "lockPlan"
    /\ Continue(r, [reads[r] EXCEPT !.flag = req[r].plan \in autoRenew],
                AfterLock(req[r].op, "lockPlan"))

LockPlan(r) ==
    LET plan == req[r].plan IN
        /\ pc[r] = "lockPlan"
        /\ BlockedBy(r) = {}
        /\ planLock' = [planLock EXCEPT ![plan] = r]
        /\ reads' = [reads EXCEPT ![r].flag = plan \in autoRenew]
        /\ pc' = [pc EXCEPT ![r] = AfterLock(req[r].op, "lockPlan")]
        /\ UNCHANGED <<policy, beneficiaries, audit, policyLock, memberLock,
                       versionLock, req, scope, witnessed>>

\* An edit of the catalog ends, done or refused; PlanVersions says which.
EndCatalog(r) ==
    /\ pc[r] = "catalog"
    /\ Commit(r, policy, beneficiaries, {})

-----------------------------------------------------------------------------
(* transition_enrollment and add_beneficiary.                              *)

CheckTransition(r) ==
    /\ pc[r] = "transitionChecks"
    /\ IF ~Administers(req[r].actor) THEN Refuse(r, "denied")
       ELSE IF req[r].target \notin Allowed(reads[r].from) THEN Refuse(r, "invalid")
       ELSE Continue(r, reads[r], "update")

\* UPDATE ... SET status, which the trigger judges by the committed row.
UpdateStatus(r) ==
    LET p == req[r].policy
        to == req[r].target
    IN  /\ pc[r] = "update"
        /\ IF TriggerAllows(policy[p].status, to)
              THEN Commit(r, [policy EXCEPT ![p].status = to], beneficiaries,
                          {[Event(r, "enrollment.transitioned", p) EXCEPT
                              !.from = reads[r].from, !.to = to]})
              ELSE Refuse(r, "error")

CheckBeneficiary(r) ==
    /\ pc[r] = "beneficiary"
    /\ IF Administers(req[r].actor) THEN Continue(r, reads[r], "addBeneficiary")
                                    ELSE Refuse(r, "denied")

\* The foreign key waits at commit for whoever holds the enrollment's row.
InsertBeneficiary(r) ==
    LET p == req[r].policy IN
        /\ pc[r] = "addBeneficiary"
        /\ BlockedBy(r) = {}
        /\ Commit(r, policy, [beneficiaries EXCEPT ![p] = @ \cup {r}],
                  {Event(r, "enrollment.beneficiary_added", p)})

-----------------------------------------------------------------------------
(* renew_enrollment up to its call of create_enrollment, and               *)
(* create_enrollment with resolve_available_plan_version.                  *)

CheckRenewal(r) ==
    /\ pc[r] = "renewChecks"
    /\ IF ~Administers(req[r].actor) THEN Refuse(r, "denied")
       ELSE IF Renewed(req[r].policy) THEN Refuse(r, "invalid")
       ELSE IF reads[r].flag /\ req[r].member \in Renewing
               THEN Continue(r, reads[r], "member")
               ELSE Refuse(r, "invalid")

FindMember(r) ==
    /\ pc[r] = "member"
    /\ IF Administers(req[r].actor)
          THEN Continue(r, [reads[r] EXCEPT !.tenant = sameReseller], "plan")
          ELSE Refuse(r, "denied")

FindPlan(r) ==
    /\ pc[r] = "plan"
    /\ Continue(r, reads[r],
                IF "reseller" \in live /\ req[r].plan \in open
                   THEN "business" ELSE "exception")

FindBusiness(r) ==
    /\ pc[r] = "business"
    /\ Continue(r, reads[r], IF "business" \in live /\ sameReseller
                                THEN "contract" ELSE "exception")

\* Mutant: a plan is available without a contract with its provider.
FindNoContract(r) ==
    /\ pc[r] = "contract"
    /\ Continue(r, reads[r], "version")

FindContract(r) ==
    /\ pc[r] = "contract"
    /\ Continue(r, reads[r], IF req[r].plan \in contracted
                                THEN "version" ELSE "exception")

FindVersion(r) ==
    LET version == Latest(Effective(req[r].plan, req[r].start)) IN
        /\ pc[r] = "version"
        /\ Continue(r, [reads[r] EXCEPT !.version = version,
                                        !.eligible = version # None],
                    IF version = None THEN "exception" ELSE "insert")

\* The version of an authorized exception: published and effective, of a plan
\* of the reseller that the member's business had when it was loaded.
FindException(r) ==
    LET version == IF reads[r].tenant
                      THEN Latest(Effective(req[r].plan, req[r].start)) ELSE None
    IN  /\ pc[r] = "exception"
        /\ IF req[r].override /\ req[r].reason /\ version # None
              THEN Continue(r, [reads[r] EXCEPT !.version = version], "insert")
              ELSE Refuse(r, "invalid")

CalculatedEnd(r) ==
    AddCalendarMonths(req[r].start, VersionTerms[reads[r].version].months)

EndDate(r) == IF req[r].explicit = None THEN CalculatedEnd(r) ELSE req[r].explicit

Excepted(r) == EndDate(r) # CalculatedEnd(r) \/ req[r].override

NewPolicy(r) ==
    [status |-> "pending_payment", member |-> req[r].member,
     version |-> reads[r].version, preceding |-> req[r].policy,
     start |-> req[r].start, end |-> EndDate(r),
     override_reason |-> req[r].reason, created_by |-> req[r].actor]

\* The trigger compares the resellers of the business and of the plan.
TriggerTenant(r) == sameReseller

\* What the trigger asks of a renewal.
TriggerContinues(new) ==
    new.preceding # None =>
        /\ policy[new.preceding].member = new.member
        /\ policy[new.preceding].end = new.start
        /\ PlanOf(new.preceding) = VersionTerms[new.version].plan

\* Why the rest of create_enrollment refuses: a year after MAXYEAR, its own
\* checks, full_clean (which finds a renewal that exists), or the trigger.
InsertRefusal(r) ==
    CASE ~Representable(CalculatedEnd(r)) -> "error"
      [] Representable(CalculatedEnd(r)) /\
           (\/ Excepted(r) /\ ~req[r].reason
            \/ ~Before(req[r].start, EndDate(r))
            \/ req[r].policy # None /\ Renewed(req[r].policy)) -> "invalid"
      [] OTHER -> IF TriggerTenant(r) /\ TriggerContinues(NewPolicy(r))
                     THEN "none" ELSE "error"

CreationEvents(r, p) ==
    {Event(r, "enrollment.created", p)}
    \cup (IF Excepted(r) THEN {Event(r, "enrollment.eligibility_overridden", p)} ELSE {})
    \cup (IF req[r].op = "renew" THEN {Event(r, "enrollment.renewed", p)} ELSE {})

\* The INSERT, with its trigger, and those of the audit events: the row keeps to
\* its transaction until COMMIT.
InsertPolicy(r) ==
    /\ pc[r] = "insert"
    /\ IF InsertRefusal(r) = "none" THEN Continue(r, reads[r], "businessKey")
                                    ELSE Refuse(r, InsertRefusal(r))

\* COMMIT checks the deferred foreign keys of the new row, in this order: each
\* takes the row it refers to FOR KEY SHARE, and keeps it.
ShareBusiness(r) ==
    /\ pc[r] = "businessKey"
    /\ Continue(r, reads[r], "memberKey")

ShareMember(r) ==
    /\ pc[r] = "memberKey"
    /\ BlockedBy(r) = {}
    /\ Continue(r, reads[r], "versionKey")

\* The key of the version, and the rows are there.
CommitPolicy(r, p) ==
    /\ pc[r] = "versionKey"
    /\ BlockedBy(r) = {}
    /\ ~Issued(p)
    /\ Commit(r, [policy EXCEPT ![p] = NewPolicy(r)], beneficiaries, CreationEvents(r, p))

Waits(S) == \A r \in S : BlockedBy(r) \cap S # {}

\* A set of requests each of which waits for another of them, and no part of
\* which does: a cycle.
Cycle(S) == /\ S # {}
            /\ Waits(S)
            /\ \A T \in SUBSET S : T \notin {{}, S} => ~Waits(T)

\* Mutant: deadlocks are never detected.
NeverAbort(r) == FALSE

\* PostgreSQL aborts one transaction of a cycle, with an error no view handles.
DeadlockAbort(r) ==
    /\ \E S \in SUBSET Requests : r \in S /\ Cycle(S)
    /\ Refuse(r, "deadlock")

\* The serving process dies and PostgreSQL rolls its transaction back.
Crash(r) == pc[r] \in Working /\ Refuse(r, "crashed")

-----------------------------------------------------------------------------
(* What other components change while requests run.                        *)

ChangeScope ==
    /\ changes < MaxChanges
    /\ changes' = changes + 1
    /\ witnessed' = [r \in Requests |->
           IF pc[r] \in Working
              THEN witnessed[r] \cup Circumstances(req[r], grants', live',
                                                   sameReseller', open', contracted')
              ELSE witnessed[r]]
    /\ UNCHANGED <<policy, beneficiaries, audit, locks, pc, req, reads>>

Flip(set, element) == IF element \in set THEN set \ {element} ELSE set \cup {element}

GrantOrRevoke(u) ==
    /\ grants' = Flip(grants, u)
    /\ UNCHANGED <<live, sameReseller, open, contracted, published, autoRenew>>
    /\ ChangeScope

ToggleOrganization(o) ==
    /\ live' = Flip(live, o)
    /\ UNCHANGED <<grants, sameReseller, open, contracted, published, autoRenew>>
    /\ ChangeScope

\* The operator reassigns the business; its administrators are others then.  The
\* UPDATE changes a column of uq_business_reseller_name, so it waits for who
\* holds the row FOR KEY SHARE.
MoveBusiness(administrators) ==
    /\ \A r \in Requests : pc[r] \notin {"memberKey", "versionKey"}
    /\ sameReseller' = ~sameReseller
    /\ grants' = administrators
    /\ UNCHANGED <<live, open, contracted, published, autoRenew>>
    /\ ChangeScope

\* A provider is switched on or off, or set_plan_availability.
ToggleOpen(plan) ==
    /\ open' = Flip(open, plan)
    /\ UNCHANGED <<grants, live, sameReseller, contracted, published, autoRenew>>
    /\ ChangeScope

\* create_provider_contract and deactivate_provider_contract.
ToggleContract(plan) ==
    /\ contracted' = Flip(contracted, plan)
    /\ UNCHANGED <<grants, live, sameReseller, open, published, autoRenew>>
    /\ ChangeScope

\* publish_draft commits; it holds the locks of plan and version.
PublishVersion(v) ==
    /\ v \notin published
    /\ planLock[VersionTerms[v].plan] = None /\ versionLock[v] = None
    /\ published' = published \cup {v}
    /\ UNCHANGED <<grants, live, sameReseller, open, contracted, autoRenew>>
    /\ ChangeScope

\* update_plan commits; it holds the plan's lock.
UpdatePlan(plan) ==
    /\ planLock[plan] = None
    /\ autoRenew' = Flip(autoRenew, plan)
    /\ UNCHANGED <<grants, live, sameReseller, open, contracted, published>>
    /\ ChangeScope

-----------------------------------------------------------------------------
Init ==
    /\ policy \in Starts
    /\ beneficiaries = [p \in Policies |-> {}]
    /\ audit = {}
    /\ policyLock = [p \in Policies |-> None]
    /\ memberLock = [m \in Members |-> None]
    /\ versionLock = [v \in Versions |-> None]
    /\ planLock = [p \in Plans |-> None]
    /\ pc = [r \in Requests |-> "idle"]
    /\ req = [r \in Requests |-> NoRequest]
    /\ reads = [r \in Requests |-> NoReads]
    /\ grants = Users
    /\ live = {"business", "reseller"}
    /\ sameReseller = TRUE
    /\ open = Plans
    /\ contracted = Plans
    /\ published = {v \in Versions : \/ VersionTerms[v].number = 1
                                    \/ \E p \in Policies : policy[p].version = v}
    /\ autoRenew = Plans
    /\ changes = 0
    /\ witnessed = [r \in Requests |-> {}]

Arrival(r) ==
    \/ \E u \in Users :
          \/ \E m \in Members, plan \in Plans, start \in StartDates,
                explicit \in ExplicitEnds \cup {None}, override, reason \in BOOLEAN :
                CreateEnrollment(r, u, m, plan, start, explicit, override, reason)
          \/ \E p \in Policies :
                \/ RenewEnrollment(r, u, p)
                \/ \E status \in Statuses : TransitionEnrollment(r, u, p, status)
                \/ AddBeneficiary(r, u, p)
    \/ \E v \in Versions : EditCoverage(r, v) \/ EditDraft(r, v)

Statement(r) ==
    \/ LockPolicy(r) \/ LockMember(r) \/ LockVersion(r) \/ LockPlan(r) \/ EndCatalog(r)
    \/ CheckTransition(r) \/ UpdateStatus(r)
    \/ CheckBeneficiary(r) \/ InsertBeneficiary(r)
    \/ CheckRenewal(r)
    \/ FindMember(r) \/ FindPlan(r) \/ FindBusiness(r) \/ FindContract(r)
    \/ FindVersion(r) \/ FindException(r)
    \/ InsertPolicy(r) \/ ShareBusiness(r) \/ ShareMember(r)
    \/ \E p \in Policies : CommitPolicy(r, p)
    \/ DeadlockAbort(r)

Surroundings ==
    \/ \E u \in Users : GrantOrRevoke(u)
    \/ \E o \in {"business", "reseller"} : ToggleOrganization(o)
    \/ \E administrators \in SUBSET Users : MoveBusiness(administrators)
    \/ \E plan \in Plans : ToggleOpen(plan) \/ ToggleContract(plan) \/ UpdatePlan(plan)
    \/ \E v \in Versions : PublishVersion(v)

\* No request is running; the site waits for more.
Quiescent == (\A r \in Requests : pc[r] \notin Working) /\ UNCHANGED vars

Next ==
    \/ \E r \in Requests : Arrival(r) \/ Statement(r) \/ Crash(r)
    \/ Surroundings
    \/ Quiescent

Spec == Init /\ [][Next]_vars

-----------------------------------------------------------------------------
(* Properties.                                                             *)

\* The shape of the state; an issued row ends after it starts.
TypeOK ==
    /\ policy \in [Policies -> Row \cup {NoPolicy}]
    /\ \A p \in Policies : Issued(p) => Before(policy[p].start, policy[p].end)
    /\ beneficiaries \in [Policies -> SUBSET Requests]
    /\ policyLock \in [Policies -> Requests \cup {None}]
    /\ memberLock \in [Members -> Requests \cup {None}]
    /\ versionLock \in [Versions -> Requests \cup {None}]
    /\ planLock \in [Plans -> Requests \cup {None}]
    /\ pc \in [Requests -> {"idle"} \cup Working \cup Answered]
    /\ req \in [Requests -> Request]
    /\ reads \in [Requests -> Reads]
    /\ witnessed \in [Requests -> SUBSET Facts]
    /\ grants \subseteq Users /\ live \subseteq {"business", "reseller"}
    /\ sameReseller \in BOOLEAN
    /\ open \cup contracted \cup autoRenew \subseteq Plans /\ published \subseteq Versions

\* No request fails on a trigger or a key: under their locks the services foresee
\* what the database would refuse.  Only reassigning the business meanwhile, an
\* end after MAXYEAR, or a deadlock (answered so) makes a request fail with an
\* error that no view handles.
BackstopsStaySilent ==
    \A r \in Requests : pc[r] = "error" =>
        /\ req[r].op \in {"create", "renew"}
        /\ "moved" \in witnessed[r] \/ ~Representable(CalculatedEnd(r))

\* create_enrollment's unlocked statements judge each condition of eligibility
\* at its own instant: a Póliza issued without exception met each of them at
\* some instant of its request, and so did the actor of every answer.
EligibilityWasSeen ==
    \A r \in Requests : pc[r] = "ok" /\ req[r].op \in Operations =>
        /\ "actor" \in witnessed[r]
        /\ req[r].op \in {"create", "renew"} /\ reads[r].eligible =>
              {"plan", "business", "contract"} \subseteq witnessed[r]

\* A renewal commits only while its plan allows automatic renewal and with the
\* version that is the latest effective one at that moment: the flag and the
\* version cannot change under the plan's lock (renew_enrollment).
RenewalsAreCurrent ==
    [][\A r \in Requests :
          req[r].op = "renew" /\ pc[r] # "ok" /\ pc'[r] = "ok" =>
              /\ req[r].plan \in autoRenew
              /\ reads[r].version = Latest(Effective(req[r].plan, req[r].start))]_vars

\* Requests deadlock only in pairs over one plan: one holds it and waits for a
\* version, to edit it or at the commit of a renewal, and the other holds that
\* version and waits for the plan, to edit its coverage or to renew a Póliza of
\* it.  So renewals of Pólizas of different versions of a plan can, those of one
\* version cannot, and no member's or enrollment's row is ever part of it
\* (renew_enrollment locks the whole join, and without it the new version).
DeadlocksCrossOnePlan ==
    \A S \in SUBSET Requests : Cycle(S) =>
        \E a, b \in S :
            /\ S = {a, b}
            /\ \/ pc[a] = "versionKey" /\ req[a].op = "renew"
               \/ pc[a] = "lockVersion" /\ req[a].op = "edit_draft"
            /\ pc[b] = "lockPlan" /\ req[b].op \in {"renew", "edit_coverage"}
            /\ planLock[req[b].plan] = a /\ versionLock[req[b].version] = b
            /\ req[a].plan = req[b].plan
            /\ req[a].op = "renew" => req[a].version # req[b].version

\* No other request keeps r from its next statement, or PostgreSQL may break the
\* cycle it is in.
Ready(r) ==
    /\ pc[r] \in Working
    /\ \/ BlockedBy(r) = {} /\ (pc[r] = "versionKey" => FreeKeys # {})
       \/ \E S \in SUBSET Requests : r \in S /\ Cycle(S)

\* Requests never all wait for ever: whoever waits, waits for one that goes on, or
\* in a cycle that is broken.
SomebodyIsReady ==
    (\E r \in Requests : pc[r] \in Working) => \E r \in Requests : Ready(r)

\* Whoever is ready goes on, and so somebody always does.  A request has
\* finitely many statements, so every one of them is answered.
SomebodyGoesOn ==
    /\ SomebodyIsReady
    /\ \A r \in Requests : Ready(r) => ENABLED Statement(r)

-----------------------------------------------------------------------------
(* Rows and transition evidence are the abstract lifecycle.                *)

Term(row) ==
    [status |-> row.status, holder |-> row.member,
     product |-> IF row = NoPolicy THEN None ELSE VersionTerms[row.version].plan,
     start |-> row.start, end |-> row.end, preceding |-> row.preceding]

Lifecycle == INSTANCE PolicyLifecycle WITH
    Holders <- Members,
    Products <- Plans,
    Precedes <- Before,
    Starts <- {[p \in Policies |-> Term(rows[p])] : rows \in Starts},
    policies <- [p \in Policies |-> Term(policy[p])],
    log <- {[policy |-> e.policy, request |-> e.request, from |-> e.from, to |-> e.to] :
              e \in {f \in audit : f.action = "enrollment.transitioned"}}

\* Terms are issued once and never change, renewals continue what they renew
\* and do so once, statuses follow the legal edges, and the evidence of every
\* transition names the status it really left.
ImplementsLifecycle == Lifecycle!Spec
=============================================================================
