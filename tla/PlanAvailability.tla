------------------------- MODULE PlanAvailability -------------------------
(***************************************************************************)
(* Which businesses a Plan is offered to, and what operators and resellers *)
(* may change of it: plan_availability and plan_edit with                  *)
(* set_plan_availability and update_plan (catalog), next to the admin page *)
(* that moves, deactivates and deletes businesses (organizations), and the *)
(* two triggers of catalog migration 0004 between them.                    *)
(*                                                                         *)
(* Transactions run as in PlanVersions: one action per statement, writes   *)
(* at the commit, row locks until then.  An UPDATE of a business that      *)
(* writes reseller_id or name, which are in a unique index, locks the row  *)
(* against the foreign keys of new selections, which are checked when the  *)
(* transaction that inserts them commits.                                  *)
(***************************************************************************)
EXTENDS Naturals, FiniteSets

CONSTANTS
    Requests,     \* HTTP requests
    Users,        \* their actors
    Superusers,   \* the platform operators among them
    Resellers,
    Businesses,
    Plans,
    Owner,        \* the permanent reseller of each plan
    Home,         \* the reseller of each business at first
    Offered,      \* the sets of businesses plans are offered to at first
    Choices,      \* the sets of businesses a form is posted with
    MaxChanges,   \* changes of grants, resellers and providers, at most
    Ops,          \* the operations requests may ask for
    None          \* no request, user, plan, business or reseller

Operations == {"set_availability", "edit_plan", "save_business", "delete_business"}

Modes == {"all_businesses", "selected_businesses"}

ASSUME NoneAssumption == None \notin Requests \cup Plans
ASSUME UsersAssumption == Superusers \subseteq Users
ASSUME RowsAssumption == /\ Owner \in [Plans -> Resellers]
                         /\ Home \in [Businesses -> Resellers]
ASSUME OfferedAssumption ==
    \A S \in Offered : S \subseteq Businesses /\ \A b \in S, p \in Plans : Home[b] = Owner[p]
ASSUME BoundsAssumption == /\ Choices \subseteq SUBSET Businesses
                           /\ MaxChanges \in Nat
                           /\ Ops \subseteq Operations

VARIABLES
    business,      \* committed business rows
    offer,         \* committed availability of each plan, with its selections
    price,         \* the request that set each plan's price and currency
    audit,         \* committed audit events of these requests
    planLock,      \* holder of each plan row's lock
    businessLock,  \* holder of each business row's lock
    pc,            \* the statement each request runs next
    req,           \* what each request asks for
    reads,         \* what it has read so far
    admins,        \* pairs of a user and a reseller with a live grant
    liveResellers, \* resellers that are active and not deleted
    supplied,      \* plans whose provider is active and not deleted
    changes,       \* changes of these three so far
    witnessed      \* history: the rows a business had during a request

locks == <<planLock, businessLock>>
scope == <<admins, liveResellers, supplied, changes>>
rows == <<business, offer, price>>
vars == <<rows, audit, locks, pc, req, reads, scope, witnessed>>

-----------------------------------------------------------------------------
(* Rows, requests and the scope they are judged by.                        *)

BusinessRow == [reseller : Resellers, active : BOOLEAN, deleted : BOOLEAN]

\* A PlanBusinessAvailability row: its business, and the request that inserted
\* it, in place of its primary key.
Selection == [business : Businesses, by : Requests \cup {None}]

\* by: the request that wrote availability last.
Offer == [mode : Modes, selected : SUBSET Selection, by : Requests \cup {None}]

Request == [op : Operations \cup {"none"}, actor : Users \cup {None},
            plan : Plans \cup {None}, mode : Modes, asked : SUBSET Businesses,
            priced : BOOLEAN, business : Businesses \cup {None},
            reseller : Resellers \cup {None}, active : BOOLEAN]

NoRequest == [op |-> "none", actor |-> None, plan |-> None,
              mode |-> "all_businesses", asked |-> {}, priced |-> FALSE,
              business |-> None, reseller |-> None, active |-> FALSE]

\* provider: liveness joined by the locking statement; ids: the businesses the
\* form passes on; doomed: the selections that DELETE saw; chosen: the
\* businesses to be inserted; price: of the plan row; row: the business row the
\* page was loaded with; refusal: why the mutation was refused.
Reads == [provider : BOOLEAN, ids : SUBSET Businesses, doomed : SUBSET Selection,
          chosen : SUBSET Businesses, price : Requests \cup {None},
          row : [reseller : Resellers \cup {None}, active : BOOLEAN,
                 deleted : BOOLEAN],
          refusal : {"none", "denied", "invalid"}]

NoReads == [provider |-> FALSE, ids |-> {}, doomed |-> {}, chosen |-> {},
            price |-> None, row |-> [reseller |-> None, active |-> FALSE,
                                     deleted |-> FALSE], refusal |-> "none"]

Working == {"view", "unseen", "clean", "narrow", "select", "lockPlan", "checks",
            "count", "delete", "read", "insert", "commit", "refused",
            "load", "update", "save"}

Answered == {"ok", "denied", "invalid", "error", "crashed"}

AuditEvents ==
    [request : Requests,
     action : {"plan.updated", "plan.availability_updated", "plan.rejected",
               "organization.updated", "organization.reactivated",
               "organization.deactivated", "organization.soft_deleted"},
     actor : Users \cup {None}, plan : Plans \cup {None},
     business : Businesses \cup {None}]

Administers(u, p) == Owner[p] \in liveResellers /\ <<u, Owner[p]>> \in admins

\* visible_plans and catalog_resellers
Visible(u, p) == u \in Superusers \/ Administers(u, p)

InCatalog(u, p) ==
    Administers(u, p) \/ (u \in Superusers /\ Owner[p] \in liveResellers)

\* Mutant: inactive businesses are offered too.
EligibleThoughInactive(p) ==
    {b \in Businesses : business[b].reseller = Owner[p] /\ ~business[b].deleted}

\* The businesses a plan may be offered to, as form and service filter them.
Eligible(p) ==
    {b \in Businesses : /\ business[b].reseller = Owner[p]
                        /\ business[b].active
                        /\ ~business[b].deleted}

Selected(p) == {s.business : s \in offer[p].selected}

Event(r, action) ==
    [request |-> r, action |-> action, actor |-> req[r].actor,
     plan |-> req[r].plan, business |-> req[r].business]

-----------------------------------------------------------------------------
(* What every statement is built from.                                     *)

\* Mutant: the business row stays locked.
KeepBusinessLocked(r) ==
    /\ planLock' = [p \in Plans |-> IF planLock[p] = r THEN None ELSE planLock[p]]
    /\ UNCHANGED businessLock

\* The end of a transaction, and the rollback of its savepoint.
Release(r) ==
    /\ planLock' = [p \in Plans |-> IF planLock[p] = r THEN None ELSE planLock[p]]
    /\ businessLock' = [b \in Businesses |->
                          IF businessLock[b] = r THEN None ELSE businessLock[b]]

Continue(r, next, read) ==
    /\ pc' = [pc EXCEPT ![r] = next]
    /\ reads' = [reads EXCEPT ![r] = read]
    /\ UNCHANGED <<rows, audit, locks, req, scope, witnessed>>

\* The request is answered, or its savepoint rolled back, without a write.
End(r, next, refusal) ==
    /\ pc' = [pc EXCEPT ![r] = next]
    /\ reads' = [reads EXCEPT ![r].refusal = refusal]
    /\ Release(r)
    /\ UNCHANGED <<rows, audit, req, scope, witnessed>>

Refuse(r, why) == End(r, "refused", why)

-----------------------------------------------------------------------------
(* Requests arrive.  The page that posts them showed the rows they name.   *)

Arrive(r, request, first) ==
    /\ pc[r] = "idle"
    /\ request.op \in Ops
    /\ req' = [req EXCEPT ![r] = request]
    /\ pc' = [pc EXCEPT ![r] = first]
    /\ witnessed' = [witnessed EXCEPT ![r] =
                       IF request.op = "set_availability"
                          THEN {<<b, business[b]>> : b \in request.asked} ELSE {}]
    /\ UNCHANGED <<rows, audit, locks, reads, scope>>

SetAvailability(r, u, p, mode, asked) ==
    Arrive(r, [NoRequest EXCEPT !.op = "set_availability", !.actor = u, !.plan = p,
                                !.mode = mode, !.asked = asked], "view")

EditPlan(r, u, p, priced) ==
    Arrive(r, [NoRequest EXCEPT !.op = "edit_plan", !.actor = u, !.plan = p,
                                !.priced = priced], "view")

\* Only platform operators get as far as an organization's page.
SaveBusiness(r, u, b, reseller, active) ==
    /\ u \in Superusers
    /\ Arrive(r, [NoRequest EXCEPT !.op = "save_business", !.actor = u,
                    !.business = b, !.reseller = reseller, !.active = active],
              "load")

DeleteBusiness(r, u, b) ==
    /\ u \in Superusers
    /\ Arrive(r, [NoRequest EXCEPT !.op = "delete_business", !.actor = u,
                                   !.business = b], "load")

-----------------------------------------------------------------------------
(* The views: _plan, _check_fields and PlanAvailabilityForm.               *)

ViewPlan(r) ==
    /\ pc[r] = "view"
    /\ Continue(r, IF ~Visible(req[r].actor, req[r].plan) THEN "unseen"
                   ELSE IF req[r].op = "set_availability" THEN "clean"
                   ELSE IF req[r].priced /\ req[r].actor \notin Superusers
                           THEN "unseen" ELSE "select",
                reads[r])

\* _rejected_request, in a transaction of its own.
RejectRequest(r) ==
    /\ pc[r] = "unseen"
    /\ audit' = audit \cup {Event(r, "plan.rejected")}
    /\ pc' = [pc EXCEPT ![r] = "denied"]
    /\ UNCHANGED <<rows, locks, req, reads, scope, witnessed>>

\* ModelMultipleChoiceField refuses a business outside its queryset.
CleanForm(r) ==
    /\ pc[r] = "clean"
    /\ IF req[r].asked \subseteq Eligible(req[r].plan)
          THEN Continue(r, "narrow", reads[r])
          ELSE End(r, "invalid", "none")

\* values_list runs the queryset once more: what has left it since is dropped.
NarrowChoice(r) ==
    /\ pc[r] = "narrow"
    /\ Continue(r, "select", [reads[r] EXCEPT !.ids = req[r].asked
                                                \cap Eligible(req[r].plan)])

-----------------------------------------------------------------------------
(* _editable_plan, and update_plan under its lock.                         *)

SelectEditablePlan(r) ==
    LET p == req[r].plan IN
        /\ pc[r] = "select"
        /\ IF Visible(req[r].actor, p)
              THEN Continue(r, "lockPlan", [reads[r] EXCEPT !.provider = p \in supplied,
                                                            !.price = price[p]])
              ELSE Refuse(r, "denied")

\* The statement waits for the row and returns it as it then is.
LockPlan(r) ==
    LET p == req[r].plan IN
        /\ pc[r] = "lockPlan"
        /\ planLock[p] = None
        /\ planLock' = [planLock EXCEPT ![p] = r]
        /\ reads' = [reads EXCEPT ![r].price = price[p]]
        /\ pc' = [pc EXCEPT ![r] = "checks"]
        /\ UNCHANGED <<rows, audit, businessLock, req, scope, witnessed>>

CheckEditablePlan(r) ==
    /\ pc[r] = "checks"
    /\ IF ~InCatalog(req[r].actor, req[r].plan) THEN Refuse(r, "denied")
       ELSE IF ~reads[r].provider THEN Refuse(r, "invalid")
       ELSE Continue(r, IF req[r].op = "edit_plan" THEN "commit" ELSE "count", reads[r])

\* save(update_fields) writes the price also when it was only loaded.
CommitEdit(r) ==
    /\ pc[r] = "commit"
    /\ req[r].op = "edit_plan"
    /\ price' = [price EXCEPT ![req[r].plan] =
                   IF req[r].actor \in Superusers THEN r ELSE reads[r].price]
    /\ audit' = audit \cup {Event(r, "plan.updated")}
    /\ pc' = [pc EXCEPT ![r] = "ok"]
    /\ Release(r)
    /\ UNCHANGED <<business, offer, req, reads, scope, witnessed>>

-----------------------------------------------------------------------------
(* set_plan_availability under the lock.                                   *)

CountBusinesses(r) ==
    /\ pc[r] = "count"
    /\ IF reads[r].ids \subseteq Eligible(req[r].plan)
          THEN Continue(r, "delete", reads[r])
          ELSE Refuse(r, "invalid")

Deleted(r, doomed) ==
    /\ pc[r] = "delete"
    /\ Continue(r, IF req[r].mode = "selected_businesses" THEN "read" ELSE "commit",
                [reads[r] EXCEPT !.doomed = doomed])

\* Mutant: the earlier selections are left in place.
DeleteNothing(r) == Deleted(r, {})

\* plan.save, and DELETE of the selections that are committed by now.
DeleteSelections(r) == Deleted(r, offer[req[r].plan].selected)

\* bulk_create runs the queryset a last time.
ReadBusinesses(r) ==
    /\ pc[r] = "read"
    /\ Continue(r, "insert", [reads[r] EXCEPT !.chosen = reads[r].ids
                                                \cap Eligible(req[r].plan)])

\* catalog_validate_business_availability looks at every inserted row.
InsertSelections(r) ==
    /\ pc[r] = "insert"
    /\ IF \A b \in reads[r].chosen : business[b].reseller = Owner[req[r].plan]
          THEN Continue(r, "commit", reads[r])
          ELSE End(r, "error", "none")

KeyLocked(b) ==
    businessLock[b] # None /\ req[businessLock[b]].op = "save_business"

\* The deferred foreign keys wait for whoever may be changing a business's key,
\* and find the business, wherever it is now.
CommitAvailability(r) ==
    /\ pc[r] = "commit"
    /\ req[r].op = "set_availability"
    /\ \A b \in reads[r].chosen : ~KeyLocked(b)
    /\ offer' = [offer EXCEPT ![req[r].plan] =
          [mode |-> req[r].mode, by |-> r,
           selected |-> (@.selected \ reads[r].doomed)
              \cup {[business |-> b, by |-> r] : b \in reads[r].chosen}]]
    /\ audit' = audit \cup {Event(r, "plan.availability_updated")}
    /\ pc' = [pc EXCEPT ![r] = "ok"]
    /\ Release(r)
    /\ UNCHANGED <<business, price, req, reads, scope, witnessed>>

\* Mutant: the refusal is recorded inside the savepoint it rolls back.
RecordInSavepoint(r) ==
    /\ pc[r] = "refused"
    /\ pc' = [pc EXCEPT ![r] = reads[r].refusal]
    /\ UNCHANGED <<rows, audit, locks, req, reads, scope, witnessed>>

\* _catalog_change records the refusal and raises again; the transaction around
\* set_plan_availability then takes the record back.
RecordRefusal(r) ==
    /\ pc[r] = "refused"
    /\ audit' = IF req[r].op = "edit_plan"
                   THEN audit \cup {Event(r, "plan.rejected")} ELSE audit
    /\ pc' = [pc EXCEPT ![r] = reads[r].refusal]
    /\ UNCHANGED <<rows, locks, req, reads, scope, witnessed>>

-----------------------------------------------------------------------------
(* OrganizationLifecycleAdmin: one transaction, whose first statement      *)
(* loads the row without a lock.                                           *)

LoadBusiness(r) ==
    LET row == business[req[r].business] IN
        /\ pc[r] = "load"
        /\ IF row.deleted THEN End(r, "denied", "none")
                          ELSE Continue(r, "update", [reads[r] EXCEPT !.row = row])

\* Mutant: there is no catalog_available_business_owner.
NeverConflicts(b, reseller) == FALSE

\* catalog_protect_available_business_owner: the business leaves the reseller
\* of a plan that has selected it.
OwnerConflicts(b, reseller) ==
    /\ business[b].reseller # reseller
    /\ \E p \in Plans : b \in Selected(p) /\ Owner[p] # reseller

\* UPDATE waits for the row; the trigger then reads what is committed.
UpdateBusiness(r) ==
    LET b == req[r].business IN
        /\ pc[r] = "update"
        /\ businessLock[b] = None
        /\ IF req[r].op = "save_business" /\ OwnerConflicts(b, req[r].reseller)
              THEN End(r, "error", "none")
              ELSE /\ businessLock' = [businessLock EXCEPT ![b] = r]
                   /\ pc' = [pc EXCEPT ![r] = "save"]
                   /\ UNCHANGED <<rows, audit, planLock, req, reads, scope, witnessed>>

\* save_model writes the whole row, deleted_at as it was loaded; delete_model
\* writes is_active and deleted_at.
Saved(r) ==
    LET b == req[r].business IN
        IF req[r].op = "save_business"
           THEN [reseller |-> req[r].reseller, active |-> req[r].active,
                 deleted |-> reads[r].row.deleted]
           ELSE [business[b] EXCEPT !.active = FALSE, !.deleted = TRUE]

\* record_organization_change and soft_delete_organization
BusinessAction(r) ==
    IF req[r].op = "delete_business" THEN "organization.soft_deleted"
    ELSE IF req[r].active = reads[r].row.active THEN "organization.updated"
    ELSE IF req[r].active THEN "organization.reactivated"
    ELSE "organization.deactivated"

CommitBusiness(r) ==
    LET b == req[r].business IN
        /\ pc[r] = "save"
        /\ business' = [business EXCEPT ![b] = Saved(r)]
        /\ audit' = audit \cup {Event(r, BusinessAction(r))}
        /\ witnessed' = [q \in Requests |->
              IF pc[q] \in Working /\ b \in req[q].asked
                 THEN witnessed[q] \cup {<<b, Saved(r)>>} ELSE witnessed[q]]
        /\ pc' = [pc EXCEPT ![r] = "ok"]
        /\ Release(r)
        /\ UNCHANGED <<offer, price, req, reads, scope>>

-----------------------------------------------------------------------------
(* A process dies; grants, resellers and providers change.                 *)

Crash(r) == pc[r] \in Working /\ End(r, "crashed", reads[r].refusal)

Flip(S, x) == IF x \in S THEN S \ {x} ELSE S \cup {x}

ChangeScope ==
    /\ changes < MaxChanges
    /\ changes' = changes + 1
    /\ UNCHANGED <<rows, audit, locks, pc, req, reads, witnessed>>

GrantOrRevoke(u, reseller) ==
    /\ admins' = Flip(admins, <<u, reseller>>)
    /\ UNCHANGED <<liveResellers, supplied>>
    /\ ChangeScope

ToggleReseller(reseller) ==
    /\ liveResellers' = Flip(liveResellers, reseller)
    /\ UNCHANGED <<admins, supplied>>
    /\ ChangeScope

ToggleProvider(p) ==
    /\ supplied' = Flip(supplied, p)
    /\ UNCHANGED <<admins, liveResellers>>
    /\ ChangeScope

-----------------------------------------------------------------------------
Init ==
    /\ business = [b \in Businesses |->
                     [reseller |-> Home[b], active |-> TRUE, deleted |-> FALSE]]
    /\ \E S \in Offered :
          offer = [p \in Plans |->
             [mode |-> IF S = {} THEN "all_businesses" ELSE "selected_businesses",
              selected |-> {[business |-> b, by |-> None] : b \in S}, by |-> None]]
    /\ price = [p \in Plans |-> None]
    /\ audit = {}
    /\ planLock = [p \in Plans |-> None]
    /\ businessLock = [b \in Businesses |-> None]
    /\ pc = [r \in Requests |-> "idle"]
    /\ req = [r \in Requests |-> NoRequest]
    /\ reads = [r \in Requests |-> NoReads]
    /\ admins = (Users \ Superusers) \X {Owner[p] : p \in Plans}
    /\ liveResellers = Resellers
    /\ supplied = Plans
    /\ changes = 0
    /\ witnessed = [r \in Requests |-> {}]

Arrival(r) ==
    \E u \in Users :
        \/ \E p \in Plans :
              \/ \E mode \in Modes, asked \in Choices : SetAvailability(r, u, p, mode, asked)
              \/ \E priced \in BOOLEAN : EditPlan(r, u, p, priced)
        \/ \E b \in Businesses :
              \/ \E reseller \in Resellers, active \in BOOLEAN :
                    SaveBusiness(r, u, b, reseller, active)
              \/ DeleteBusiness(r, u, b)

Statement(r) ==
    \/ ViewPlan(r) \/ RejectRequest(r) \/ CleanForm(r) \/ NarrowChoice(r)
    \/ SelectEditablePlan(r) \/ LockPlan(r) \/ CheckEditablePlan(r) \/ CommitEdit(r)
    \/ CountBusinesses(r) \/ DeleteSelections(r) \/ ReadBusinesses(r)
    \/ InsertSelections(r) \/ CommitAvailability(r) \/ RecordRefusal(r)
    \/ LoadBusiness(r) \/ UpdateBusiness(r) \/ CommitBusiness(r)

\* A reseller without plans matters to nobody here.
Platform ==
    \E p \in Plans :
        \/ \E u \in Users \ Superusers : GrantOrRevoke(u, Owner[p])
        \/ ToggleReseller(Owner[p])
        \/ ToggleProvider(p)

\* No request is running; the site waits for more.
Quiescent == (\A r \in Requests : pc[r] \notin Working) /\ UNCHANGED vars

Next ==
    \/ \E r \in Requests : Arrival(r) \/ Statement(r) \/ Crash(r)
    \/ Platform
    \/ Quiescent

\* A live process runs its next statement and PostgreSQL grants a free lock.
Fairness == \A r \in Requests : WF_vars(Statement(r))

Spec == Init /\ [][Next]_vars

FairSpec == Spec /\ Fairness

-----------------------------------------------------------------------------
(* Properties.                                                             *)

\* The shape of the state; a form passes on no more than was posted.
TypeOK ==
    /\ business \in [Businesses -> BusinessRow]
    /\ offer \in [Plans -> Offer]
    /\ price \in [Plans -> Requests \cup {None}]
    /\ audit \subseteq AuditEvents
    /\ planLock \in [Plans -> Requests \cup {None}]
    /\ businessLock \in [Businesses -> Requests \cup {None}]
    /\ pc \in [Requests -> {"idle"} \cup Working \cup Answered]
    /\ req \in [Requests -> Request]
    /\ reads \in [Requests -> Reads]
    /\ \A r \in Requests : /\ reads[r].chosen \subseteq reads[r].ids
                           /\ reads[r].ids \subseteq req[r].asked
    /\ admins \subseteq Users \X Resellers
    /\ liveResellers \subseteq Resellers
    /\ supplied \subseteq Plans
    /\ changes \in 0..MaxChanges
    /\ witnessed \in [Requests -> SUBSET (Businesses \X BusinessRow)]

\* Moving a business never takes it away from a plan whose selection of it is
\* already committed, however the selection and the move overlapped
\* (catalog_protect_available_business_owner reads committed rows only; the
\* foreign key of a selection waits for a move that has passed it).
MovesStrandNothing ==
    [][\A p \in Plans : \A s \in offer[p].selected :
          business[s.business].reseller = Owner[p]
              => business'[s.business].reseller = Owner[p]]_vars

\* "plan and business must belong to the same reseller"
\* (catalog_validate_business_availability), of every committed selection.
SelectedWithinReseller ==
    \A p \in Plans : \A b \in Selected(p) : business[b].reseller = Owner[p]

\* What a plan is offered to is one request's answer: no selection of an
\* earlier request is left among its own, and none beside "all businesses"
\* (set_plan_availability's save, delete and bulk_create).
AvailabilityIsOneRequests ==
    \A p \in Plans : \A s \in offer[p].selected :
        s.by = offer[p].by /\ offer[p].mode = "selected_businesses"

\* The form and set_plan_availability run their query over the businesses four
\* times.  A business that was asked for and is selected was active in the
\* plan's reseller at some instant of the request; one that was dropped without
\* a word was not, at some other.
EveryChoiceExplained ==
    \A r \in Requests :
        pc[r] = "ok" /\ req[r].op = "set_availability"
                     /\ req[r].mode = "selected_businesses" =>
            \A b \in req[r].asked :
                \E row \in BusinessRow :
                    /\ <<b, row>> \in witnessed[r]
                    /\ b \in reads[r].chosen <=>
                          row = [reseller |-> Owner[req[r].plan], active |-> TRUE,
                                 deleted |-> FALSE]

\* "Reseller edits preserve existing internal pricing": a price changes only in
\* the commit of a platform operator, though update_plan writes the column in
\* every edit.
ResellersPreservePricing ==
    [][\A p \in Plans : price'[p] # price[p] =>
          \E r \in Requests : /\ pc[r] = "commit" /\ pc'[r] = "ok"
                              /\ req[r].actor \in Superusers
                              /\ price'[p] = r]_vars

SuccessAction(r) ==
    CASE req[r].op = "set_availability" -> "plan.availability_updated"
      [] req[r].op = "edit_plan" -> "plan.updated"
      [] OTHER -> BusinessAction(r)

\* Refused by update_plan, or by the view.
RefusalRecorded(r) ==
    \/ /\ pc[r] \in {"denied", "invalid"}
       /\ req[r].op = "edit_plan"
       /\ reads[r].refusal # "none"
    \/ /\ pc[r] = "denied"
       /\ req[r].plan # None
       /\ reads[r].refusal = "none"

Told(r) == {e.action : e \in {f \in audit : f.request = r}}

\* Success evidence exists once for what was committed and is gone with what was
\* rolled back, by a refusal, by a trigger or by a crash; what the views and
\* update_plan refuse is recorded although the refusal's savepoint was rolled
\* back (_catalog_change, _rejected_request).
EvidenceMatchesOutcome ==
    \A r \in Requests :
        /\ pc[r] = "ok" => Told(r) = {SuccessAction(r)}
        /\ RefusalRecorded(r) => Told(r) = {"plan.rejected"}
        /\ pc[r] \in {"denied", "invalid"} => Told(r) \subseteq {"plan.rejected"}
        /\ pc[r] \notin {"ok", "denied", "invalid"} => Told(r) = {}

\* "rejected privileged requests produce append-only audit evidence", whatever
\* the service refused: so says README.md:99-103.  The transaction around
\* set_plan_availability takes the evidence of its own refusals back.
RefusalsLeaveEvidence ==
    \A r \in Requests :
        pc[r] \in {"denied", "invalid"} /\ reads[r].refusal # "none"
            => "plan.rejected" \in Told(r)

\* Every request is answered: a plan is locked before a business is waited for,
\* and nobody who holds a business waits for a plan.
EveryRequestAnswered ==
    \A r \in Requests : pc[r] \in Working ~> pc[r] \in Answered
=============================================================================
