--------------------------- MODULE Organizations ---------------------------
(***************************************************************************)
(* Organizations and who administers them: the portfolio services of       *)
(* organizations/services.py, which a reseller's administrators call, and  *)
(* the operator's admin pages (organizations/admin.py), statement by       *)
(* statement, for one reseller, one business of it, one provider, the      *)
(* contract of the two, and other resellers, providers and businesses of   *)
(* the same reseller, whose names have to differ from theirs.              *)
(*                                                                         *)
(* The services lock the row they change and judge it again under the      *)
(* lock; what makes it the actor's business is read by the same statement  *)
(* without locks.  The pages load a row without a lock and write all of it *)
(* back.  Rows change when their transaction commits.                      *)
(***************************************************************************)
EXTENDS Naturals, FiniteSets

CONSTANTS
    Requests,     \* requests to the site
    Users,        \* users who may administer the reseller
    Operators,    \* the platform's
    Assignments,  \* keys of rows of ScopedAssignment for the reseller
    OtherKind,    \* the kind of each other organization
    Texts,        \* names, or contact details, of an organization
    Edits,        \* those that portfolio requests write
    Forms,        \* what the pages of organizations are saved with
    Starts,       \* the rows there may be at first
    Ops,          \* operations that arrive
    None          \* no request, no text

ASSUME NoneAssumption == None \notin Requests \cup Users \cup Assignments \cup Texts

Named == {"reseller", "business", "provider"}

Organizations == Named \cup {"contract"} \cup DOMAIN OtherKind

ASSUME OtherKindAssumption ==
    /\ OtherKind \in [DOMAIN OtherKind -> Named]
    /\ DOMAIN OtherKind \cap (Named \cup {"contract"}) = {}

\* The two tables are two: no grant is an organization.
ASSUME KeysAssumption == Organizations \cap (Assignments \cup {None}) = {}

VARIABLES
    row,         \* the organizations
    assignment,  \* the grants of the reseller
    audit,       \* events of audit/services.py
    lock,        \* who holds the lock of each row
    inserting,   \* who has inserted the contract and not committed
    granting,    \* who has inserted a grant of each user and not committed
    pc,          \* the statement each request executes next
    req,         \* what each request asks for
    reads,       \* the row it has loaded
    before       \* history: the requests answered before each one arrived

rows == <<row, assignment, audit>>
locks == <<lock, inserting, granting>>
vars == <<rows, locks, pc, req, reads, before>>

-----------------------------------------------------------------------------
(* Rows and requests.                                                      *)

Kind(o) == IF o \in DOMAIN OtherKind THEN OtherKind[o] ELSE o

\* Those that must not have the same name: the names of resellers, of providers and
\* of the businesses of a reseller are unique.
Peers(o) == {p \in Organizations \ {o} : Kind(p) = Kind(o)}

Fields == {"text", "active", "deleted"}

\* No row yet (of the contract).
NoRow == [text |-> None, active |-> FALSE, deleted |-> FALSE]

\* text: its name, or the contact details of a contract.
Row == [text : Texts, active : BOOLEAN, deleted : BOOLEAN] \cup {NoRow}

Stored(o) == row[o] # NoRow

NewContract(text) == [text |-> text, active |-> TRUE, deleted |-> FALSE]

Grant == [user : Users \cup {None}, state : {"absent", "active", "revoked"}]

NoGrant == [user |-> None, state |-> "absent"]

ASSUME EditsAssumption == Edits \subseteq Texts

ASSUME FormsAssumption ==
    /\ Forms \subseteq [object : Organizations, text : Texts, active : BOOLEAN, moves : BOOLEAN]
    /\ \A form \in Forms : form.moves => form.object = "contract"

ASSUME StartsAssumption ==
    /\ Starts \subseteq [row : [Organizations -> Row], assignment : [Assignments -> Grant]]
    /\ \A s \in Starts, o \in Organizations : \A p \in Peers(o) :
          s.row[o] = NoRow \/ s.row[o].text # s.row[p].text

Portfolio == {"edit_business", "edit_contract", "create_contract", "deactivate_contract"}

Pages == {"add_contract", "save", "delete", "grant", "revoke"}

\* object: the organization or the grant that the request is about; user: whom
\* a grant is for; moves: the contract's page names another business or provider.
Request == [op : Portfolio \cup Pages \cup {"none"}, actor : Users \cup Operators \cup {None},
            object : Organizations \cup Assignments \cup {None}, user : Users \cup {None},
            text : Texts \cup {None}, active : BOOLEAN, moves : BOOLEAN]

NoRequest == [op |-> "none", actor |-> None, object |-> None, user |-> None,
              text |-> None, active |-> TRUE, moves |-> FALSE]

Working == {"select", "lock", "provider", "clean", "cleanName", "insert", "check", "load",
            "form", "update", "index", "identity", "validate", "insertGrant", "commit"}

Answered == {"ok", "denied", "invalid", "error", "crashed"}

Live(r) == r.active /\ ~r.deleted

HasGrant(u) == \E a \in Assignments : assignment[a] = [user |-> u, state |-> "active"]

\* administered_businesses and administered_provider_assignments; no operator is
\* exempt.
InPortfolio(u, o) ==
    /\ HasGrant(u)
    /\ Live(row["reseller"])
    /\ Live(row[IF o = "contract" THEN "business" ELSE o])
    /\ o = "contract" => /\ Stored("contract") /\ ~row["contract"].deleted
                         /\ Live(row["provider"])

\* The condition of that query on the row it locks.
Visible(o) == IF o = "contract" THEN ~row[o].deleted ELSE Live(row[o])

Event(r, action, object, fields) ==
    [request |-> r, action |-> action, object |-> object, fields |-> fields]

-----------------------------------------------------------------------------
(* What every statement is built from.                                     *)

Release(r) ==
    /\ lock' = [o \in DOMAIN lock |-> IF lock[o] = r THEN None ELSE lock[o]]
    /\ inserting' = IF inserting = r THEN None ELSE inserting
    /\ granting' = [u \in Users |-> IF granting[u] = r THEN None ELSE granting[u]]

Goto(r, next) == pc' = [pc EXCEPT ![r] = next]

Continue(r, next) ==
    /\ Goto(r, next)
    /\ UNCHANGED <<rows, locks, req, reads, before>>

\* The transaction rolls back.
Refuse(r, why) ==
    /\ Goto(r, why)
    /\ Release(r)
    /\ reads' = [reads EXCEPT ![r] = NoRow]
    /\ UNCHANGED <<rows, req, before>>

\* The transaction commits what it wrote, with its event.
Commit(r, newRow, newAssignment, events) ==
    /\ row' = newRow
    /\ assignment' = newAssignment
    /\ audit' = audit \cup events
    /\ Goto(r, "ok")
    /\ Release(r)
    /\ reads' = [reads EXCEPT ![r] = NoRow]
    /\ UNCHANGED <<req, before>>

\* UPDATE, or SELECT FOR UPDATE, of a row whose lock is free.
TakeLock(r, o, next) ==
    /\ lock[o] = None
    /\ lock' = [lock EXCEPT ![o] = r]
    /\ Goto(r, next)
    /\ UNCHANGED <<rows, inserting, granting, req, before>>

Arrive(r, request, first) ==
    /\ pc[r] = "idle"
    /\ request.op \in Ops
    /\ req' = [req EXCEPT ![r] = request]
    /\ Goto(r, first)
    /\ before' = [before EXCEPT ![r] = {q \in Requests : pc[q] \in Answered}]
    /\ UNCHANGED <<rows, locks, reads>>

-----------------------------------------------------------------------------
(* Requests arrive.                                                        *)

\* business_edit, provider_edit and provider_contract_create look for the row
\* first; provider_contract_deactivate leaves that to the service.
EditBusiness(r, u, o, text) ==
    /\ Kind(o) = "business" /\ InPortfolio(u, o)
    /\ Arrive(r, [NoRequest EXCEPT !.op = "edit_business", !.actor = u,
                                   !.object = o, !.text = text], "select")

EditContract(r, u, text) ==
    /\ InPortfolio(u, "contract")
    /\ Arrive(r, [NoRequest EXCEPT !.op = "edit_contract", !.actor = u,
                                   !.object = "contract", !.text = text], "select")

CreateContract(r, u, text) ==
    /\ InPortfolio(u, "business")
    /\ Arrive(r, [NoRequest EXCEPT !.op = "create_contract", !.actor = u,
                                   !.object = "business", !.text = text], "select")

DeactivateContract(r, u) ==
    /\ Stored("contract")
    /\ Arrive(r, [NoRequest EXCEPT !.op = "deactivate_contract", !.actor = u,
                                   !.object = "contract"], "select")

\* The pages of the admin site.
AddContract(r, u, text) ==
    Arrive(r, [NoRequest EXCEPT !.op = "add_contract", !.actor = u,
                                !.object = "contract", !.text = text], "check")

SavePage(r, u, form) ==
    /\ Stored(form.object)
    /\ Arrive(r, [NoRequest EXCEPT !.op = "save", !.actor = u, !.object = form.object,
                                   !.text = form.text, !.active = form.active,
                                   !.moves = form.moves], "load")

DeletePage(r, u, o) ==
    /\ Stored(o)
    /\ Arrive(r, [NoRequest EXCEPT !.op = "delete", !.actor = u, !.object = o], "load")

GrantPage(r, u, user) ==
    Arrive(r, [NoRequest EXCEPT !.op = "grant", !.actor = u, !.user = user], "validate")

RevokePage(r, u, a) ==
    /\ assignment[a].state # "absent"
    /\ Arrive(r, [NoRequest EXCEPT !.op = "revoke", !.actor = u, !.object = a], "load")

-----------------------------------------------------------------------------
(* The portfolio services.                                                 *)

\* The query reads the portfolio as of its start ...
SelectScoped(r) ==
    /\ pc[r] = "select"
    /\ IF InPortfolio(req[r].actor, req[r].object) THEN Continue(r, "lock")
                                                   ELSE Refuse(r, "denied")

AfterLock(r) ==
    CASE req[r].op = "create_contract" -> "provider"
      [] req[r].op = "deactivate_contract" -> "check"
      [] req[r].op = "edit_business" -> "cleanName"
      [] OTHER -> "commit"

\* Mutant: the row is not judged again once the lock is granted.
LockRowUnseen(r) ==
    LET o == req[r].object IN
        /\ pc[r] = "lock"
        /\ TakeLock(r, o, AfterLock(r))
        /\ reads' = [reads EXCEPT ![r] = row[o]]

\* ... and waits for the lock of its row, which it judges again.
LockRow(r) ==
    LET o == req[r].object IN
        /\ pc[r] = "lock"
        /\ lock[o] = None
        /\ IF ~Visible(o) THEN Refuse(r, "denied")
           ELSE /\ TakeLock(r, o, AfterLock(r))
                /\ reads' = [reads EXCEPT ![r] = row[o]]

FindProvider(r) ==
    /\ pc[r] = "provider"
    /\ IF Live(row["provider"]) THEN Continue(r, "clean") ELSE Refuse(r, "invalid")

\* contract.full_clean(): no contract of the two yet.
CleanContract(r) ==
    /\ pc[r] = "clean"
    /\ IF Stored("contract") THEN Refuse(r, "invalid") ELSE Continue(r, "insert")

\* Another organization has the name.
Taken(o, text) == \E p \in Peers(o) : row[p].text = text

\* Mutant: the business is saved without full_clean.
CleanNothing(r) ==
    /\ pc[r] = "cleanName"
    /\ Continue(r, IF req[r].text = reads[r].text THEN "commit" ELSE "update")

\* business.full_clean(), whatever has changed; save() only when something has.
CleanName(r) ==
    /\ pc[r] = "cleanName"
    /\ IF Taken(req[r].object, req[r].text) THEN Refuse(r, "invalid")
       ELSE Continue(r, IF req[r].text = reads[r].text THEN "commit" ELSE "update")

\* What the insert of the contract's only key meets in the unique index.
InsertContract(r) ==
    /\ pc[r] = "insert"
    /\ inserting = None
    /\ IF Stored("contract") THEN Refuse(r, "error")
       ELSE /\ inserting' = r
            /\ Goto(r, "commit")
            /\ UNCHANGED <<rows, lock, granting, req, reads, before>>

\* What contracts are checked for before anything is written: one that is to be
\* deactivated is active, one that is added by a page does not exist.
CheckContract(r) ==
    /\ pc[r] = "check"
    /\ IF req[r].op = "add_contract"
          THEN IF Stored("contract") THEN Refuse(r, "invalid") ELSE Continue(r, "insert")
          ELSE IF reads[r].active THEN Continue(r, "commit") ELSE Refuse(r, "invalid")

Changed(old, new) == {f \in Fields : old[f] # new[f]}

\* An edit saves, and records, the fields that differ from the row it loaded.
CommitEdit(r) ==
    LET o == req[r].object
        fields == Changed(reads[r], [reads[r] EXCEPT !.text = req[r].text])
    IN  /\ pc[r] = "commit"
        /\ req[r].op \in {"edit_business", "edit_contract"}
        /\ IF fields = {} THEN Commit(r, row, assignment, {})
           ELSE Commit(r, [row EXCEPT ![o].text = req[r].text], assignment,
                       {Event(r, "organization.updated", o, fields)})

CommitDeactivation(r) ==
    /\ pc[r] = "commit"
    /\ req[r].op = "deactivate_contract"
    /\ Commit(r, [row EXCEPT !["contract"].active = FALSE], assignment,
              {Event(r, "provider_contract.deactivated", "contract", {"active"})})

\* A lock that excludes the check of a foreign key: SELECT FOR UPDATE, or UPDATE
\* of the name, which is part of a unique key; of a business, which has a trigger,
\* any UPDATE that sets the name.
KeyLocked(o) ==
    /\ lock[o] # None
    /\ \/ req[lock[o]].op \in Portfolio
       \/ /\ req[lock[o]].op = "save"
          /\ Kind(o) = "business" \/ req[lock[o]].text # row[o].text

\* The rows that an insert refers to, other than one its request has locked.
Parents(r) ==
    CASE req[r].op = "add_contract" -> {"business", "provider"}
      [] req[r].op = "create_contract" -> {"provider"}
      [] req[r].op = "grant" -> {"reseller"}
      [] OTHER -> {}

\* Those it waits for when its foreign keys are checked, at the commit.
Renaming(r) == {lock[o] : o \in {p \in Parents(r) : KeyLocked(p)}}

CommitContract(r) ==
    /\ pc[r] = "commit"
    /\ req[r].op = "create_contract"
    /\ Renaming(r) = {}
    /\ Commit(r, [row EXCEPT !["contract"] = NewContract(req[r].text)], assignment,
              {Event(r, "provider_contract.created", "contract", Fields)})

-----------------------------------------------------------------------------
(* The admin pages.                                                        *)

CommitAdded(r) ==
    /\ pc[r] = "commit"
    /\ req[r].op = "add_contract"
    /\ Renaming(r) = {}
    /\ Commit(r, [row EXCEPT !["contract"] = NewContract(req[r].text)], assignment,
              {Event(r, "organization.created", "contract", Fields)})

\* Mutant: rows that are already deleted or revoked have pages too.
LoadAny(r) ==
    LET o == req[r].object IN
        /\ pc[r] = "load"
        /\ Goto(r, IF req[r].op = "save" THEN "form" ELSE "update")
        /\ reads' = [reads EXCEPT ![r] = IF o \in Assignments THEN NoRow ELSE row[o]]
        /\ UNCHANGED <<rows, locks, req, before>>

\* The page's object is loaded without a lock; has_change_permission and
\* has_delete_permission admit no row that is deleted or revoked.
Load(r) ==
    LET o == req[r].object
        closed == IF o \in Assignments THEN assignment[o].state = "revoked" ELSE row[o].deleted
    IN  /\ pc[r] = "load"
        /\ IF closed THEN Refuse(r, "denied")
           ELSE /\ Goto(r, IF req[r].op = "save" THEN "form" ELSE "update")
                /\ reads' = [reads EXCEPT ![r] = IF o \in Assignments THEN NoRow ELSE row[o]]
                /\ UNCHANGED <<rows, locks, req, before>>

\* The form is valid only when no other organization has the name.
ValidateForm(r) ==
    /\ pc[r] = "form"
    /\ IF Taken(req[r].object, req[r].text) THEN Refuse(r, "invalid")
       ELSE Continue(r, IF req[r].moves THEN "identity" ELSE "update")

\* organizations_provider_contract_identity refuses the update.
RefuseIdentity(r) ==
    /\ pc[r] = "identity"
    /\ lock[req[r].object] = None
    /\ Refuse(r, "error")

\* A page or an edit that changes the name.
Renames(r) ==
    /\ req[r].op \in {"edit_business", "save"}
    /\ Kind(req[r].object) # "contract"
    /\ req[r].text # row[req[r].object].text

\* UPDATE of the row, which waits for its lock, unless its own service has locked
\* it; the name, when it changes, is put into the unique index.
Update(r) ==
    LET o == req[r].object IN
        /\ pc[r] = "update"
        /\ lock[o] \in {None, r}
        /\ lock' = [lock EXCEPT ![o] = r]
        /\ Goto(r, IF Renames(r) THEN "index" ELSE "commit")
        /\ UNCHANGED <<rows, inserting, granting, req, reads, before>>

\* Its UPDATE has been executed and is not committed.
Writes(q) ==
    /\ req[q].op \in {"edit_business", "save", "delete"}
    /\ \/ pc[q] = "index"
       \/ pc[q] = "commit" /\ (req[q].op # "edit_business" \/ req[q].text # reads[q].text)

\* Those whose UPDATE of another organization has not been committed and gives or
\* takes the name.
InDoubt(r) ==
    {lock[p] : p \in
        {o \in Peers(req[r].object) :
            /\ lock[o] # None
            /\ Writes(lock[o])
            /\ \/ row[o].text = req[r].text
               \/ pc[lock[o]] = "commit" /\ req[lock[o]].text = req[r].text}}

\* The unique index waits for them and refuses a name that another one has.
IndexName(r) ==
    /\ pc[r] = "index"
    /\ InDoubt(r) = {}
    /\ IF Taken(req[r].object, req[r].text) THEN Refuse(r, "error") ELSE Continue(r, "commit")

\* The whole row is written: what the page says and what was loaded.
CommitSave(r) ==
    LET o == req[r].object
        saved == [reads[r] EXCEPT !.text = req[r].text, !.active = req[r].active]
        fields == Changed(reads[r], saved)
        action == IF "active" \notin fields THEN "organization.updated"
                  ELSE IF saved.active THEN "organization.reactivated"
                  ELSE "organization.deactivated"
    IN  /\ pc[r] = "commit"
        /\ req[r].op = "save"
        /\ Commit(r, [row EXCEPT ![o] = saved], assignment, {Event(r, action, o, fields)})

\* Mutant: soft_delete_organization writes the whole row that the page loaded.
CommitWholeDelete(r) ==
    LET o == req[r].object IN
        /\ pc[r] = "commit"
        /\ req[r].op = "delete"
        /\ Commit(r, [row EXCEPT ![o] = [reads[r] EXCEPT !.active = FALSE, !.deleted = TRUE]],
                  assignment,
                  {Event(r, "organization.soft_deleted", o, {"active", "deleted"})})

\* soft_delete_organization writes two fields.
CommitDelete(r) ==
    LET o == req[r].object IN
        /\ pc[r] = "commit"
        /\ req[r].op = "delete"
        /\ Commit(r, [row EXCEPT ![o].active = FALSE, ![o].deleted = TRUE], assignment,
                  {Event(r, "organization.soft_deleted", o, {"active", "deleted"})})

CommitRevocation(r) ==
    LET a == req[r].object IN
        /\ pc[r] = "commit"
        /\ req[r].op = "revoke"
        /\ Commit(r, row, [assignment EXCEPT ![a].state = "revoked"],
                  {Event(r, "assignment.revoked", a, {})})

\* The form of the new grant: validate_constraints.
ValidateGrant(r) ==
    /\ pc[r] = "validate"
    /\ IF HasGrant(req[r].user) THEN Refuse(r, "invalid") ELSE Continue(r, "insertGrant")

\* Grants of a user whose fate is not settled: the insert waits for them.
Unsettled(u) ==
    \/ granting[u] # None
    \/ \E a \in Assignments :
          assignment[a] = [user |-> u, state |-> "active"] /\ lock[a] # None

InsertGrant(r) ==
    LET u == req[r].user IN
        /\ pc[r] = "insertGrant"
        /\ ~Unsettled(u)
        /\ IF HasGrant(u) THEN Refuse(r, "error")
           ELSE /\ granting' = [granting EXCEPT ![u] = r]
                /\ Goto(r, "commit")
                /\ UNCHANGED <<rows, lock, inserting, req, reads, before>>

CommitGrant(r) ==
    /\ pc[r] = "commit"
    /\ req[r].op = "grant"
    /\ Renaming(r) = {}
    /\ \E a \in Assignments :
          /\ assignment[a].state = "absent"
          /\ Commit(r, row, [assignment EXCEPT ![a] = [user |-> req[r].user, state |-> "active"]],
                    {Event(r, "assignment.granted", a, {})})

-----------------------------------------------------------------------------
(* PostgreSQL.                                                             *)

\* Whom a request's statement waits for.
BlockedBy(r) ==
    CASE pc[r] \in {"lock", "update", "identity"} -> {lock[req[r].object]} \ {None, r}
      [] pc[r] = "index" -> InDoubt(r)
      [] pc[r] = "insert" -> {inserting} \ {None}
      [] pc[r] = "insertGrant" ->
           ({granting[req[r].user]} \ {None})
           \cup {lock[a] : a \in {b \in Assignments :
                   assignment[b] = [user |-> req[r].user, state |-> "active"] /\ lock[b] # None}}
      [] pc[r] = "commit" -> Renaming(r)
      [] OTHER -> {}

\* The deadlock detector aborts one transaction of a cycle.
DeadlockAbort(r) ==
    /\ \E S \in SUBSET Requests :
          /\ r \in S
          /\ \A q \in S : BlockedBy(q) \cap S # {} /\ \E p \in S : q \in BlockedBy(p)
    /\ Refuse(r, "error")

Crash(r) == pc[r] \in Working /\ Refuse(r, "crashed")

-----------------------------------------------------------------------------
Init ==
    /\ \E s \in Starts : row = s.row /\ assignment = s.assignment
    /\ audit = {}
    /\ lock = [o \in Organizations \cup Assignments |-> None]
    /\ inserting = None
    /\ granting = [u \in Users |-> None]
    /\ pc = [r \in Requests |-> "idle"]
    /\ req = [r \in Requests |-> NoRequest]
    /\ reads = [r \in Requests |-> NoRow]
    /\ before = [r \in Requests |-> {}]

Arrival(r) ==
    \/ \E u \in Users, o \in Organizations, text \in Edits : EditBusiness(r, u, o, text)
    \/ \E u \in Users, text \in Edits : EditContract(r, u, text) \/ CreateContract(r, u, text)
    \/ \E u \in Users : DeactivateContract(r, u)
    \/ \E u \in Operators, text \in Edits : AddContract(r, u, text)
    \/ \E u \in Operators, form \in Forms : SavePage(r, u, form)
    \/ \E u \in Operators, o \in Organizations : DeletePage(r, u, o)
    \/ \E u \in Operators, user \in Users : GrantPage(r, u, user)
    \/ \E u \in Operators, a \in Assignments : RevokePage(r, u, a)

Statement(r) ==
    \/ SelectScoped(r) \/ LockRow(r) \/ FindProvider(r) \/ CleanContract(r) \/ CleanName(r)
    \/ InsertContract(r) \/ CheckContract(r) \/ CommitEdit(r) \/ CommitDeactivation(r)
    \/ CommitContract(r) \/ CommitAdded(r) \/ Load(r) \/ ValidateForm(r) \/ RefuseIdentity(r)
    \/ Update(r) \/ IndexName(r) \/ CommitSave(r) \/ CommitDelete(r) \/ CommitRevocation(r)
    \/ ValidateGrant(r) \/ InsertGrant(r) \/ CommitGrant(r) \/ DeadlockAbort(r)

\* No request is running; the site waits for more.
Quiescent == (\A r \in Requests : pc[r] \notin Working) /\ UNCHANGED vars

Next == (\E r \in Requests : Arrival(r) \/ Statement(r) \/ Crash(r)) \/ Quiescent

Spec == Init /\ [][Next]_vars

-----------------------------------------------------------------------------
(* Properties.                                                             *)

\* The shape of the state.
TypeOK ==
    /\ row \in [Organizations -> Row]
    /\ assignment \in [Assignments -> Grant]
    /\ lock \in [Organizations \cup Assignments -> Requests \cup {None}]
    /\ inserting \in Requests \cup {None}
    /\ granting \in [Users -> Requests \cup {None}]
    /\ pc \in [Requests -> {"idle"} \cup Working \cup Answered]
    /\ req \in [Requests -> Request]
    /\ reads \in [Requests -> Row]
    /\ before \in [Requests -> SUBSET Requests]
    /\ \A e \in audit : e.request \in Requests /\ e.fields \subseteq Fields

Commits(r) == pc[r] # "ok" /\ pc'[r] = "ok"

\* The evidence of a change names every field that changed (an edit's no other),
\* unless a page was saved that had been loaded before somebody else's commit:
\* only that can bring a deleted organization back, or undo an edit, in silence.
EvidenceNamesChanges ==
    [][\A o \in Organizations : Stored(o) /\ row'[o] # row[o] =>
          LET changed == Changed(row[o], row'[o]) IN
          \E r \in Requests :
             /\ Commits(r)
             /\ \/ req[r].op = "save" /\ reads[r] # row[o]
                \/ \E e \in audit' \ audit :
                      /\ e.request = r /\ e.object = o
                      /\ changed \subseteq e.fields
                      /\ req[r].op = "delete" \/ changed = e.fields]_vars

\* A portfolio service commits only to rows that nobody has deleted, and when the
\* actor's portfolio does not contain the row any more, that is because of
\* another request since this one arrived.
PortfolioActsInScope ==
    [][\A r \in Requests : Commits(r) /\ req[r].op \in Portfolio =>
          /\ Visible(req[r].object)
          /\ \/ InPortfolio(req[r].actor, req[r].object)
             \/ \E q \in Requests \ before[r] :
                   pc[q] = "ok" /\ req[q].op \in {"save", "delete", "revoke"}]_vars

Overlap(r, q) == r \notin before[q] /\ q \notin before[r]

\* Two events tell of one revocation or deletion only if their requests
\* overlapped or the organization was saved in between; of one deactivation by
\* the portfolio, which judges the contract under its lock, only if it was saved.
RepeatsOverlapped ==
    \A e, f \in audit :
        e.request # f.request /\ e.object = f.object /\ e.action = f.action =>
            \/ e.action \notin {"assignment.revoked", "organization.soft_deleted",
                                "provider_contract.deactivated"}
            \/ e.action # "provider_contract.deactivated" /\ Overlap(e.request, f.request)
            \/ \E g \in audit : g.object = e.object /\ req[g.request].op = "save"

\* Another request that overlapped has given another organization the name.
BeatenToName(r) ==
    /\ req[r].op \in {"edit_business", "save"}
    /\ \E q \in Requests :
          /\ pc[q] = "ok" /\ req[q].op \in {"edit_business", "save"} /\ Overlap(r, q)
          /\ req[q].object \in Peers(req[r].object) /\ req[q].text = req[r].text

\* An error that no view handles, a collision of unique keys or a deadlock, needs
\* an overlapping page that adds a row, or an overlapping request that has given
\* another organization the same name since full_clean found it free.
ErrorsAreContested ==
    \A r \in Requests : pc[r] = "error" =>
        \/ req[r].moves
        \/ req[r].op \in {"grant", "add_contract"}
        \/ \E q \in Requests : req[q].op = "add_contract" /\ Overlap(r, q)
        \/ BeatenToName(r)
=============================================================================
