# Formal verification of Picafresa

TLA+ specifications of the Picafresa Django services, the TLC instances that
check them, and TLAPS proofs of what matters most. Paths are relative to the
repository (`src/…` in `PROJECT.json`).

## 1. The system

Picafresa sells assistance *Plans* through *resellers* to *businesses*, whose
*members* (Afiliados) hold *Pólizas* (plan enrollments). It is one Django 6
application over PostgreSQL. Requests run concurrently in several processes.
There is no `ATOMIC_REQUESTS`: each service function opens its own
`transaction.atomic()`, under READ COMMITTED, and takes the row locks it wants
with `select_for_update()`. Triggers and constraints repeat some rules in the
database. There is no background work, no queue and no cache: everything that
is concurrent is two requests over the same rows.

| Component | State | Operations | Correct when |
|---|---|---|---|
| Plan versions (`catalog/services.py`) | `PlanVersion`, `PlanService` rows | `create_draft`, `update_draft`, `publish_draft`, `update_coverage_notes`, `update_coverage_presentation` | versions numbered 1, 2, 3 …; only the author edits; another person publishes, once; published terms frozen; evidence of every outcome; live scope |
| Plans and availability (`catalog/services.py`) | `Plan`, `PlanBusinessAvailability` | `create_plan`, `update_plan`, `set_plan_availability`, `resolve_available_plan_version`, `coverage_for_servicing` | provider and reseller permanent; pricing operator-only; selected businesses belong to the plan's reseller; servicing view only for the effective version |
| Pólizas (`enrollments/services.py`) | `PlanEnrollment`, `Beneficiary` | `create_enrollment`, `transition_enrollment`, `renew_enrollment`, `add_beneficiary` | legal lifecycle; one renewal per Póliza, continuing it without a gap; exceptions explained; eligibility seen |
| Calendar months (`enrollments/services.py`) | none (pure) | `add_calendar_months` | agrees with the calendar; terms are never empty; bounded drift, none before day 29 |
| Invitations (`enrollments/services.py`) | `Member.account` | `invite_member` with `create_user` and `issue_activation` | one account per member, one member per account; whoever is invited has a stored code until activated; codes in the mail are worth something |
| Accounts (`accounts/services.py`) | `User`, `AccountProof`, `AccountSession`, sessions | activation, password reset, email change, sessions, government identifiers | proofs single-use; no old session survives a reset, none with a tracked key a change of address; unique verified email |
| Organizations (`organizations/*`) | `Reseller`, `Business`, `AssistanceProvider`, `ProviderAssignment`, `ScopedAssignment` | portfolio edits, contracts, admin lifecycle, grants and revocations | nobody acts outside a scope it had; deleted rows stay untouched; every changed field is in the evidence; errors need a contest |
| Audit (`audit/*`) | `AuditEvent` | `record_privileged_event`, `record_user_security_event` | append-only; committed with what it records |
| PostgreSQL provisioning (`config/postgres.py`, `tools/`) | roles, databases | `provision_database`, `verify_database` | a completed run leaves what the application needs, however often it was interrupted or run at once; the application's role keeps least privilege; provisioning never locks itself out |
| Local demo seed (`organizations/management/…`) | demo rows | `seed_local_demo` | idempotent, never widens scope |

**How they interact.** The services call each other directly
(`renew_enrollment` → `create_enrollment` → `resolve_available_plan_version`;
`invite_member` → `issue_activation`; all → `audit`), inside one transaction.
They share rows: a plan row is what `create_draft`, `update_draft`,
`publish_draft`, `update_plan`, `set_plan_availability` and `renew_enrollment`
lock; the scope of every actor (`administered_resellers`,
`administered_businesses`) is read without locks and may change between two
statements of one request.

**What is hard.** Rows read before a lock is granted; liveness of resellers,
providers and grants that changes while a request waits; rejection evidence that
must survive the rollback of what it rejects; lock orders that differ between
services (coverage edits lock service → version → plan, the others plan →
version → services, and renewals lock whatever their join reads); admin pages that
load a row without a lock and write all of it back; mail that is sent before the commit; a process dying between two
transactions, or between two of the autocommitted statements of provisioning;
month ends along chains of renewals. `PROJECT.json` "hazards" lists each at its line.

## 2. The model of a transaction

All service modules model concurrency in the same way. A request is a process
with a program counter (`pc`), its parameters (`req`) and what its transaction
has read so far (`reads`). Each action is one SQL statement together with the
Python code up to the next one, because under READ COMMITTED a statement sees
what is committed when it starts. Three consequences are visible in every module:

- a row lock is a variable (`planLock`, `versionLock`, …) held from the statement
  that takes it until the transaction ends (`Release`); a statement that waits
  and then re-reads the row is modelled after the wait, and columns of *joined*
  rows that are not locked (`of=("self",)`) before it;
- the writes of a transaction become visible with its commit, so the commit is
  the action that applies them, together with the audit events of the same
  transaction; a trigger speaks at its own statement, a deferred foreign key at the
  commit, where it may have to wait (`Provisioning` and `AccountSessions` run in autocommit: there every
  statement is its own commit);
- an exception is an action that releases the locks and applies nothing.

A process may die at any statement (`Crash`). PostgreSQL's deadlock detection is
an action of its own where lock orders conflict (`DeadlockAbort`, in `PlanVersions`,
`Enrollments`, `AccountProofs` and `Organizations`). What other
parts of the system change meanwhile (grants, liveness of organizations,
contracts, availability, reassignment of a business) are environment actions that
count against `MaxChanges`. `witnessed` is a history variable: the facts that were
true at some instant between a request's arrival and its answer. The code
decides by unlocked reads of those facts, so "it was true at some instant of the
request" is the strongest promise it can keep, and the one that is checked.

## 3. Modules

| Module | Models | Reads with |
|---|---|---|
| `PublicationLedger` | abstract: what the drafting and publication services promise | — |
| `PlanVersions` | drafts, publication and coverage content of `catalog/services.py` | `PublicationLedger` (refined) |
| `PlanVersionsProofs` | TLAPS proofs about `PlanVersions` | `PlanVersions` |
| `CalendarMonths` | `add_calendar_months` and the Gregorian calendar it relies on | — |
| `RenewalChain` | terms of a Póliza renewed again and again | `CalendarMonths` |
| `PlanAvailability` | `set_plan_availability` and `update_plan` with their views and form, the admin page of a business, the triggers of migration 0004 | — |
| `PlanAvailabilityProofs` | TLAPS proofs about `PlanAvailability` | `PlanAvailability` |
| `PolicyLifecycle` | abstract: what the enrollment services promise | — |
| `Enrollments` | `enrollments/services.py` without invitations, `resolve_available_plan_version`, the trigger of migration 0002 | `CalendarMonths`, `PolicyLifecycle` (refined) |
| `EnrollmentsProofs` | TLAPS proofs about `Enrollments`, and about `CalendarMonths` and `RenewalChain` at its end | `Enrollments`, `RenewalChain` |
| `AccountLedger` | abstract: what the account services promise | — |
| `AccountProofs` | activation, password reset and change of address of `accounts/services.py`, and the operator's page | `AccountLedger` (refined) |
| `AccountTheorems` | TLAPS proofs about `AccountProofs` | `AccountProofs` |
| `AccountSessions` | sign-in, session tracking, sign-out and `invalidate_user_sessions` | — |
| `AccountSessionsProofs` | TLAPS proofs about `AccountSessions` | `AccountSessions` |
| `Invitations` | `invite_member` of `enrollments/services.py` with `create_user` and `issue_activation` | — |
| `InvitationsProofs` | TLAPS proofs about `Invitations` | `Invitations` |
| `Organizations` | `organizations/services.py`, the portfolio's views, the admin pages of organizations, contracts and grants, the trigger of migration 0003 | — |
| `OrganizationsProofs` | TLAPS proofs about `Organizations` | `Organizations` |
| `Provisioning` | `provision_database` and `verify_database` of `config/postgres.py` | — |
| `ProvisioningProofs` | TLAPS proofs about `Provisioning` | `Provisioning` |
| `MC…` | instances for TLC | the module they name |

**PlanVersions.** `row[v]` is a `PlanVersion` row with its `PlanService` rows
(`count`, `notes`, and a `generation` that stands for their primary keys, since
`update_draft` deletes and re-inserts them). `create_draft` is
`SelectEditablePlan` → `LockPlan` → `CheckEditablePlan` → `LatestNumber` →
`CommitDraft`; `update_draft` and `publish_draft` start with the unlocked
`Candidate` of `_locked_version` and end in `CommitUpdate` / `CommitPublish`;
`coverage_manage` goes twice through `SelectCoverage` … `CheckCoverage`
(`entry` 1 and 2: the notes, then the presentation) before one commit. A
refusal goes through `Refuse` (the savepoint rolls back) and `RecordRefusal`
(the second half of `_catalog_change`), whose record `coverage_manage`'s outer
transaction takes back.

**PlanAvailability.** `offer[p]` is a plan's availability with its
`PlanBusinessAvailability` rows, `business[b]` a `Business` row, `price[p]` the
request that set the plan's price. The view's part is `ViewPlan` (→
`RejectRequest`) → `CleanForm` → `NarrowChoice`; the services' is
`SelectEditablePlan` → `LockPlan` → `CheckEditablePlan` and then, for
availability, `CountBusinesses` → `DeleteSelections` (→ `ReadBusinesses` →
`InsertSelections`) → `CommitAvailability`. The query over the asked businesses
runs four times, each on its own snapshot. The admin page is `LoadBusiness` →
`UpdateBusiness` → `CommitBusiness`; saving writes the whole row, deleting two
columns. The first trigger is in `InsertSelections`, the second in
`UpdateBusiness`, and the deferred foreign key in `CommitAvailability`
(`KeyLocked`): an `UPDATE` whose `SET` list has a column of
`uq_business_reseller_name` locks the row against it. A reseller that posts a
price is refused by the view, so the same check in `update_plan` never refuses.

**Enrollments.** `policy[p]` is a `PlanEnrollment` row. `create_enrollment` is
`FindMember` → `FindPlan` → `FindBusiness` → `FindContract` → `FindVersion`
(→ `FindException`) → `InsertPolicy`, each on its own snapshot. The INSERT is where the
trigger compares the resellers; the row keeps to its transaction through the
audit INSERTs, and at the COMMIT the deferred foreign keys take business, member
and version `FOR KEY SHARE`, one after the other: `ShareBusiness` → `ShareMember` →
`CommitPolicy`. A business may therefore be moved after the trigger has looked.
`renew_enrollment` names no rows in its `select_for_update`, so it locks everything it
joins — `LockPolicy` → `LockMember` → `LockVersion` → `LockPlan` — and then runs the
same statements; the version it chooses and waits for at COMMIT may be another
than the one it has locked. `EditCoverage` and `EditDraft` are the requests of
`PlanVersions` as they look from here: the first locks version then plan, the second
plan then version (`EndCatalog` ends both; what they write is the other module's
business). With them and with each other renewals can deadlock (`DeadlockAbort`).
`InsertRefusal` holds what can stop the insert: a year after 9999, the service's own
checks, `full_clean`, the trigger. `audit` events keep the `from` and `to` of a
transition because the lifecycle that `PolicyLifecycle` promises is about that
evidence.

**CalendarMonths, RenewalChain.** Dates are records; months are counted from
January of year 0, so that `AddCalendarMonths` is the code's arithmetic on
`month_index`. A chain renews from its own end.

**AccountProofs.** `account[u]` is a `User` row, `proof[p]` an `AccountProof` row.
The three issuing services are `Find` → `InsertProof`, each its own transaction.
The three consuming services share their shape in the code and in the model:
`LockProof` → `LockUser` (→ `CheckEmail` → `UpdateEmail`) → `CloseSiblings`
(→ `Notify`) → `Commit`. An `UPDATE` of an address waits for the transactions that
touch the same key of the unique index (`Claimants`). The operator's page is
`Load` → `Save`, which writes the whole row back, with the address the form was posted
with. `older` is history: what had
been used when the code was issued.

**AccountSessions.** Nothing there runs in a transaction, so each statement of
`login()`, the middlewares and `invalidate_user_sessions` commits by itself. A
session row is `empty` from `cycle_key` until `SessionMiddleware` stores it;
`hash` is the password it was signed in with. Signing in, or activating, in a browser
that holds a session of another account (`over`) makes Django's `login()` flush that
session instead of cycling its key: the middleware then finds no key, and the new
session has no `AccountSession` row before its next page. `untracked` and `listed` are
history: the rows an invalidation deleted without having read them, and what was
tracked when each request arrived. The commits of `AccountProofs` are single
steps there.

**Invitations.** `member[m]` and `account[a]` are rows; a transaction that has
inserted an account or set a member's is found by its `pc` and `reads` (`Inserting`,
`Linking`, `Rivals`), so the unique indexes need no variables. `invite_member` is
`FindMember` → `ReviewIdentity` → `LookupAccount` → `CheckLinked` or
`InsertAccount` → `LinkMember` (→ `IssueActivation`) → `Commit`. A code is `mailed`
by `IssueActivation` and stored (`proof`) by `Commit`; when the operator has deleted the
account meanwhile (`DeleteAccount`, which takes its codes along), the foreign keys
make that commit fail (`FailCommit`). A code expires (`Expire`) and then activates
nothing. `Activate`, `ChangeEmail`, `ConfirmEmail`, `Review` and `AddAccount` are the commits
of the account services and of the operator's pages; nothing under `src/` deletes a
member, and `DeleteMember` is the database's.

**Organizations.** `row[o]` is the reseller, a business of it, a provider, their
contract, or another organization with a name (`OtherKind`, such as a second business of
the reseller); `text` stands for a name, or the contact details of a contract;
`assignment[a]` for a `ScopedAssignment` of the reseller. A portfolio service is
the view's lookup (in the arrival) → `SelectScoped` → `LockRow`, which waits and
judges only the locked row again → the checks of its own → its commit. A page is
`Load` (→ `ValidateForm`) → `Update` → `CommitSave`, which writes the whole loaded row, or
`CommitDelete`, which writes two columns. Names of resellers, of providers and of a
reseller's businesses are unique (`Peers`): `full_clean` and the form look for a name
without a lock (`CleanName`, `ValidateForm`), and the `UPDATE` waits at the index for who
has written the same name and not committed (`IndexName`, `InDoubt`) and fails if it
stays taken, with an error that the portfolio's views do not handle. `Renaming` is the
foreign key check at the commit of an insert.

**Provisioning.** Sixteen autocommitted statements over two connections and the
advisory lock, one action each, from `Start` to `Disconnect`, `CloseSchema` and
`GrantSchema`. `SetPassword` always fails: `config/postgres.py:250` passes the password of
`ALTER ROLE … PASSWORD %s` as a parameter, which psycopg 3 binds on the server, and
PostgreSQL takes no parameters in a utility statement. A command over a URL without a
password skips it. `ConnectAsApplication` → `Inspect` is `verify_database`. A `GRANT` or
`REVOKE` reads its catalog row and replaces it in two steps on the schema, where
no lock keeps runs apart. Databases next to the application's come and go
(`ChangeOther`).

## 4. What is checked

| Run | Instance | Shows |
|---|---|---|
| `drafts` | 3 requests, 3 users (one the operator), 1 plan, 2 version keys, 1 change | two-person publication; evidence tells the outcome; live scope for drafts; notes never reach a replaced service; every deadlock involves a coverage edit and nobody waits for ever; refinement of `PublicationLedger` (numbering, one publication, frozen terms) |
| `inactive_scope` | violation | a coverage edit commits under an inactive provider |
| `renewal_chain` | 32 start dates, renewals of 1, 2, 12, 13 months | the arithmetic agrees with stepping month by month; bounded drift, none before day 29 |
| `enrollments` | 2 requests of an administrator, 2 members with a Póliza each of two versions of a plan, a third version in draft, 4 keys, coverage and draft edits, 1 change | no service needs a trigger to notice a race, but for a business that moves; eligibility was seen; renewals are current; renewals deadlock in pairs over one plan, and somebody always goes on; refinement of `PolicyLifecycle` |
| `accounts` | 2 requests, 2 accounts, 2 codes, 7 starts, fairness | older codes die; deadlocks are between sibling codes; the replaced address is notified; refinement of `AccountLedger` (unique addresses among it); every request is answered |
| `sessions` | 3 requests, 3 session keys | a reset ends the old password's sessions; invalidated sessions stay out; who survives a change of address |
| `availability` | 2 requests of administrator or operator, 2 businesses, 2 resellers, 1 change, fairness | selections are replaced as a whole; silent drops had a reason; no move strands a committed selection; success leaves its event, what rolls back nothing; every request is answered |
| `unrecorded_refusal` | violation | an availability change that the service refuses leaves no `plan.rejected` |
| `stray_selection` | violation | a selection commits for a business that has just left the reseller |
| `organizations` | 3 requests, 2 businesses of a reseller, with and without a contract, 3 grants, 3 texts | evidence names what changed, but for pages saved over another's commit; the portfolio stays in scope; repeated events overlapped; an error needs a page that adds a row, or another request that took the name meanwhile |
| `invitations` | 3 requests, 2 members with one address, 3 account keys, 4 starts, 2 changes | second invitations need an overlap, replaced accounts a moved address; codes in the mail are stored unless a process died or the account was deleted; who is invited has a stored code |
| `provisioning` | 2 runs, URLs without and with a password (2 of them), a new server or one set up by hand, 2 changes, fairness | a completed run is lasting; provisioning keeps its own access at every instant; errors come from a password in the URL or from outside, refusals from outside; no dead run keeps the others waiting |

**Why the bounds are enough to be interesting.** Two requests suffice to lose an
update, three to put an edit between another's read and its lock; the hazards in
`PROJECT.json` need at most three actors. One plan is enough because no
service touches two; two version keys let a second draft be numbered after a
first; two Pólizas of two versions of a plan, and a key for what renews each, let two
renewals deadlock; two businesses let
one be dropped from a selection that keeps the other; one surrounding change
splits any request in a before and an after. The platform operator, who differs
from an administrator in nothing but the scope there, and an explicit end date posted with an
enrollment (`ExplicitEnds`) are in `Enrollments` for the theorems only. `AccountProofs` starts from codes
that are already in the mail, `Enrollments` from Pólizas already issued,
`Invitations` from accounts that wait to be activated, `Provisioning` from a server
that somebody set up by hand, and `PlanAvailability` from plans already restricted (`Starts`,
`Offered`), so that two requests reach the races that would need three from an
empty database; the theorems of section 5 hold for any number. Each property has
a mutant of a definition, listed in `PROJECT.json`, that breaks it under the same
configuration. The bounds are the
constants `MaxServices`, `MaxChanges`, `MaxMonths`, `MaxYear`, the sets of keys
(an invitation that finds no free key of an account stops there), the forms that
pages are saved with (`Forms`, `Edits`) and the guard `KeysLeft`. `CHECK_DEADLOCK FALSE` appears only in
`renewal_chain.cfg` (a chain stops at `MaxMonths`); elsewhere `Quiescent` is the
site waiting for more requests.

**Liveness and fairness.** In the models that state liveness every request has a bounded
number of statements and never goes back, so it is answered if not all of them wait
for each other; section 5 proves both halves. `SomebodyGoesOn` of `PlanVersions` and
`Enrollments` needs no fairness: while a request is running some one is `Ready`, and
whoever is ready has a statement that is enabled (`DeadlockAbort` included, `Crash`
not). `AccountProofs`, `PlanAvailability` and `Provisioning` state it as a temporal property
under `FairSpec`, weak fairness of each request's statements (`Statement(r)`): a
process that lives runs its next statement, PostgreSQL grants a lock that is free,
and its detector aborts somebody in a cycle. Arrivals, crashes and changes by
others get none. Weak fairness suffices because locks are taken by finitely many
requests, so a lock that a request waits for is eventually free and stays free; in
`Provisioning`, where one fairness condition covers all runs, that includes the
advisory lock of a run that dies, which the server frees with its connection.

## 5. What is proved

`PlanVersionsProofs`, for any number of requests, users, plans and keys, under
the assumptions of `PlanVersions` (`None` is no element of the sets, superusers
are users, `MaxServices > 0`, and finitely many keys, since `KeysLeft` counts them):

- the inductive invariant is `TypeOK` with three parts: what the transaction of
  each request knows (`RequestOK`: a request past its lock holds it, and what it
  read under the lock is still true), what each row satisfies (`RowOK`: numbers
  are the numbers of the plan's versions, the publisher is not the author) and how
  evidence and rows agree (`AuditOK`). `ConsecutiveNumbers` is not inductive by
  itself: it needs that the maximum a request read is still the maximum while
  it holds the plan lock, and that exactly one request holds it;
- from it: `TypeCorrect`, `NumbersConsecutive`, `PublishedOnlyOnce`,
  `TwoPersons`, the action property `TermsFrozen`, and `Refinement`
  (`Spec => ImplementsLedger`: commits map to ledger steps and every other
  statement to a stutter);
- `HeldInv` adds who holds what: a request holds a plan or a version exactly at the
  statements where the code has it locked, a service only at such a statement
  (`LocksOwned`), and the service a coverage edit works on is still there. It
  settles three more: `DeadlockShape` (without coverage edits all locks are taken
  under the plan's; without edits and publications of drafts all are taken in the
  order service, version, plan; so a circle has one of each), `NotesStay`
  (nothing deletes the service between the check and the commit of its notes) and
  `EvidenceTellsOutcome` (what was recorded is what the rows show, through the savepoints;
  of a refused coverage edit it only says that it leaves nothing but a refusal);
- `ScopeInv` says of each lookup that what it read of the scope was true at some
  instant of the request (`LiveScopeSeen`). No more is true: see `inactive_scope`;
- `AnswersApproach` and `SomebodyAlwaysReady`: see "Progress" below.

The end of `EnrollmentsProofs`, over every date and number of months, from the
assumptions of `RenewalChain`: `SumIsValid`, `SumIsLater`, `TermsAreValid`, `DriftBound`
(renewing never loses more than three days against one long term, because a
chain only forgets the day of the month and never the month; none at all when
the chain starts on day 28 or earlier) and `SteppingAgrees`: the month that the
code computes with one division is the month that single steps lead to
(`MatchesStepping`, for every duration). `Stepped` is a recursive function; instead of
an induction the proof takes the least number of steps at which it could differ
from the arithmetic (`LeastNatural`), and finds that there is none.

`AccountTheorems`, for any number of requests, accounts, addresses and codes,
under the assumptions of `AccountProofs` (`None` is no element of the sets; every
start has typed rows and unique addresses; `Ops` are operations; the keys of codes
are finitely many):

- the inductive invariant `IInv` is the types of the rows (`Types`, `RowOK`) with
  what each request knows (`Knows`: past its lock it holds the code's row, which
  is still pending and for the same account; past the next it holds the account's
  row, whose address is the one it read; before its commit it holds every sibling
  code), who claims which address (`ClaimsOK`), and how used and pending codes
  relate (`UsedAreConsumed`, `PendingAreNewer`);
- `OlderProofsDie` is not inductive by itself: it needs that whatever is pending
  was issued after everything used for its account and purpose, which only holds
  because a commit consumes siblings whose rows it has locked and because the
  foreign key of a new code waits for the account's row. `EmailsAreUnique` needs
  `ClaimsOK`, since the checks of an address are unlocked reads;
- from it: `TypeCorrect`, `OlderCodesDie`, `AddressesStayUnique`, the action
  property `ReplacedAddressNotified`, and `Refinement` (`Spec => ImplementsLedger`);
- `OwnsInv`: a lock is held only by a request at a statement that needs it, and
  codes besides its own only after it has closed the siblings. A circle therefore has a
  request at `CloseSiblings`, whose locked sibling belongs to one that waits for the
  account's row it holds: the two are the whole circle (`DeadlocksArePairs`);
- `AnswersApproach` and `SomebodyAlwaysReady`: see "Progress" below.

`AccountSessionsProofs`, for any number of requests and session keys, under the
assumptions of `AccountSessions` (`None` is no request and no key; the sessions
there at first have keys of the model; `Ops` are operations):

- no lock helps here, so the invariant is about sessions rather than requests: a
  signed session carries the password its opener checked or set, and its key is
  tracked or has lost its track to an invalidation that never read it
  (`SessionOK`); a request knows whose key it has in hand (`SigningIn`) and which of
  the keys it read are gone (`Invalidating`). `Keeps` is the frame: a row once
  deleted stays deleted, and a track is lost only into `untracked`;
- from it: `OldPasswordsAreOut` (a session that still opens was signed in with the
  password in force), `KeysReadStayOut` (a session that an invalidation has read is
  never signed in again, also when its request stores it late) and
  `OnlyTracklessSurvive` (the two ways to outlive a change of address: an
  invalidation once deleted the session's row without having read it, or it was
  signed in over another account's session and no page of it had been answered,
  so that nobody had tracked it when the change arrived).

`PlanAvailabilityProofs`, for any number of requests, plans and businesses, under
the assumptions of `PlanAvailability` (`None` is no request and no plan, plans and
businesses have resellers, plans are offered to businesses of their own at first):

- the inductive invariant `IInv` is `TypeOK` with what each request knows
  (`RequestOK`) and has left in the audit log (`EvidenceOf`; the model keeps nothing of what
  `set_plan_availability` refuses, which `EvidenceMatchesOutcome` does not ask for). Past its lock it
  holds the plan, the price it read is the price, and what it deleted is all that
  is selected (`PlanHeld`); past its `UPDATE` it holds the business, and no plan
  that has selected it stays behind (`BusinessHeld`), because selections of a
  locked key wait for it (`KeyLocked`);
- `AvailabilityIsOneRequests` needs the second of these, since DELETE and
  `bulk_create` are statements of their own, and `MovesStrandNothing` the last,
  since the trigger looked at the selections a statement before the commit;
- `SeenInv` adds what the four snapshots of the query saw: whichever row explains why
  a business was kept or left out, it was there during the request;
- from them: `TypeCorrect`, `OneRequestsAnswer`, `EvidenceIsExact`, `ChoicesAreExplained`
  and the action properties `PricingPreserved` and `NothingStranded`; `HoldersInv` adds
  `AnswersApproach` and `SomebodyAlwaysReady` (see "Progress" below). That every selected business
  belongs to the plan's reseller (`SelectedWithinReseller`) is not among them:
  `stray_selection` refutes it, as `unrecorded_refusal` does `RefusalsLeaveEvidence`.

`InvitationsProofs`, for any number of invitations, members, accounts and
addresses, under the assumptions of `Invitations` (`None` is no element of the
sets; whoever has an account at first has an active one; the accounts there at
first have addresses of their own, as `uq_accounts_user_normalized_email` demands):

- the inductive invariant is `IInv` and `OnceInv` together. `IInv` is `TypeOK` with
  `InvitedHaveACode`, which account an invitation has in hand (`RequestOK`: one it
  found, which may have been deleted since, or one of its own) and where every
  mailed code is (`CodeOK`: stored, about to be stored by the commit of its request,
  lost with its process, or gone with an account that the operator deleted);
- `InvitedHaveACode` needs that an account which was read as active still is, unless
  the operator has reviewed or deleted it, and that the commit of an account which was
  not has a code in the mail. `MailedCodesAreStored` follows because between the mail
  and the commit nothing else fails: the commit does if the account is gone, and an
  account that the invitation itself has inserted is nobody else's to delete.
  Neither speaks of time: a code may have expired, and then the member, who has
  an account, is not invited again;
- `OnceInv` says of overlapping invitations of a member that no two can be on their
  way to different accounts: an account in hand was found under the address, or has been
  deleted since (`InHand`), a second insert of the address waits for the first (`Apart`),
  an invitation that has passed `CheckLinked` has not been overtaken (`PastCheck`), and
  two events that name different accounts have one whose address moved (`EventOK`).
  `IInv` needs it because a deleted account's key may be used again;
- from them: `TypeCorrect`, `CodesAreStored`, `NobodyIsLeftOut`, `OneAccountEach`.

`OrganizationsProofs`, for any number of requests, users, grants, texts and forms,
under the assumptions of `Organizations` (`None` is no element of the sets, grants
are no organizations, forms and starts are typed):

- `IInv` is `TypeOK` with what each request knows (`RequestOK`: a portfolio service
  past its lock holds the row as it read it, and the row is visible; a page before
  its commit holds its row; a contract before its commit is the only one inserted)
  and whom to blame when the portfolio has changed (`ScopeOK`): `Interfered` names
  a save, deletion or revocation that was not answered when the request arrived;
- `EndingsInv`: what was ended once is recorded as such to whoever comes later, unless a
  page has saved it back; two ends of one thing therefore overlapped
  (`RepeatsExplained`);
- `ErrorsInv`: which statements can hold a lock at all (`OwnsOK`), and that a contract
  which a portfolio service did not see was added by an overlapping page, and a name that
  it found free given by an overlapping request (`FaultOK`). From it `ErrorsExplained`, over
  the members of a deadlock (`HoldersWaiting`: whoever is waited for while waiting has
  a contract to insert or a row to commit, or changes a name): who inserts or commits
  a contract has met a page that adds it (`InserterMetAddition`, `CommitterMetAddition`), and
  who waits for a name whose writer waits as well has been beaten to it (`RenamerBeaten`);
- from `IInv`: `TypeCorrect` and the action properties `ChangesAreNamed` (an edit's
  evidence is exact because the row it compares with is the one under its lock) and
  `PortfolioInScope` (edits, deactivations, grants and new contracts take nothing
  out of anybody's portfolio).

`EnrollmentsProofs`, for any number of requests, users, members, plans, versions
and keys, under the assumptions of `Enrollments` (`None` is no request and no key;
versions have a plan, a positive number of months and real dates; of any versions
one has the highest number; rows at first are typed and end after they start; the
keys are finitely many):

- `IInv` is `TypeOK` with what each request asks for (`KindOK`: its Póliza is issued,
  and what a renewal copied from it is still so), which statement it can be at
  (`PlaceOK`), what its locks protect (`HoldsOK`: a transition holds the row whose
  status it read, a renewal also the plan whose flag and version it read) and what it has
  witnessed (`SeenOK`);
- `BackstopsStaySilent` needs all of them: the trigger agrees with the service because
  the status that was judged is the one that is overwritten (`UpdateFinds`), because
  the terms of an issued Póliza never change (`RenewalContinues`), and because only a
  business that moves separates the resellers (`RefusalTells`);
- from it: `TypeCorrect`, `SilentBackstops`, `SeenEligibility`, the action properties
  `CurrentRenewals`, and `Refinement` (`Spec => ImplementsLifecycle`: `UpdateStatus` is a
  move, `CommitPolicy` an issue, everything else a stutter). That a Póliza is of a plan of
  its business's reseller is not among them: see section 6;
- `OwnedInv` is who holds what, exactly (`LocksOwned`): the enrollment, then the member,
  then the version, then the plan, and edits of drafts the plan before the version.
  On it rest `DeadlockShape` (nobody who waits for an enrollment or a member is waited
  for in a circle; everybody else in it waits for the plan or, holding the plan, for a
  version; only one can hold the plan, so the circle is a pair) and
  `SomebodyAlwaysReady`; `AnswersApproach` rests on `IInv`: see "Progress" below.

`ProvisioningProofs`, for any number of runs, databases and passwords, under the
assumptions of `Provisioning` (`None` is no run and no password; the server has
finitely many databases; the provisioning role can connect to every one at first):

- `IInv` is `TypeOK` with what each run has achieved by the statement it is at
  (`ProgressOK`, `ClosedOK`; past `SetPassword` its
  URL has no password, `PasswordOK`), what its lock protects (`PlaceOK`: who
  is about to create a role or a database has found none and holds the lock),
  which database it is closing (`ClosingOK`) and why it ended (`EndOK`);
- `ServerKept` is the argument: no statement of any run makes a confined role wide,
  opens what was closed or takes a grant back, so the achievements of one run are
  safe from every other, also where no lock is held. `AdminKeepsConnect` adds that
  the grant comes before the revocation, and that only a database which has been
  dropped and created again in between escapes it (`AdminOK` remembers whose list
  it was on);
- from it: `TypeCorrect`, `LastingSuccess`, `AdminConnects`, `ErrorsExplained`,
  `RefusalsExplained`; `LoopInv` (a run holds the advisory lock only at its statements,
  and is in the loop only while it has a database to close) adds `EndsApproach` and
  `SomebodyAlwaysReady`.

**Progress.** Two safety theorems carry the liveness of the five models that state it, for
any number of requests:

- *statements run out* (`AnswersApproach`; `EndsApproach` for provisioning). `Ahead(r)`
  bounds the statements that a request has still to run; every statement and every crash
  lowers it, nobody else raises it, and an answer is final. In `PlanVersions` the two
  passes of `coverage_manage` count apart, and an edit of a draft, which locks the
  services it deletes one at a time, also gets closer with each (`Unlocked`). In
  `Provisioning` each database that is still to be closed counts for two;
- *somebody is ready* (`SomebodyAlwaysReady`). Where locks are taken in one order the
  holder furthest down waits for nobody: `PlanAvailability` and `Provisioning`. In `AccountProofs` whoever waits for sibling codes waits for a request in
  a deadlock of two with it, or for one that commits. In `PlanVersions` and `Enrollments` the orders
  conflict, and the argument is about sets: only finitely many requests have arrived, so
  if all of them waited there would be a smallest set each of which waits within it;
  that is a `Cycle`, and PostgreSQL aborts one of its members. Inserts also need a key
  (`KeysSuffice`, `KeyLeft`): `KeysLeft` lets no more requests arrive than there are
  keys for.

What joins the halves is that a ready request has an enabled statement. That is about
`ENABLED` and so is checked by TLC: directly in `SomebodyGoesOn`, and through
`EveryRequestAnswered` and `EveryRunEnds` for the other three.

Only model-checked, therefore: the three liveness properties, since fairness is defined by
`ENABLED`, for which TLAPS has no rules; and the half of `SomebodyGoesOn` that mentions it.
Every other invariant and action property that a passing run checks is a theorem.

## 6. Disagreements found

Three violation runs, one for each promise:

1. `unrecorded_refusal` — `README.md:99-103` promises append-only evidence of rejected
   privileged requests and forbids wrapping the entry points in a transaction that
   rolls it back. `set_plan_availability` is wrapped so by its own
   `@transaction.atomic` (`catalog/services.py:395`), and so are the coverage services by
   `coverage_manage` (`catalog/views.py:245`, the exception for coverage in
   `EvidenceMatchesOutcome` of `PlanVersions`).
2. `inactive_scope` — `README.md:90-91` says inactive providers block mutations;
   the coverage services never look at the provider (`catalog/services.py:276`).
3. `stray_selection` — `catalog/migrations/0004_enforce_availability_scope.py:21`
   says that "plan and business must belong to the same reseller", and
   `tests/test_catalog.py:660-664` expects the database to keep both sides of it;
   a selection that is inserted but not committed and a business that moves
   meanwhile pass both triggers.

More that the models show; where a passing property makes room for it, it is named:

- *a Póliza across resellers.* `enrollments/migrations/0002_protect_enrollment_terms.py:70`
  says that "plan enrollment tenant and version terms must match", but the trigger
  reads the business at the INSERT (`enrollments/services.py:214`) without a lock: moved
  between that and the COMMIT, the business keeps a Póliza of a plan of its former
  reseller (`CommitPolicy` does not look at `sameReseller`). Moved earlier, the trigger
  refuses with an error that no view handles (`BackstopsStaySilent`);
- *a session that survives.* `tests/journeys/test_member_accounts.py:162` names a test that a
  change of address revokes sessions. One that was signed in over a session of another
  account has no key when the middleware looks (`accounts/middleware.py:13`), and one whose
  `AccountSession` row an overlapping invalidation deleted without having read it has no
  row: both survive (`SurvivorsLostTheirTrack`);
- *staging with a password.* `README.md:155-170` provisions staging over a URL with a
  password; `config/postgres.py:250` sends it as a parameter of a utility statement, which
  PostgreSQL refuses, so that every such run stops there, with the role created and
  confined and no database (the first exception in `ErrorsAreExplained`);
- *two businesses of one name.* Two edits of a reseller's administrators that give two
  businesses one name both pass `full_clean`; the index refuses the second with an
  `IntegrityError` that `organizations/views.py:78-86` does not handle (`ErrorsAreContested`);
- *renewals that deadlock.* `enrollments/services.py:278` locks the version rows of its
  join too, and COMMIT waits for another version: two renewals, or a renewal and a
  coverage edit, abort one another (`DeadlocksCrossOnePlan`);
- *a silent restoration.* A page saved over somebody else's soft deletion brings the
  organization back without evidence of it (`EvidenceNamesChanges`);
- *a code that nobody knows, or that is too old.* Deleting an account under a running
  invitation fails it after its mail (`MailedCodesAreStored`), and a member whose code has
  expired is not invited again (`enrollments/services.py:339`; `accounts/services.py:266`).

## 7. Not modelled, and why

Forms, templates and layouts of admin pages (their effect on which requests can
arrive is in the arrival actions); settings and process entry points (no
behaviour); contact snapshots of a Póliza, the texts of terms and which fields of
an organization an edit touches (data the properties do not tell apart); the
request context of audit events. Single guarded inserts or reads without a race of
their own: `create_plan`, `coverage_for_servicing`, `add_government_identifier`. Of
`Organizations`, the bulk action of the admin list (one deletion or revocation after
another, each its own transaction of the modelled kind), the pages that add
resellers, providers and businesses, moving a business by its page
(`PlanAvailability` and `Enrollments` have that) and the grants of other roles than
the reseller's administrator. Of `Provisioning`, the parsing and
validation of URLs, which decide only which commands can start, and the databases
every server has. The demo seed is a tool for local development: one transaction that
locks the operator's row first, which no service of the site calls.

## 8. Plan

Done, in the order the system's behaviour matters: versions → calendar →
Pólizas → accounts and sessions → availability → provisioning → organizations →
invitations, and their proofs. Next:

1. `DemoSeed` — `seed_local_demo`, the least exposed of what is left.
