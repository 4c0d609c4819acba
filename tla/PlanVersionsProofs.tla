------------------------ MODULE PlanVersionsProofs ------------------------
(***************************************************************************)
(* Safety of PlanVersions for every set of requests, users, plans and      *)
(* versions.  The inductive invariant IInv says what each request knows    *)
(* and which locks it holds at each statement; the properties follow from  *)
(* it because only the holder of a lock changes the rows it protects.      *)
(* Two further invariants rest on it: HeldInv, who holds which lock, for   *)
(* services and deadlocks, and ScopeInv, what each request has seen of the *)
(* organizations.                                                          *)
(***************************************************************************)
EXTENDS PlanVersions, FiniteSetTheorems, WellFoundedInduction, TLAPS

DraftSteps == {"deleteServices", "draftChecks"}

\* Statements run under the plan's lock, and under the version's, by the
\* draft operations; they hold both at their commit too.
UnderPlanLock == {"checks", "latest", "lockVersion", "publishChecks"} \cup DraftSteps

UnderVersionLock == {"publishChecks"} \cup DraftSteps

CoverageSteps == {"lockService", "lockCoverageVersion", "lockCoveragePlan",
                  "coverageCheck"}

\* Statements that come after the transaction found its plan.
KnowsPlan == {"select", "lockPlan", "commit"} \cup UnderPlanLock \cup CoverageSteps

\* A request that arrived names an actor and an operation, and the row it is
\* about exists.
Arrived(r) ==
    pc[r] # "idle" =>
        /\ req[r].actor \in Users
        /\ req[r].op \in Operations
        /\ req[r].op = "create_draft" => req[r].plan \in Plans
        /\ req[r].op # "create_draft" =>
              req[r].version \in VersionIds /\ Stored(req[r].version)
        /\ req[r].op \in {"create_draft", "edit_draft"} => req[r].text \in Contents

\* Which operation runs which statement, and what a refused one was told.
Flow(r) ==
    /\ pc[r] = "latest" => req[r].op = "create_draft"
    /\ pc[r] \in {"candidate", "lockVersion"} => req[r].op \in {"edit_draft", "publish"}
    /\ pc[r] \in DraftSteps => req[r].op = "edit_draft"
    /\ pc[r] = "publishChecks" => req[r].op = "publish"
    /\ pc[r] \in {"select", "lockPlan", "checks"} =>
          req[r].op \in {"create_draft", "edit_draft", "publish"}
    /\ pc[r] \in CoverageSteps \cup {"coverage"} => req[r].op = "coverage"
    /\ pc[r] = "refused" => reads[r].refusal \in {"denied", "invalid"}

PlanKnown(r) ==
    pc[r] \in KnowsPlan =>
        /\ reads[r].plan \in Plans
        /\ req[r].op # "create_draft" => reads[r].plan = row[req[r].version].plan

LocksHeld(r) ==
    /\ pc[r] \in UnderPlanLock \/ (pc[r] = "commit" /\ req[r].op # "coverage") =>
          planLock[reads[r].plan] = r
    /\ pc[r] \in UnderVersionLock
         \/ (pc[r] = "commit" /\ req[r].op \in {"edit_draft", "publish"}) =>
          versionLock[req[r].version] = r

\* What a request has verified still holds when it commits.
Verified(r) ==
    /\ pc[r] = "commit" /\ req[r].op \in {"create_draft", "edit_draft"} =>
          req[r].count \in Positions
    /\ pc[r] = "commit" /\ req[r].op = "create_draft" =>
          /\ reads[r].latest \in {0} \cup {row[v].number : v \in VersionsOf(reads[r].plan)}
          /\ \A v \in VersionsOf(reads[r].plan) : row[v].number <= reads[r].latest
    /\ pc[r] = "deleteServices" \/ (pc[r] = "commit" /\ req[r].op = "edit_draft") =>
          /\ row[req[r].version].status = "draft"
          /\ row[req[r].version].author = req[r].actor
    /\ pc[r] = "commit" /\ req[r].op = "publish" =>
          /\ row[req[r].version].status = "draft"
          /\ row[req[r].version].author # req[r].actor

RequestOK(r) ==
    Arrived(r) /\ Flow(r) /\ PlanKnown(r) /\ LocksHeld(r) /\ Verified(r)

\* A stored version is complete, and published by somebody else than its author.
RowOK(v) ==
    Stored(v) =>
        /\ row[v].plan \in Plans
        /\ row[v].author \in Users
        /\ row[v].text \in Contents
        /\ row[v].count \in Positions
        /\ row[v].status = "published" =>
              row[v].published_by \in Users /\ row[v].published_by # row[v].author

\* The evidence about a version's terms names its author, and only a published
\* version has evidence of its publication.
AuditOK ==
    \A e \in audit :
        /\ e.action \in {"plan.drafted", "plan.draft_updated", "plan.published"} =>
              e.version \in VersionIds /\ Stored(e.version)
        /\ e.action \in {"plan.drafted", "plan.draft_updated"} =>
              e.actor = row[e.version].author
        /\ e.action = "plan.published" => row[e.version].status = "published"

IInv ==
    /\ TypeOK
    /\ ConsecutiveNumbers
    /\ \A v \in VersionIds : RowOK(v)
    /\ AuditOK
    /\ PublishedOnce
    /\ \A r \in Requests : RequestOK(r)

-----------------------------------------------------------------------------
\* Nothing has happened yet: no rows, no requests, no evidence.
LEMMA InitIInv == Init => IInv
<1> SUFFICES ASSUME Init PROVE IInv
  OBVIOUS
<1> USE DEF Init
<1>1. NoNotes \in [Positions -> Requests \cup {None}] /\ 0 \in 0..MaxServices
  BY BoundsAssumption DEF NoNotes, Positions
<1>2. NoRow \in Row
  BY <1>1 DEF NoRow, Row
<1>3. NoRequest \in Request
  BY <1>1, BoundsAssumption DEF NoRequest, Request, Operations, Positions
<1>4. NoReads \in Reads
  BY DEF NoReads, Reads
<1>5. TypeOK
  BY <1>2, <1>3, <1>4, UsersAssumption, BoundsAssumption DEF TypeOK
<1>6. \A v \in VersionIds : ~Stored(v)
  BY DEF Stored, NoRow
<1>7. ConsecutiveNumbers /\ (\A v \in VersionIds : RowOK(v))
  BY <1>6 DEF ConsecutiveNumbers, RowOK
<1>8. AuditOK
  BY DEF AuditOK
<1>9. PublishedOnce
  BY <1>6 DEF PublishedOnce, NoRow
<1>10. \A r \in Requests : RequestOK(r)
  BY DEF RequestOK, Arrived, Flow, PlanKnown, LocksHeld, Verified, DraftSteps,
         UnderPlanLock, UnderVersionLock, CoverageSteps, KnowsPlan
<1>11. QED
  BY <1>5, <1>7, <1>8, <1>9, <1>10 DEF IInv

\* What a request knows survives a step that changes neither the rows nor the
\* request itself, and takes none of its locks.
LEMMA Undisturbed ==
    ASSUME NEW q \in Requests, RequestOK(q), row' = row,
           pc'[q] = pc[q], req'[q] = req[q], reads'[q] = reads[q],
           \A p \in Plans : planLock[p] = q => planLock'[p] = q,
           \A v \in VersionIds : versionLock[v] = q => versionLock'[v] = q
    PROVE  RequestOK(q)'
<1>1. Arrived(q)'
  BY DEF RequestOK, Arrived, Stored
<1>2. Flow(q)'
  BY DEF RequestOK, Flow
<1>3. PlanKnown(q)'
  BY DEF RequestOK, PlanKnown
<1>4. LocksHeld(q)'
  <2>1. pc[q] \in UnderPlanLock \/ pc[q] = "commit" => reads[q].plan \in Plans
    BY DEF RequestOK, PlanKnown, KnowsPlan
  <2>2. pc[q] \in UnderVersionLock
          \/ (pc[q] = "commit" /\ req[q].op \in {"edit_draft", "publish"}) =>
        req[q].version \in VersionIds
    BY DEF RequestOK, Arrived, Flow, UnderVersionLock, DraftSteps
  <2>3. QED
    BY <2>1, <2>2 DEF RequestOK, LocksHeld
<1>5. Verified(q)'
  BY DEF RequestOK, Verified, VersionsOf, Stored
<1>6. QED
  BY <1>1, <1>2, <1>3, <1>4, <1>5 DEF RequestOK

\* A step that writes nothing to the database preserves the invariant when the
\* request that takes it knows what its next statement relies on.
LEMMA NoWrites ==
    ASSUME IInv, NEW r \in Requests, TypeOK', row' = row, audit' = audit,
           RequestOK(r)',
           \A q \in Requests \ {r} :
              pc'[q] = pc[q] /\ req'[q] = req[q] /\ reads'[q] = reads[q],
           \A q \in Requests \ {r} : \A p \in Plans : planLock[p] = q => planLock'[p] = q,
           \A q \in Requests \ {r} : \A v \in VersionIds :
              versionLock[v] = q => versionLock'[v] = q
    PROVE  IInv'
<1>1. ASSUME NEW q \in Requests PROVE RequestOK(q)'
  <2>1. CASE q = r
    BY <2>1
  <2>2. CASE q # r
    BY <2>2, Undisturbed DEF IInv
  <2>3. QED
    BY <2>1, <2>2
<1>2. ConsecutiveNumbers'
  BY DEF IInv, ConsecutiveNumbers, VersionsOf, Stored
<1>3. \A v \in VersionIds : RowOK(v)'
  BY DEF IInv, RowOK, Stored
<1>4. AuditOK' /\ PublishedOnce'
  BY DEF IInv, AuditOK, PublishedOnce, Stored
<1>5. QED
  BY <1>1, <1>2, <1>3, <1>4 DEF IInv

-----------------------------------------------------------------------------
\* Ending a transaction frees the request's own locks and no other.
LEMMA ReleaseKeeps ==
    ASSUME TypeOK, NEW r \in Requests, Release(r)
    PROVE  /\ planLock' \in [Plans -> Requests \cup {None}]
           /\ versionLock' \in [VersionIds -> Requests \cup {None}]
           /\ serviceLock' \in [VersionIds \X Positions -> Requests \cup {None}]
           /\ \A q \in Requests \ {r} :
                 /\ \A p \in Plans : planLock[p] = q => planLock'[p] = q
                 /\ \A v \in VersionIds : versionLock[v] = q => versionLock'[v] = q
BY DEF TypeOK, Release

\* A refused mutation leaves rows and evidence as they were.
LEMMA RefuseKeeps ==
    ASSUME IInv, NEW r \in Requests, NEW why \in {"denied", "invalid"},
           pc[r] \in Working, Refuse(r, why)
    PROVE  IInv'
<1>1. /\ planLock' \in [Plans -> Requests \cup {None}]
      /\ versionLock' \in [VersionIds -> Requests \cup {None}]
      /\ serviceLock' \in [VersionIds \X Positions -> Requests \cup {None}]
      /\ \A q \in Requests \ {r} :
            /\ \A p \in Plans : planLock[p] = q => planLock'[p] = q
            /\ \A v \in VersionIds : versionLock[v] = q => versionLock'[v] = q
  <2>1. CASE reads[r].entry = 2
    BY <2>1 DEF IInv, TypeOK, Refuse, locks
  <2>2. CASE reads[r].entry # 2
    BY <2>2, ReleaseKeeps DEF IInv, Refuse
  <2>3. QED
    BY <2>1, <2>2
<1>2. pc' = [pc EXCEPT ![r] = "refused"] /\ reads' = [reads EXCEPT ![r].refusal = why]
  BY DEF Refuse
<1>3. UNCHANGED <<row, audit, req, scope, witnessed>>
  BY DEF Refuse
<1>4. pc' \in [Requests -> {"idle"} \cup Working \cup Answered]
  BY <1>2 DEF IInv, TypeOK, Working
<1>5. reads' \in [Requests -> Reads]
  <2>1. reads \in [Requests -> Reads]
    BY DEF IInv, TypeOK
  <2>2. [reads[r] EXCEPT !.refusal = why] \in Reads
    BY <2>1 DEF Reads
  <2>3. QED
    BY <1>2, <2>1, <2>2
<1>6. TypeOK'
  BY <1>1, <1>3, <1>4, <1>5 DEF IInv, TypeOK, scope
<1>7. RequestOK(r)'
  <2>1. pc[r] # "idle" /\ pc'[r] = "refused" /\ req' = req /\ row' = row
    BY <1>2, <1>3 DEF IInv, TypeOK, Working
  <2>2. reads'[r].refusal \in {"denied", "invalid"}
    <3>1. reads'[r] = [reads[r] EXCEPT !.refusal = why] /\ reads[r] \in Reads
      BY <1>2 DEF IInv, TypeOK
    <3>2. QED
      BY <3>1 DEF Reads
  <2>3. QED
    BY <2>1, <2>2 DEF IInv, RequestOK, Arrived, Flow, PlanKnown, LocksHeld, Verified,
       Stored, DraftSteps, UnderPlanLock, UnderVersionLock, CoverageSteps, KnowsPlan
<1>8. \A q \in Requests \ {r} :
        pc'[q] = pc[q] /\ req'[q] = req[q] /\ reads'[q] = reads[q]
  BY <1>2, <1>3 DEF IInv, TypeOK
<1>9. QED
  BY <1>1, <1>3, <1>6, <1>7, <1>8, NoWrites

\* A statement that only reads leads to a statement whose needs are met.
LEMMA ContinueKeeps ==
    ASSUME IInv, NEW r \in Requests, NEW next \in Working, Continue(r, next),
           reads' \in [Requests -> Reads],
           \A q \in Requests \ {r} : reads'[q] = reads[q],
           RequestOK(r)'
    PROVE  IInv'
<1>1. pc' = [pc EXCEPT ![r] = next] /\ UNCHANGED <<row, audit, locks, req, scope, witnessed>>
  BY DEF Continue
<1>2. pc' \in [Requests -> {"idle"} \cup Working \cup Answered]
  BY <1>1 DEF IInv, TypeOK
<1>3. TypeOK'
  BY <1>1, <1>2 DEF IInv, TypeOK, scope, locks
<1>4. \A q \in Requests \ {r} :
        /\ pc'[q] = pc[q] /\ req'[q] = req[q]
        /\ \A p \in Plans : planLock[p] = q => planLock'[p] = q
        /\ \A v \in VersionIds : versionLock[v] = q => versionLock'[v] = q
  BY <1>1 DEF IInv, TypeOK, locks
<1>5. QED
  BY <1>1, <1>3, <1>4, NoWrites

\* The field a statement reads into keeps its type.
LEMMA ReadsTyped ==
    ASSUME TypeOK, NEW r \in Requests,
           \/ \E plan \in Plans : reads' = [reads EXCEPT ![r].plan = plan]
           \/ \E live \in BOOLEAN : reads' = [reads EXCEPT ![r].provider = live]
           \/ \E n \in Nat : reads' = [reads EXCEPT ![r].latest = n]
           \/ reads' = [reads EXCEPT ![r].entry = 2]
    PROVE  /\ reads' \in [Requests -> Reads]
           /\ \A q \in Requests \ {r} : reads'[q] = reads[q]
<1>1. reads \in [Requests -> Reads]
  BY DEF TypeOK
<1>2. /\ \A plan \in Plans : [reads[r] EXCEPT !.plan = plan] \in Reads
      /\ \A live \in BOOLEAN : [reads[r] EXCEPT !.provider = live] \in Reads
      /\ \A n \in Nat : [reads[r] EXCEPT !.latest = n] \in Reads
      /\ [reads[r] EXCEPT !.entry = 2] \in Reads
  BY <1>1 DEF Reads
<1>3. QED
  BY <1>1, <1>2

\* The version's plan is found by an unlocked read of its committed row.
LEMMA CandidateKeeps ==
    ASSUME IInv, NEW r \in Requests, Candidate(r)
    PROVE  IInv'
<1> DEFINE plan == row[req[r].version].plan
<1>1. pc[r] = "candidate" /\ pc[r] \in Working
  BY DEF Candidate, Working
<1>2. CASE ~Visible(req[r].actor, plan)
  BY <1>1, <1>2, RefuseKeeps DEF Candidate
<1>3. CASE Visible(req[r].actor, plan)
  <2>1. reads' = [reads EXCEPT ![r].plan = plan] /\ Continue(r, "select")
    BY <1>3 DEF Candidate
  <2>2. /\ req[r].op \in {"edit_draft", "publish"}
        /\ req[r].version \in VersionIds /\ Stored(req[r].version) /\ plan \in Plans
    BY <1>1 DEF IInv, RequestOK, Arrived, Flow, RowOK
  <2>3. reads' \in [Requests -> Reads] /\ \A q \in Requests \ {r} : reads'[q] = reads[q]
    BY <2>1, <2>2, ReadsTyped DEF IInv
  <2>4. pc'[r] = "select" /\ req' = req /\ row' = row /\ reads'[r].plan = plan
    BY <2>1 DEF IInv, TypeOK, Continue, Reads
  <2>5. RequestOK(r)'
    BY <1>1, <2>2, <2>4 DEF IInv, RequestOK, Arrived, Flow, PlanKnown, LocksHeld,
       Verified, Stored, DraftSteps, UnderPlanLock, UnderVersionLock, CoverageSteps,
       KnowsPlan
  <2>6. QED
    BY <2>1, <2>3, <2>5, ContinueKeeps DEF Working
<1>4. QED
  BY <1>2, <1>3

LEMMA SelectEditablePlanKeeps ==
    ASSUME IInv, NEW r \in Requests, SelectEditablePlan(r)
    PROVE  IInv'
<1> DEFINE plan == reads[r].plan
<1>1. pc[r] = "select" /\ pc[r] \in Working
  BY DEF SelectEditablePlan, Working
<1>2. CASE ~Visible(req[r].actor, plan)
  BY <1>1, <1>2, RefuseKeeps DEF SelectEditablePlan
<1>3. CASE Visible(req[r].actor, plan)
  <2>1. /\ reads' = [reads EXCEPT ![r].provider = providerLive[plan]]
        /\ Continue(r, "lockPlan")
    BY <1>3 DEF SelectEditablePlan
  <2>2. plan \in Plans /\ providerLive[plan] \in BOOLEAN
    BY <1>1 DEF IInv, TypeOK, RequestOK, PlanKnown, KnowsPlan
  <2>3. reads' \in [Requests -> Reads] /\ \A q \in Requests \ {r} : reads'[q] = reads[q]
    BY <2>1, <2>2, ReadsTyped DEF IInv
  <2>4. pc'[r] = "lockPlan" /\ req' = req /\ row' = row /\ reads'[r].plan = plan
    BY <2>1 DEF IInv, TypeOK, Continue, Reads
  <2>5. RequestOK(r)'
    BY <1>1, <2>2, <2>4 DEF IInv, RequestOK, Arrived, Flow, PlanKnown, LocksHeld,
       Verified, Stored, DraftSteps, UnderPlanLock, UnderVersionLock, CoverageSteps,
       KnowsPlan
  <2>6. QED
    BY <2>1, <2>3, <2>5, ContinueKeeps DEF Working
<1>4. QED
  BY <1>2, <1>3

\* The plan row is granted to one request at a time.
LEMMA LockPlanKeeps ==
    ASSUME IInv, NEW r \in Requests, LockPlan(r)
    PROVE  IInv'
<1>1. /\ pc[r] = "lockPlan"
      /\ planLock[reads[r].plan] = None
      /\ planLock' = [planLock EXCEPT ![reads[r].plan] = r]
      /\ \E next \in {"checks"} : pc' = [pc EXCEPT ![r] = next]
      /\ UNCHANGED <<row, audit, versionLock, serviceLock, req, reads, scope, witnessed>>
  BY DEF LockPlan
<1>2. reads[r].plan \in Plans
  BY <1>1 DEF IInv, RequestOK, Arrived, Flow, PlanKnown, KnowsPlan, UnderPlanLock,
     CoverageSteps, DraftSteps
<1>3. TypeOK'
  BY <1>1, <1>2 DEF IInv, TypeOK, scope, Working
<1>4. RequestOK(r)'
  <2>1. pc'[r] \in {"checks"} /\ planLock'[reads[r].plan] = r
    BY <1>1, <1>2 DEF IInv, TypeOK
  <2>2. QED
    BY <1>1, <2>1 DEF IInv, RequestOK, Arrived, Flow, PlanKnown, LocksHeld,
       Verified, Stored, DraftSteps, UnderPlanLock, UnderVersionLock, CoverageSteps,
       KnowsPlan
<1>5. \A q \in Requests \ {r} :
        /\ pc'[q] = pc[q] /\ req'[q] = req[q] /\ reads'[q] = reads[q]
        /\ \A p \in Plans : planLock[p] = q => planLock'[p] = q
        /\ \A v \in VersionIds : versionLock[v] = q => versionLock'[v] = q
  BY <1>1, <1>2, RequestsAssumption DEF IInv, TypeOK
<1>6. QED
  BY <1>1, <1>3, <1>4, <1>5, NoWrites

\* A coverage edit may already hold the rows it locks.
LEMMA LockCoverageVersionKeeps ==
    ASSUME IInv, NEW r \in Requests, LockCoverageVersion(r)
    PROVE  IInv'
<1>1. /\ pc[r] = "lockCoverageVersion"
      /\ versionLock[req[r].version] \in {None, r}
      /\ versionLock' = [versionLock EXCEPT ![req[r].version] = r]
      /\ \E next \in {"lockCoveragePlan"} : pc' = [pc EXCEPT ![r] = next]
      /\ UNCHANGED <<row, audit, planLock, serviceLock, req, reads, scope, witnessed>>
  BY DEF LockCoverageVersion
<1>2. req[r].version \in VersionIds
  BY <1>1 DEF IInv, RequestOK, Arrived, Flow, PlanKnown, KnowsPlan, UnderPlanLock,
     CoverageSteps, DraftSteps
<1>3. TypeOK'
  BY <1>1, <1>2 DEF IInv, TypeOK, scope, Working
<1>4. RequestOK(r)'
  <2>1. pc'[r] \in {"lockCoveragePlan"} /\ versionLock'[req[r].version] = r
    BY <1>1, <1>2 DEF IInv, TypeOK
  <2>2. QED
    BY <1>1, <2>1 DEF IInv, RequestOK, Arrived, Flow, PlanKnown, LocksHeld,
       Verified, Stored, DraftSteps, UnderPlanLock, UnderVersionLock, CoverageSteps,
       KnowsPlan
<1>5. \A q \in Requests \ {r} :
        /\ pc'[q] = pc[q] /\ req'[q] = req[q] /\ reads'[q] = reads[q]
        /\ \A p \in Plans : planLock[p] = q => planLock'[p] = q
        /\ \A v \in VersionIds : versionLock[v] = q => versionLock'[v] = q
  BY <1>1, <1>2, RequestsAssumption DEF IInv, TypeOK
<1>6. QED
  BY <1>1, <1>3, <1>4, <1>5, NoWrites

\* The last of the three rows a coverage edit locks.
LEMMA LockCoveragePlanKeeps ==
    ASSUME IInv, NEW r \in Requests, LockCoveragePlan(r)
    PROVE  IInv'
<1>1. /\ pc[r] = "lockCoveragePlan"
      /\ planLock[reads[r].plan] \in {None, r}
      /\ planLock' = [planLock EXCEPT ![reads[r].plan] = r]
      /\ \E next \in {"coverageCheck"} : pc' = [pc EXCEPT ![r] = next]
      /\ UNCHANGED <<row, audit, versionLock, serviceLock, req, reads, scope, witnessed>>
  BY DEF LockCoveragePlan
<1>2. reads[r].plan \in Plans
  BY <1>1 DEF IInv, RequestOK, Arrived, Flow, PlanKnown, KnowsPlan, UnderPlanLock,
     CoverageSteps, DraftSteps
<1>3. TypeOK'
  BY <1>1, <1>2 DEF IInv, TypeOK, scope, Working
<1>4. RequestOK(r)'
  <2>1. pc'[r] \in {"coverageCheck"} /\ planLock'[reads[r].plan] = r
    BY <1>1, <1>2 DEF IInv, TypeOK
  <2>2. QED
    BY <1>1, <2>1 DEF IInv, RequestOK, Arrived, Flow, PlanKnown, LocksHeld,
       Verified, Stored, DraftSteps, UnderPlanLock, UnderVersionLock, CoverageSteps,
       KnowsPlan
<1>5. \A q \in Requests \ {r} :
        /\ pc'[q] = pc[q] /\ req'[q] = req[q] /\ reads'[q] = reads[q]
        /\ \A p \in Plans : planLock[p] = q => planLock'[p] = q
        /\ \A v \in VersionIds : versionLock[v] = q => versionLock'[v] = q
  BY <1>1, <1>2, RequestsAssumption DEF IInv, TypeOK
<1>6. QED
  BY <1>1, <1>3, <1>4, <1>5, NoWrites

\* The version row, under its plan's lock.
LEMMA LockVersionKeeps ==
    ASSUME IInv, NEW r \in Requests, LockVersion(r)
    PROVE  IInv'
<1> DEFINE next == IF req[r].op = "edit_draft" THEN "draftChecks" ELSE "publishChecks"
<1>1. /\ pc[r] = "lockVersion"
      /\ versionLock[req[r].version] = None
      /\ versionLock' = [versionLock EXCEPT ![req[r].version] = r]
      /\ pc' = [pc EXCEPT ![r] = next]
      /\ UNCHANGED <<row, audit, planLock, serviceLock, req, reads, scope, witnessed>>
  BY DEF LockVersion
<1>2. req[r].version \in VersionIds /\ req[r].op \in {"edit_draft", "publish"}
  BY <1>1 DEF IInv, RequestOK, Arrived, Flow
<1>3. TypeOK'
  BY <1>1, <1>2 DEF IInv, TypeOK, scope, Working
<1>4. RequestOK(r)'
  <2>1. pc'[r] = next /\ versionLock'[req[r].version] = r
    BY <1>1, <1>2 DEF IInv, TypeOK
  <2>2. QED
    BY <1>1, <1>2, <2>1 DEF IInv, RequestOK, Arrived, Flow, PlanKnown, LocksHeld,
       Verified, Stored, DraftSteps, UnderPlanLock, UnderVersionLock, CoverageSteps,
       KnowsPlan
<1>5. \A q \in Requests \ {r} :
        /\ pc'[q] = pc[q] /\ req'[q] = req[q] /\ reads'[q] = reads[q]
        /\ \A p \in Plans : planLock[p] = q => planLock'[p] = q
        /\ \A v \in VersionIds : versionLock[v] = q => versionLock'[v] = q
  BY <1>1, <1>2, RequestsAssumption DEF IInv, TypeOK
<1>6. QED
  BY <1>1, <1>3, <1>4, <1>5, NoWrites

\* A service row deleted by update_draft: no version or plan lock changes.
LEMMA LockServiceRowKeeps ==
    ASSUME IInv, NEW r \in Requests, NEW p \in Positions, LockServiceRow(r, p)
    PROVE  IInv'
<1>1. /\ pc[r] = "deleteServices"
      /\ serviceLock' = [serviceLock EXCEPT ![<<req[r].version, p>>] = r]
      /\ UNCHANGED <<row, audit, planLock, versionLock, pc, req, reads, scope, witnessed>>
  BY DEF LockServiceRow
<1>2. TypeOK'
  BY <1>1 DEF IInv, TypeOK, scope
<1>3. RequestOK(r)'
  BY <1>1, Undisturbed DEF IInv
<1>4. QED
  BY <1>1, <1>2, <1>3, NoWrites

\* A service row locked by a coverage edit.
LEMMA LockServiceKeeps ==
    ASSUME IInv, NEW r \in Requests, LockService(r)
    PROVE  IInv'
<1> DEFINE service == <<req[r].version, req[r].position>>
<1>1. pc[r] = "lockService" /\ pc[r] \in Working
  BY DEF LockService, Working
<1>2. CASE ~ServiceExists(r)
  BY <1>1, <1>2, RefuseKeeps DEF LockService
<1>3. CASE ServiceExists(r)
  <2>1. /\ serviceLock' = [serviceLock EXCEPT ![service] = r]
        /\ pc' = [pc EXCEPT ![r] = "lockCoverageVersion"]
        /\ UNCHANGED <<row, audit, planLock, versionLock, req, reads, scope, witnessed>>
    BY <1>3 DEF LockService
  <2>2. TypeOK'
    BY <2>1 DEF IInv, TypeOK, scope, Working
  <2>3. RequestOK(r)'
    <3>1. pc'[r] = "lockCoverageVersion"
      BY <2>1 DEF IInv, TypeOK
    <3>2. QED
      BY <1>1, <2>1, <3>1 DEF IInv, RequestOK, Arrived, Flow, PlanKnown, LocksHeld,
       Verified, Stored, DraftSteps, UnderPlanLock, UnderVersionLock, CoverageSteps,
       KnowsPlan
  <2>4. \A q \in Requests \ {r} : pc'[q] = pc[q]
    BY <2>1 DEF IInv, TypeOK
  <2>5. QED
    BY <2>1, <2>2, <2>3, <2>4, NoWrites
<1>4. QED
  BY <1>2, <1>3

\* The checks of _editable_plan under the plan's lock.
LEMMA CheckEditablePlanKeeps ==
    ASSUME IInv, NEW r \in Requests, CheckEditablePlan(r)
    PROVE  IInv'
<1> DEFINE refusal == EditablePlanRefusal(r)
<1> DEFINE next == IF req[r].op = "create_draft" THEN "latest" ELSE "lockVersion"
<1>1. pc[r] = "checks" /\ pc[r] \in Working /\ Proceed(r, refusal, next)
  BY DEF CheckEditablePlan, Working
<1>2. refusal \in {"none", "denied", "invalid"}
  BY DEF EditablePlanRefusal
<1>3. CASE refusal # "none"
  BY <1>1, <1>2, <1>3, RefuseKeeps DEF Proceed
<1>4. CASE refusal = "none"
  <2>1. Continue(r, next) /\ reads' = reads
    BY <1>1, <1>4 DEF Proceed
  <2>2. pc'[r] = next /\ req' = req /\ row' = row /\ UNCHANGED locks
    BY <2>1 DEF IInv, TypeOK, Continue
  <2>3. RequestOK(r)'
    BY <1>1, <1>4, <2>1, <2>2 DEF EditablePlanRefusal, IInv, RequestOK, Arrived, Flow, PlanKnown, LocksHeld,
       Verified, Stored, DraftSteps, UnderPlanLock, UnderVersionLock, CoverageSteps,
       KnowsPlan, locks
  <2>4. reads' \in [Requests -> Reads] /\ next \in Working
    BY <2>1 DEF IInv, TypeOK, Working
  <2>5. QED
    BY <2>1, <2>3, <2>4, ContinueKeeps
<1>5. QED
  BY <1>3, <1>4

\* update_draft goes on only for the author of a draft.
LEMMA CheckUpdateDraftKeeps ==
    ASSUME IInv, NEW r \in Requests, CheckUpdateDraft(r)
    PROVE  IInv'
<1> DEFINE refusal == UpdateDraftRefusal(r)
<1> DEFINE next == "deleteServices"
<1>1. pc[r] = "draftChecks" /\ pc[r] \in Working /\ Proceed(r, refusal, next)
  BY DEF CheckUpdateDraft, Working
<1>2. refusal \in {"none", "denied", "invalid"}
  BY DEF UpdateDraftRefusal
<1>3. CASE refusal # "none"
  BY <1>1, <1>2, <1>3, RefuseKeeps DEF Proceed
<1>4. CASE refusal = "none"
  <2>1. Continue(r, next) /\ reads' = reads
    BY <1>1, <1>4 DEF Proceed
  <2>2. pc'[r] = next /\ req' = req /\ row' = row /\ UNCHANGED locks
    BY <2>1 DEF IInv, TypeOK, Continue
  <2>3. RequestOK(r)'
    BY <1>1, <1>4, <2>1, <2>2 DEF UpdateDraftRefusal, IInv, RequestOK, Arrived, Flow, PlanKnown, LocksHeld,
       Verified, Stored, DraftSteps, UnderPlanLock, UnderVersionLock, CoverageSteps,
       KnowsPlan, locks
  <2>4. reads' \in [Requests -> Reads] /\ next \in Working
    BY <2>1 DEF IInv, TypeOK, Working
  <2>5. QED
    BY <2>1, <2>3, <2>4, ContinueKeeps
<1>5. QED
  BY <1>3, <1>4

\* publish_draft goes on only for somebody else than the author of a draft.
LEMMA CheckPublishKeeps ==
    ASSUME IInv, NEW r \in Requests, CheckPublish(r)
    PROVE  IInv'
<1> DEFINE refusal == PublishRefusal(r)
<1> DEFINE next == "commit"
<1>1. pc[r] = "publishChecks" /\ pc[r] \in Working /\ Proceed(r, refusal, next)
  BY DEF CheckPublish, Working
<1>2. refusal \in {"none", "denied", "invalid"}
  BY DEF PublishRefusal
<1>3. CASE refusal # "none"
  BY <1>1, <1>2, <1>3, RefuseKeeps DEF Proceed
<1>4. CASE refusal = "none"
  <2>1. Continue(r, next) /\ reads' = reads
    BY <1>1, <1>4 DEF Proceed
  <2>2. pc'[r] = next /\ req' = req /\ row' = row /\ UNCHANGED locks
    BY <2>1 DEF IInv, TypeOK, Continue
  <2>3. RequestOK(r)'
    BY <1>1, <1>4, <2>1, <2>2 DEF PublishRefusal, IInv, RequestOK, Arrived, Flow, PlanKnown, LocksHeld,
       Verified, Stored, DraftSteps, UnderPlanLock, UnderVersionLock, CoverageSteps,
       KnowsPlan, locks
  <2>4. reads' \in [Requests -> Reads] /\ next \in Working
    BY <2>1 DEF IInv, TypeOK, Working
  <2>5. QED
    BY <2>1, <2>3, <2>4, ContinueKeeps
<1>5. QED
  BY <1>3, <1>4

\* update_draft saves its terms when they are valid and every old service row
\* is its own to delete.
LEMMA SaveTermsKeeps ==
    ASSUME IInv, NEW r \in Requests, SaveTerms(r)
    PROVE  IInv'
<1> DEFINE refusal == IF req[r].count = 0 THEN "invalid" ELSE "none"
<1>1. pc[r] = "deleteServices" /\ pc[r] \in Working /\ Proceed(r, refusal, "commit")
  BY DEF SaveTerms, Working
<1>2. CASE req[r].count = 0
  BY <1>1, <1>2, RefuseKeeps DEF Proceed
<1>3. CASE req[r].count # 0
  <2>1. Continue(r, "commit") /\ reads' = reads
    BY <1>1, <1>3 DEF Proceed
  <2>2. pc'[r] = "commit" /\ req' = req /\ row' = row /\ UNCHANGED locks
    BY <2>1 DEF IInv, TypeOK, Continue
  <2>3. req[r].count \in Positions
    BY <1>3, BoundsAssumption DEF IInv, TypeOK, Request, Positions
  <2>4. RequestOK(r)'
    BY <1>1, <2>1, <2>2, <2>3 DEF IInv, RequestOK, Arrived, Flow, PlanKnown, LocksHeld,
       Verified, Stored, DraftSteps, UnderPlanLock, UnderVersionLock, CoverageSteps,
       KnowsPlan, locks, Positions
  <2>5. reads' \in [Requests -> Reads]
    BY <2>1 DEF IInv, TypeOK
  <2>6. QED
    BY <2>1, <2>4, <2>5, ContinueKeeps DEF Working
<1>4. QED
  BY <1>2, <1>3

\* create_draft reads the plan's latest number under the plan's lock.
LEMMA LatestNumberKeeps ==
    ASSUME IInv, NEW r \in Requests, LatestNumber(r)
    PROVE  IInv'
<1> DEFINE numbers == {0} \cup {row[v].number : v \in VersionsOf(reads[r].plan)}
<1>1. pc[r] = "latest" /\ pc[r] \in Working
  BY DEF LatestNumber, Working
<1>2. CASE req[r].count = 0
  BY <1>1, <1>2, RefuseKeeps DEF LatestNumber
<1>3. CASE req[r].count # 0
  <2>1. PICK n \in numbers : /\ \A m \in numbers : m <= n
                              /\ reads' = [reads EXCEPT ![r].latest = n]
                              /\ Continue(r, "commit")
    BY <1>3 DEF LatestNumber
  <2>2. n \in Nat
    BY DEF IInv, TypeOK, VersionsOf, Row
  <2>3. reads' \in [Requests -> Reads] /\ \A q \in Requests \ {r} : reads'[q] = reads[q]
    BY <2>1, <2>2, ReadsTyped DEF IInv
  <2>4. /\ pc'[r] = "commit" /\ req' = req /\ row' = row /\ UNCHANGED locks
        /\ reads'[r].plan = reads[r].plan /\ reads'[r].latest = n
    <3>1. reads \in [Requests -> Reads] /\ pc \in [Requests -> {"idle"} \cup Working \cup Answered]
      BY DEF IInv, TypeOK
    <3>2. reads'[r] = [reads[r] EXCEPT !.latest = n]
      BY <2>1, <3>1
    <3>3. reads'[r].plan = reads[r].plan /\ reads'[r].latest = n
      BY <3>1, <3>2 DEF Reads
    <3>4. pc'[r] = "commit" /\ req' = req /\ row' = row /\ UNCHANGED locks
      BY <2>1, <3>1 DEF Continue
    <3>5. QED
      BY <3>3, <3>4
  <2>5. req[r].count \in Positions
    BY <1>3, BoundsAssumption DEF IInv, TypeOK, Request, Positions
  <2>6. Verified(r)'
    <3>1. req'[r].op = "create_draft" /\ req'[r].count \in Positions
      BY <1>1, <2>4, <2>5 DEF IInv, RequestOK, Flow
    <3>2. VersionsOf(reads[r].plan)' = VersionsOf(reads[r].plan)
      BY <2>4 DEF VersionsOf, Stored
    <3>3. /\ reads'[r].latest \in {0} \cup {row'[v].number : v \in VersionsOf(reads[r].plan)'}
          /\ \A v \in VersionsOf(reads[r].plan)' : row'[v].number <= reads'[r].latest
      BY <2>1, <2>4, <3>2
    <3>4. QED
      BY <2>4, <3>1, <3>3 DEF Verified, Positions
  <2>7. Arrived(r)' /\ Flow(r)' /\ PlanKnown(r)' /\ LocksHeld(r)'
    BY <1>1, <2>4 DEF IInv, RequestOK, Arrived, Flow, PlanKnown, LocksHeld,
       Verified, Stored, DraftSteps, UnderPlanLock, UnderVersionLock, CoverageSteps,
       KnowsPlan, locks
  <2>8. QED
    BY <2>1, <2>3, <2>6, <2>7, ContinueKeeps DEF RequestOK, Working
<1>4. QED
  BY <1>2, <1>3

\* A coverage edit selects the service it is about.
LEMMA SelectCoverageKeeps ==
    ASSUME IInv, NEW r \in Requests, SelectCoverage(r)
    PROVE  IInv'
<1> DEFINE plan == row[req[r].version].plan
<1>1. pc[r] = "coverage" /\ pc[r] \in Working
  BY DEF SelectCoverage, Working
<1>2. CASE ~(ServiceExists(r) /\ Visible(req[r].actor, plan))
  BY <1>1, <1>2, RefuseKeeps DEF SelectCoverage
<1>3. CASE ServiceExists(r) /\ Visible(req[r].actor, plan)
  <2>1. reads' = [reads EXCEPT ![r].plan = plan] /\ Continue(r, "lockService")
    BY <1>3 DEF SelectCoverage
  <2>2. /\ req[r].op = "coverage"
        /\ req[r].version \in VersionIds /\ Stored(req[r].version) /\ plan \in Plans
    BY <1>1 DEF IInv, RequestOK, Arrived, Flow, RowOK, CoverageSteps
  <2>3. reads' \in [Requests -> Reads] /\ \A q \in Requests \ {r} : reads'[q] = reads[q]
    BY <2>1, <2>2, ReadsTyped DEF IInv
  <2>4. pc'[r] = "lockService" /\ req' = req /\ row' = row /\ reads'[r].plan = plan
    BY <2>1 DEF IInv, TypeOK, Continue, Reads
  <2>5. RequestOK(r)'
    BY <1>1, <2>2, <2>4 DEF IInv, RequestOK, Arrived, Flow, PlanKnown, LocksHeld,
       Verified, Stored, DraftSteps, UnderPlanLock, UnderVersionLock, CoverageSteps,
       KnowsPlan
  <2>6. QED
    BY <2>1, <2>3, <2>5, ContinueKeeps DEF Working
<1>4. QED
  BY <1>2, <1>3

\* The grants are looked at again, once in each of the two coverage updates.
LEMMA CheckCoverageKeeps ==
    ASSUME IInv, NEW r \in Requests, CheckCoverage(r)
    PROVE  IInv'
<1> DEFINE allowed == req[r].actor \in Superusers \/ InCatalog(req[r].actor, reads[r].plan)
<1> DEFINE next == IF reads[r].entry = 1 THEN "coverage" ELSE "commit"
<1>1. pc[r] = "coverageCheck" /\ pc[r] \in Working
  BY DEF CheckCoverage, Working
<1>2. CASE ~allowed
  BY <1>1, <1>2, RefuseKeeps DEF CheckCoverage
<1>3. CASE allowed
  <2>1. Continue(r, next) /\ reads' = [reads EXCEPT ![r].entry = 2]
    BY <1>3 DEF CheckCoverage
  <2>2. reads' \in [Requests -> Reads] /\ \A q \in Requests \ {r} : reads'[q] = reads[q]
    BY <2>1, ReadsTyped DEF IInv
  <2>3. pc'[r] = next /\ req' = req /\ row' = row /\ reads'[r].plan = reads[r].plan
    BY <2>1 DEF IInv, TypeOK, Continue, Reads
  <2>4. RequestOK(r)'
    BY <1>1, <2>3 DEF IInv, RequestOK, Arrived, Flow, PlanKnown, LocksHeld,
       Verified, Stored, DraftSteps, UnderPlanLock, UnderVersionLock, CoverageSteps,
       KnowsPlan
  <2>5. QED
    BY <2>1, <2>2, <2>4, ContinueKeeps DEF Working
<1>4. QED
  BY <1>2, <1>3

-----------------------------------------------------------------------------
\* A request that fails for good gives up its locks and keeps nothing else.
LEMMA FailureKeeps ==
    ASSUME IInv, NEW r \in Requests, NEW end \in Answered,
           pc[r] # "idle", pc' = [pc EXCEPT ![r] = end], Release(r),
           UNCHANGED <<row, audit, req, reads, scope, witnessed>>
    PROVE  IInv'
<1>1. TypeOK'
  BY ReleaseKeeps DEF IInv, TypeOK, scope
<1>2. pc'[r] = end
  BY DEF IInv, TypeOK
<1>3. RequestOK(r)'
  BY <1>2 DEF IInv, RequestOK, Arrived, Flow, PlanKnown, LocksHeld, Verified,
     Stored, DraftSteps, UnderPlanLock, UnderVersionLock, CoverageSteps, KnowsPlan, Answered
<1>4. \A q \in Requests \ {r} : pc'[q] = pc[q]
  BY DEF IInv, TypeOK
<1>5. QED
  BY <1>1, <1>3, <1>4, ReleaseKeeps, NoWrites DEF IInv

LEMMA CrashKeeps ==
    ASSUME IInv, NEW r \in Requests, Crash(r)
    PROVE  IInv'
BY FailureKeeps DEF Crash, Working, Answered

\* Only a request that waits for a lock can be the victim of the detector.
LEMMA DeadlockAbortKeeps ==
    ASSUME IInv, NEW r \in Requests, DeadlockAbort(r)
    PROVE  IInv'
<1>1. pc[r] # "idle"
  <2>1. PICK S \in SUBSET Requests : r \in S /\ Cycle(S)
    BY DEF DeadlockAbort
  <2>2. BlockedBy(r) \cap S # {}
    BY <2>1 DEF Cycle, Waits
  <2>3. SUFFICES ASSUME pc[r] = "idle" PROVE FALSE
    OBVIOUS
  <2>4. BlockedBy(r) = {None}
    BY <2>3 DEF BlockedBy
  <2>5. QED
    BY <2>1, <2>2, <2>4, RequestsAssumption
<1>2. QED
  BY <1>1, FailureKeeps DEF DeadlockAbort, Answered

\* Evidence of a refusal says nothing about a version's terms or publication.
LEMMA RecordRefusalKeeps ==
    ASSUME IInv, NEW r \in Requests, RecordRefusal(r)
    PROVE  IInv'
<1> DEFINE e == Event(r, "plan.rejected", req[r].version)
<1>1. /\ pc[r] = "refused"
      /\ audit' = audit \/ audit' = audit \cup {e}
      /\ pc' = [pc EXCEPT ![r] = reads[r].refusal]
      /\ Release(r)
      /\ UNCHANGED <<row, req, reads, scope, witnessed>>
  BY DEF RecordRefusal
<1>2. /\ e \in AuditEvents
      /\ e.action = "plan.rejected"
  <2>1. req[r].actor \in Users
    BY <1>1 DEF IInv, RequestOK, Arrived
  <2>2. req[r].version \in VersionIds \cup {None}
    BY DEF IInv, TypeOK, Request
  <2>3. QED
    BY <2>1, <2>2 DEF Event, AuditEvents
<1>3. reads[r].refusal \in {"denied", "invalid"}
  BY <1>1 DEF IInv, RequestOK, Flow
<1>4. TypeOK'
  BY <1>1, <1>2, <1>3, ReleaseKeeps DEF IInv, TypeOK, scope, Answered
<1>5. \A q \in Requests \ {r} :
        /\ pc'[q] = pc[q] /\ req'[q] = req[q] /\ reads'[q] = reads[q]
        /\ \A p \in Plans : planLock[p] = q => planLock'[p] = q
        /\ \A v \in VersionIds : versionLock[v] = q => versionLock'[v] = q
  BY <1>1, ReleaseKeeps DEF IInv, TypeOK
<1>6. \A q \in Requests \ {r} : RequestOK(q)'
  BY <1>1, <1>5, Undisturbed DEF IInv
<1>7. RequestOK(r)'
  <2>1. pc'[r] \in {"denied", "invalid"} /\ pc[r] # "idle"
    BY <1>1, <1>3 DEF IInv, TypeOK
  <2>2. QED
    BY <1>1, <2>1 DEF IInv, RequestOK, Arrived, Flow, PlanKnown, LocksHeld, Verified,
       Stored, DraftSteps, UnderPlanLock, UnderVersionLock, CoverageSteps, KnowsPlan
<1>8. ConsecutiveNumbers' /\ (\A v \in VersionIds : RowOK(v)')
  BY <1>1 DEF IInv, ConsecutiveNumbers, VersionsOf, RowOK, Stored
<1>9. AuditOK'
  BY <1>1, <1>2 DEF IInv, AuditOK, Stored
<1>10. PublishedOnce'
  <2>1. \A v \in VersionIds :
          {f \in audit' : f.version = v /\ f.action = "plan.published"}
            = {f \in audit : f.version = v /\ f.action = "plan.published"}
    BY <1>1, <1>2
  <2>2. QED
    BY <1>1, <2>1 DEF IInv, PublishedOnce
<1>11. QED
  BY <1>4, <1>6, <1>7, <1>8, <1>9, <1>10 DEF IInv

-----------------------------------------------------------------------------
Actions == {"plan.drafted", "plan.draft_updated", "plan.published",
            "plan.coverage_notes_updated", "plan.coverage_presentation_updated"}

\* The parts of a commit that do not depend on the operation.
LEMMA CommitShape ==
    ASSUME IInv, NEW r \in Requests, NEW v \in VersionIds, NEW newRow \in Row,
           NEW actions \in SUBSET Actions, pc[r] = "commit",
           Commit(r, v, newRow, actions)
    PROVE  /\ TypeOK'
           /\ row' = [row EXCEPT ![v] = newRow]
           /\ \A e \in audit' \ audit :
                 /\ e.version = v /\ e.action \in actions
                 /\ e.actor = req[r].actor /\ e.request = r
           /\ audit \subseteq audit'
           /\ \A a \in actions : Event(r, a, v) \in audit'
           /\ pc'[r] = "ok" /\ req' = req /\ reads' = reads
           /\ \A q \in Requests \ {r} :
                 /\ pc'[q] = pc[q]
                 /\ \A p \in Plans : planLock[p] = q => planLock'[p] = q
                 /\ \A w \in VersionIds : versionLock[w] = q => versionLock'[w] = q
<1>1. /\ row' = [row EXCEPT ![v] = newRow]
      /\ audit' = audit \cup {Event(r, a, v) : a \in actions}
      /\ pc' = [pc EXCEPT ![r] = "ok"]
      /\ Release(r)
      /\ UNCHANGED <<req, reads, scope, witnessed>>
  BY DEF Commit
<1>2. req[r].actor \in Users
  BY DEF IInv, RequestOK, Arrived
<1>3. \A a \in actions : Event(r, a, v) \in AuditEvents
  BY <1>2 DEF Event, AuditEvents, Actions
<1>4. row' \in [VersionIds -> Row]
  BY <1>1 DEF IInv, TypeOK
<1>5. pc' \in [Requests -> {"idle"} \cup Working \cup Answered]
  BY <1>1 DEF IInv, TypeOK, Answered
<1>6. TypeOK'
  BY <1>1, <1>3, <1>4, <1>5, ReleaseKeeps DEF IInv, TypeOK, scope
<1>7. \A e \in audit' \ audit :
        /\ e.version = v /\ e.action \in actions
        /\ e.actor = req[r].actor /\ e.request = r
  BY <1>1 DEF Event
<1>8. pc'[r] = "ok" /\ \A q \in Requests \ {r} : pc'[q] = pc[q]
  BY <1>1 DEF IInv, TypeOK
<1>9. QED
  BY <1>1, <1>6, <1>7, <1>8, ReleaseKeeps DEF IInv

\* The request that committed has only to remain well formed.
LEMMA CommitSelf ==
    ASSUME IInv, NEW r \in Requests, NEW v \in VersionIds, NEW newRow \in Row,
           NEW actions \in SUBSET Actions, pc[r] = "commit",
           Commit(r, v, newRow, actions), newRow.status # "absent"
    PROVE  RequestOK(r)'
<1>1. pc'[r] = "ok" /\ req' = req /\ row' = [row EXCEPT ![v] = newRow]
  BY CommitShape
<1>2. \A w \in VersionIds : Stored(w) => Stored(w)'
  BY <1>1 DEF IInv, TypeOK, Stored
<1>3. QED
  BY <1>1, <1>2 DEF IInv, RequestOK, Arrived, Flow, PlanKnown, LocksHeld, Verified,
     DraftSteps, UnderPlanLock, UnderVersionLock, CoverageSteps, KnowsPlan

\* What another request knows survives a commit: a new version belongs to a
\* plan that request has not locked, and a changed one is either not locked by
\* it or keeps its status.
LEMMA CommitOthers ==
    ASSUME IInv, NEW r \in Requests, NEW v \in VersionIds, NEW newRow \in Row,
           NEW actions \in SUBSET Actions, pc[r] = "commit",
           Commit(r, v, newRow, actions), newRow.status # "absent",
           \/ ~Stored(v) /\ newRow.plan \in Plans /\ planLock[newRow.plan] = r
           \/ /\ Stored(v)
              /\ newRow.plan = row[v].plan /\ newRow.number = row[v].number
              /\ newRow.author = row[v].author
              /\ versionLock[v] = r \/ newRow.status = row[v].status,
           NEW q \in Requests, q # r
    PROVE  RequestOK(q)'
<1>1. /\ row' = [row EXCEPT ![v] = newRow] /\ row \in [VersionIds -> Row]
      /\ req' = req /\ reads' = reads /\ pc'[q] = pc[q]
      /\ \A p \in Plans : planLock[p] = q => planLock'[p] = q
      /\ \A w \in VersionIds : versionLock[w] = q => versionLock'[w] = q
  BY CommitShape DEF IInv, TypeOK
<1>2. /\ row'[v] = newRow
      /\ \A w \in VersionIds : w # v => row'[w] = row[w]
      /\ \A w \in VersionIds : Stored(w) =>
            Stored(w)' /\ row'[w].plan = row[w].plan /\ row'[w].author = row[w].author
  BY <1>1 DEF Stored
<1>3. Arrived(q)' /\ Flow(q)'
  BY <1>1, <1>2 DEF IInv, RequestOK, Arrived, Flow
<1>4. PlanKnown(q)'
  BY <1>1, <1>2 DEF IInv, RequestOK, Arrived, PlanKnown, KnowsPlan, UnderPlanLock,
     CoverageSteps, DraftSteps
<1>5. LocksHeld(q)'
  <2>1. pc[q] \in UnderPlanLock \/ pc[q] = "commit" => reads[q].plan \in Plans
    BY DEF IInv, RequestOK, PlanKnown, KnowsPlan
  <2>2. pc[q] \in UnderVersionLock
          \/ (pc[q] = "commit" /\ req[q].op \in {"edit_draft", "publish"}) =>
        req[q].version \in VersionIds
    BY DEF IInv, RequestOK, Arrived, Flow, UnderVersionLock, DraftSteps
  <2>3. QED
    BY <1>1, <2>1, <2>2 DEF IInv, RequestOK, LocksHeld
<1>6. ASSUME pc[q] = "commit", req[q].op = "create_draft"
      PROVE  VersionsOf(reads[q].plan)' = VersionsOf(reads[q].plan)
             /\ \A w \in VersionsOf(reads[q].plan) : row'[w].number = row[w].number
  <2>1. reads[q].plan \in Plans /\ planLock[reads[q].plan] = q
    BY <1>6 DEF IInv, RequestOK, PlanKnown, LocksHeld, KnowsPlan
  <2>2. CASE ~Stored(v) /\ newRow.plan \in Plans /\ planLock[newRow.plan] = r
    BY <1>1, <1>2, <2>1, <2>2 DEF VersionsOf, Stored
  <2>3. CASE /\ Stored(v) /\ newRow.plan = row[v].plan
             /\ newRow.number = row[v].number
    BY <1>1, <1>2, <2>3 DEF VersionsOf, Stored
  <2>4. QED
    BY <2>2, <2>3
<1>7. ASSUME pc[q] = "deleteServices"
             \/ (pc[q] = "commit" /\ req[q].op \in {"edit_draft", "publish"})
      PROVE  /\ row'[req[q].version].status = row[req[q].version].status
             /\ row'[req[q].version].author = row[req[q].version].author
  <2>1. /\ req[q].version \in VersionIds /\ Stored(req[q].version)
        /\ versionLock[req[q].version] = q
    BY <1>7 DEF IInv, RequestOK, Arrived, Flow, LocksHeld, UnderVersionLock, DraftSteps
  <2>2. QED
    BY <1>1, <1>2, <2>1
<1>8. Verified(q)'
  BY <1>1, <1>6, <1>7 DEF IInv, RequestOK, Verified, Positions
<1>9. QED
  BY <1>3, <1>4, <1>5, <1>8 DEF RequestOK

\* A new draft takes the number after its plan's latest.
LEMMA CommitDraftKeeps ==
    ASSUME IInv, NEW r \in Requests, NEW v \in VersionIds, CommitDraft(r, v)
    PROVE  IInv'
<1> DEFINE newRow == [status |-> "draft", plan |-> reads[r].plan,
                      number |-> reads[r].latest + 1, author |-> req[r].actor,
                      text |-> req[r].text, count |-> req[r].count,
                      generation |-> 0, notes |-> NoNotes, published_by |-> None]
<1> DEFINE actions == {"plan.drafted"}
<1>1. /\ pc[r] = "commit" /\ req[r].op = "create_draft" /\ ~Stored(v)
      /\ Commit(r, v, newRow, actions)
  BY DEF CommitDraft
<1>2. /\ reads[r].plan \in Plans /\ reads[r].latest \in Nat
      /\ req[r].actor \in Users /\ req[r].text \in Contents
      /\ req[r].count \in Positions
  BY <1>1 DEF IInv, TypeOK, RequestOK, Arrived, PlanKnown, Verified, KnowsPlan, Reads
<1>3. NoNotes \in [Positions -> Requests \cup {None}]
  BY DEF NoNotes
<1>4. /\ newRow \in Row /\ newRow.status = "draft" /\ newRow.plan = reads[r].plan
      /\ newRow.number = reads[r].latest + 1 /\ newRow.author = req[r].actor
      /\ newRow.text = req[r].text /\ newRow.count = req[r].count
  <2>1. req[r].count \in 0..MaxServices /\ reads[r].latest + 1 \in Nat
    BY <1>2, BoundsAssumption DEF Positions
  <2>2. newRow \in Row
    BY <1>2, <1>3, <2>1 DEF Row
  <2>3. QED
    BY <2>2
<1>5. planLock[newRow.plan] = r
  BY <1>1, <1>4 DEF IInv, RequestOK, LocksHeld
<1> HIDE DEF newRow
<1>6. actions \in SUBSET Actions
  BY DEF Actions
<1> HIDE DEF actions
<1>7. /\ TypeOK'
      /\ row' = [row EXCEPT ![v] = newRow] /\ audit \subseteq audit'
      /\ \A e \in audit' \ audit : e.version = v /\ e.action \in actions
                                   /\ e.actor = req[r].actor
  BY <1>1, <1>4, <1>6, CommitShape
<1>8. /\ row'[v] = newRow /\ Stored(v)'
      /\ \A w \in VersionIds : w # v => row'[w] = row[w] /\ (Stored(w)' <=> Stored(w))
  BY <1>4, <1>7 DEF IInv, TypeOK, Stored
<1>9. \A q \in Requests : RequestOK(q)'
  <2>1. RequestOK(r)'
    BY <1>1, <1>4, <1>6, CommitSelf
  <2>2. ASSUME NEW q \in Requests, q # r PROVE RequestOK(q)'
    BY <1>1, <1>2, <1>4, <1>5, <1>6, <2>2, CommitOthers
  <2>3. QED
    BY <2>1, <2>2
<1>10. \A w \in VersionIds : RowOK(w)'
  BY <1>2, <1>4, <1>8 DEF IInv, RowOK
<1>11. ConsecutiveNumbers'
  <2> DEFINE later(plan) == {u \in VersionIds : /\ row'[u].status # "absent"
                                                /\ row'[u].plan = plan}
  <2>1. /\ reads[r].latest \in {0} \cup {row[w].number : w \in VersionsOf(newRow.plan)}
        /\ \A w \in VersionsOf(newRow.plan) : row[w].number <= reads[r].latest
    BY <1>1, <1>4 DEF IInv, RequestOK, Verified
  <2>2. ASSUME NEW plan
        PROVE  later(plan) = IF plan = newRow.plan THEN VersionsOf(plan) \cup {v}
                                                   ELSE VersionsOf(plan)
    BY <1>1, <1>4, <1>8 DEF VersionsOf, Stored
  <2>3. \A w \in VersionIds : row[w].number \in Nat /\ row'[w].number \in Nat
    BY <1>7 DEF IInv, TypeOK, Row
  <2> HIDE DEF later
  <2>4. ASSUME NEW w \in VersionIds, Stored(w)'
        PROVE  \A u \in later(row'[w].plan) : row'[u].number = row'[w].number => u = w
    <3>1. CASE w = v
      BY <1>1, <1>4, <1>8, <2>1, <2>2, <2>3, <3>1 DEF VersionsOf
    <3>2. CASE w # v
      <4>1. Stored(w) /\ row'[w] = row[w]
        BY <1>8, <2>4, <3>2
      <4>2. \A u \in VersionsOf(row[w].plan) : row[u].number = row[w].number => u = w
        BY <4>1 DEF IInv, ConsecutiveNumbers
      <4>3. row[w].plan = newRow.plan => row[w].number <= reads[r].latest
        BY <2>1, <4>1 DEF VersionsOf
      <4>4. \A u \in VersionsOf(row[w].plan) : u # v
        BY <1>1 DEF VersionsOf
      <4>5. row'[v].number = reads[r].latest + 1
        BY <1>4, <1>8
      <4>6. ASSUME NEW u \in later(row'[w].plan), row'[u].number = row'[w].number
            PROVE  u = w
        <5>1. CASE u = v
          <6>1. row[w].plan = newRow.plan
            BY <2>2, <4>1, <4>4, <4>6, <5>1
          <6>2. QED
            BY <1>2, <2>3, <4>1, <4>3, <4>5, <4>6, <5>1, <6>1
        <5>2. CASE u # v
          <6>1. u \in VersionsOf(row[w].plan)
            BY <2>2, <4>1, <4>6, <5>2
          <6>2. QED
            BY <1>8, <4>1, <4>2, <4>6, <5>2, <6>1 DEF VersionsOf
        <5>3. QED
          BY <5>1, <5>2
      <4>7. QED
        BY <4>6
    <3>3. QED
      BY <3>1, <3>2
  <2>5. ASSUME NEW w \in VersionIds, Stored(w)'
        PROVE  /\ row'[w].number \in Nat \ {0}
               /\ row'[w].number > 1 => \E u \in later(row'[w].plan) :
                                           row'[u].number = row'[w].number - 1
    <3>1. CASE w = v
      <4>1. row'[w].number = reads[r].latest + 1 /\ row'[w].plan = newRow.plan
        BY <1>4, <1>8, <3>1
      <4>2. ASSUME reads[r].latest # 0
            PROVE  \E u \in VersionsOf(newRow.plan) :
                      u # v /\ row[u].number = reads[r].latest
        BY <1>1, <2>1, <4>2 DEF VersionsOf
      <4>3. QED
        BY <1>2, <1>8, <2>2, <4>1, <4>2 DEF VersionsOf
    <3>2. CASE w # v
      <4>1. Stored(w) /\ row'[w] = row[w]
        BY <1>8, <2>5, <3>2
      <4>2. /\ row[w].number \in Nat \ {0}
            /\ row[w].number > 1 => \E u \in VersionsOf(row[w].plan) :
                                       row[u].number = row[w].number - 1
        BY <4>1 DEF IInv, ConsecutiveNumbers
      <4>3. \A u \in VersionsOf(row[w].plan) : u # v /\ u \in VersionIds
        BY <1>1 DEF VersionsOf
      <4>4. QED
        BY <1>8, <2>2, <4>1, <4>2, <4>3
    <3>3. QED
      BY <3>1, <3>2
  <2>6. QED
    BY <2>4, <2>5 DEF ConsecutiveNumbers, VersionsOf, Stored, later
<1>12. AuditOK'
  <2>1. ASSUME NEW e \in audit, e.action \in Actions \cap
                  {"plan.drafted", "plan.draft_updated", "plan.published"}
        PROVE  e.version \in VersionIds /\ Stored(e.version) /\ e.version # v
    BY <1>1, <2>1 DEF IInv, AuditOK
  <2>2. QED
    BY <1>4, <1>7, <1>8, <2>1 DEF IInv, AuditOK, actions, Actions
<1>13. PublishedOnce'
  <2>1. ASSUME NEW w \in VersionIds
        PROVE  {e \in audit' : e.version = w /\ e.action = "plan.published"}
                 = {e \in audit : e.version = w /\ e.action = "plan.published"}
    BY <1>7 DEF actions
  <2>2. {e \in audit : e.version = v /\ e.action = "plan.published"} = {}
    BY <1>1 DEF IInv, AuditOK
  <2>3. QED
    BY <1>4, <1>8, <2>1, <2>2 DEF IInv, PublishedOnce
<1>14. QED
  BY <1>7, <1>9, <1>10, <1>11, <1>12, <1>13 DEF IInv

\* A commit that keeps a version's plan, number and author keeps the numbering
\* and what every request knows.
LEMMA ChangedRow ==
    ASSUME IInv, NEW r \in Requests, NEW v \in VersionIds, NEW newRow \in Row,
           NEW actions \in SUBSET Actions, pc[r] = "commit",
           Commit(r, v, newRow, actions), newRow.status # "absent",
           Stored(v), newRow.plan = row[v].plan, newRow.number = row[v].number,
           newRow.author = row[v].author,
           versionLock[v] = r \/ newRow.status = row[v].status
    PROVE  /\ TypeOK'
           /\ \A q \in Requests : RequestOK(q)'
           /\ ConsecutiveNumbers'
           /\ row'[v] = newRow
           /\ \A w \in VersionIds : /\ w # v => row'[w] = row[w]
                                    /\ Stored(w)' <=> Stored(w)
           /\ audit \subseteq audit'
           /\ \A e \in audit' \ audit : e.version = v /\ e.action \in actions
                                        /\ e.actor = req[r].actor
           /\ \A a \in actions : Event(r, a, v) \in audit'
<1>1. /\ TypeOK' /\ row' = [row EXCEPT ![v] = newRow] /\ audit \subseteq audit'
      /\ \A e \in audit' \ audit : e.version = v /\ e.action \in actions
                                   /\ e.actor = req[r].actor
      /\ \A a \in actions : Event(r, a, v) \in audit'
  BY CommitShape
<1>2. /\ row'[v] = newRow
      /\ \A w \in VersionIds : /\ w # v => row'[w] = row[w]
                               /\ Stored(w)' <=> Stored(w)
  BY <1>1 DEF IInv, TypeOK, Stored
<1>3. \A q \in Requests : RequestOK(q)'
  <2>1. RequestOK(r)'
    BY CommitSelf
  <2>2. ASSUME NEW q \in Requests, q # r PROVE RequestOK(q)'
    BY <2>2, CommitOthers
  <2>3. QED
    BY <2>1, <2>2
<1>4. \A w \in VersionIds : row'[w].plan = row[w].plan /\ row'[w].number = row[w].number
  BY <1>2
<1>5. ConsecutiveNumbers'
  BY <1>2, <1>4 DEF IInv, ConsecutiveNumbers, VersionsOf, Stored
<1>6. QED
  BY <1>1, <1>2, <1>3, <1>5

\* An author replaces the terms and services of a draft.
LEMMA CommitUpdateKeeps ==
    ASSUME IInv, NEW r \in Requests, CommitUpdate(r)
    PROVE  IInv'
<1> DEFINE v == req[r].version
<1> DEFINE newRow == [row[v] EXCEPT !.text = req[r].text,
                                  !.count = req[r].count,
                                  !.generation = @ + 1,
                                  !.notes = NoNotes]
<1> DEFINE actions == {"plan.draft_updated"}
<1>1. pc[r] = "commit" /\ req[r].op = "edit_draft" /\ Commit(r, v, newRow, actions)
  BY DEF CommitUpdate
<1>2. /\ v \in VersionIds /\ Stored(v) /\ row[v] \in Row /\ req[r].actor \in Users
  BY <1>1 DEF IInv, TypeOK, RequestOK, Arrived
<1>3. /\ row[v].status = "draft" /\ row[v].author = req[r].actor /\ versionLock[v] = r
      /\ req[r].count \in Positions /\ req[r].text \in Contents
  BY <1>1 DEF IInv, RequestOK, Arrived, LocksHeld, Verified
<1>4. /\ newRow \in Row /\ newRow.plan = row[v].plan /\ newRow.number = row[v].number
      /\ newRow.author = row[v].author
      /\ newRow.status = row[v].status /\ newRow.published_by = row[v].published_by
      /\ newRow.count = req[r].count /\ newRow.text = req[r].text
  <2>1. NoNotes \in [Positions -> Requests \cup {None}]
    BY DEF NoNotes
  <2>2. req[r].count \in 0..MaxServices
    BY <1>3, BoundsAssumption DEF Positions
  <2>3. row[v].generation + 1 \in Nat
    BY <1>2 DEF Row
  <2>4. newRow = [row[v] EXCEPT !.text = req[r].text, !.count = req[r].count,
                                !.generation = row[v].generation + 1, !.notes = NoNotes]
    BY <1>2 DEF Row
  <2>5. newRow \in Row
    BY <1>2, <1>3, <2>1, <2>2, <2>3, <2>4 DEF Row
  <2>6. QED
    BY <1>2, <2>4, <2>5 DEF Row
<1> HIDE DEF newRow
<1>5. actions \in SUBSET Actions
  BY DEF Actions
<1>6. newRow.status # "absent" /\ (versionLock[v] = r \/ newRow.status = row[v].status)
  BY <1>2, <1>3, <1>4 DEF Stored
<1> HIDE DEF actions
<1>7. /\ TypeOK' /\ (\A q \in Requests : RequestOK(q)') /\ ConsecutiveNumbers'
      /\ row'[v] = newRow
      /\ \A w \in VersionIds : /\ w # v => row'[w] = row[w]
                               /\ Stored(w)' <=> Stored(w)
      /\ audit \subseteq audit'
      /\ \A e \in audit' \ audit : e.version = v /\ e.action \in actions
                                   /\ e.actor = req[r].actor
      /\ \A a \in actions : Event(r, a, v) \in audit'
  BY <1>1, <1>2, <1>4, <1>5, <1>6, ChangedRow
<1>8. \A w \in VersionIds : RowOK(w)'
  BY <1>2, <1>3, <1>4, <1>7 DEF IInv, RowOK
<1>9. AuditOK'
  BY <1>2, <1>3, <1>4, <1>7 DEF IInv, AuditOK, actions
<1>10. PublishedOnce'
  <2>1. ASSUME NEW w \in VersionIds
        PROVE  {e \in audit' : e.version = w /\ e.action = "plan.published"}
                 = {e \in audit : e.version = w /\ e.action = "plan.published"}
    BY <1>7 DEF actions
  <2>2. \A w \in VersionIds : row'[w].status = row[w].status
                              /\ row'[w].published_by = row[w].published_by
    BY <1>3, <1>4, <1>7
  <2>3. QED
    BY <2>1, <2>2 DEF IInv, PublishedOnce
<1>11. QED
  BY <1>7, <1>8, <1>9, <1>10 DEF IInv

\* Somebody else than the author publishes a draft.
LEMMA CommitPublishKeeps ==
    ASSUME IInv, NEW r \in Requests, CommitPublish(r)
    PROVE  IInv'
<1> DEFINE v == req[r].version
<1> DEFINE newRow == [row[v] EXCEPT !.status = "published",
                                  !.published_by = req[r].actor]
<1> DEFINE actions == {"plan.published"}
<1>1. pc[r] = "commit" /\ req[r].op = "publish" /\ Commit(r, v, newRow, actions)
  BY DEF CommitPublish, Published
<1>2. /\ v \in VersionIds /\ Stored(v) /\ row[v] \in Row /\ req[r].actor \in Users
  BY <1>1 DEF IInv, TypeOK, RequestOK, Arrived
<1>3. /\ row[v].status = "draft" /\ row[v].author # req[r].actor /\ versionLock[v] = r
  BY <1>1 DEF IInv, RequestOK, LocksHeld, Verified
<1>4. /\ newRow \in Row /\ newRow.plan = row[v].plan /\ newRow.number = row[v].number
      /\ newRow.author = row[v].author
      /\ newRow.status = "published" /\ newRow.published_by = req[r].actor
      /\ newRow.count = row[v].count /\ newRow.text = row[v].text
  BY <1>2 DEF Row
<1> HIDE DEF newRow
<1>5. actions \in SUBSET Actions
  BY DEF Actions
<1>6. newRow.status # "absent" /\ (versionLock[v] = r \/ newRow.status = row[v].status)
  BY <1>2, <1>3, <1>4 DEF Stored
<1> HIDE DEF actions
<1>7. /\ TypeOK' /\ (\A q \in Requests : RequestOK(q)') /\ ConsecutiveNumbers'
      /\ row'[v] = newRow
      /\ \A w \in VersionIds : /\ w # v => row'[w] = row[w]
                               /\ Stored(w)' <=> Stored(w)
      /\ audit \subseteq audit'
      /\ \A e \in audit' \ audit : e.version = v /\ e.action \in actions
                                   /\ e.actor = req[r].actor
      /\ \A a \in actions : Event(r, a, v) \in audit'
  BY <1>1, <1>2, <1>4, <1>5, <1>6, ChangedRow
<1>8. \A w \in VersionIds : RowOK(w)'
  BY <1>2, <1>3, <1>4, <1>7 DEF IInv, RowOK
<1>9. AuditOK'
  BY <1>2, <1>3, <1>4, <1>7 DEF IInv, AuditOK, actions
<1>10. PublishedOnce'
  <2> DEFINE E(w, log) == {e \in log : e.version = w /\ e.action = "plan.published"}
  <2> DEFINE new == Event(r, "plan.published", v)
  <2>1. E(v, audit) = {}
    BY <1>2, <1>3 DEF IInv, PublishedOnce
  <2>2. new \in audit' /\ new.version = v /\ new.action = "plan.published"
        /\ new.actor = req[r].actor /\ audit' = audit \cup {new}
    BY <1>1, <1>7 DEF actions, Event, Commit
  <2>3. E(v, audit') = {new}
    BY <2>1, <2>2
  <2>4. \A w \in VersionIds : w # v => E(w, audit') = E(w, audit)
    BY <2>2
  <2>5. ASSUME NEW w \in VersionIds
        PROVE  IF row'[w].status = "published"
                  THEN \E e \in E(w, audit') :
                          E(w, audit') = {e} /\ e.actor = row'[w].published_by
                  ELSE E(w, audit') = {}
    <3>1. CASE w = v
      BY <1>4, <1>7, <2>2, <2>3, <3>1
    <3>2. CASE w # v
      BY <1>7, <2>4, <3>2 DEF IInv, PublishedOnce
    <3>3. QED
      BY <3>1, <3>2
  <2>6. QED
    BY <2>5 DEF PublishedOnce
<1>11. QED
  BY <1>7, <1>8, <1>9, <1>10 DEF IInv

\* A coverage edit only changes mutable content.
LEMMA CommitCoverageKeeps ==
    ASSUME IInv, NEW r \in Requests, CommitCoverage(r)
    PROVE  IInv'
<1> DEFINE v == req[r].version
<1> DEFINE newRow == [row[v] EXCEPT !.notes[req[r].position] = r]
<1> DEFINE actions == {"plan.coverage_notes_updated", "plan.coverage_presentation_updated"}
<1>1. pc[r] = "commit" /\ req[r].op = "coverage" /\ Commit(r, v, newRow, actions)
  BY DEF CommitCoverage
<1>2. /\ v \in VersionIds /\ Stored(v) /\ row[v] \in Row /\ req[r].actor \in Users
  BY <1>1 DEF IInv, TypeOK, RequestOK, Arrived
<1>3. TRUE
  OBVIOUS
<1>4. /\ newRow \in Row /\ newRow.plan = row[v].plan /\ newRow.number = row[v].number
      /\ newRow.author = row[v].author
      /\ newRow.status = row[v].status /\ newRow.published_by = row[v].published_by
      /\ newRow.count = row[v].count /\ newRow.text = row[v].text
  <2>1. row[v].notes \in [Positions -> Requests \cup {None}]
    BY <1>2 DEF Row
  <2>2. [row[v].notes EXCEPT ![req[r].position] = r] \in [Positions -> Requests \cup {None}]
    BY <2>1
  <2>3. newRow = [row[v] EXCEPT !.notes = [row[v].notes EXCEPT ![req[r].position] = r]]
    OBVIOUS
  <2>4. QED
    BY <1>2, <2>2, <2>3 DEF Row
<1> HIDE DEF newRow
<1>5. actions \in SUBSET Actions
  BY DEF Actions
<1>6. newRow.status # "absent" /\ (versionLock[v] = r \/ newRow.status = row[v].status)
  BY <1>2, <1>3, <1>4 DEF Stored
<1> HIDE DEF actions
<1>7. /\ TypeOK' /\ (\A q \in Requests : RequestOK(q)') /\ ConsecutiveNumbers'
      /\ row'[v] = newRow
      /\ \A w \in VersionIds : /\ w # v => row'[w] = row[w]
                               /\ Stored(w)' <=> Stored(w)
      /\ audit \subseteq audit'
      /\ \A e \in audit' \ audit : e.version = v /\ e.action \in actions
                                   /\ e.actor = req[r].actor
      /\ \A a \in actions : Event(r, a, v) \in audit'
  BY <1>1, <1>2, <1>4, <1>5, <1>6, ChangedRow
<1>8. \A w \in VersionIds : RowOK(w)'
  BY <1>2, <1>3, <1>4, <1>7 DEF IInv, RowOK
<1>9. AuditOK'
  BY <1>2, <1>3, <1>4, <1>7 DEF IInv, AuditOK, actions
<1>10. PublishedOnce'
  <2>1. ASSUME NEW w \in VersionIds
        PROVE  {e \in audit' : e.version = w /\ e.action = "plan.published"}
                 = {e \in audit : e.version = w /\ e.action = "plan.published"}
    BY <1>7 DEF actions
  <2>2. \A w \in VersionIds : row'[w].status = row[w].status
                              /\ row'[w].published_by = row[w].published_by
    BY <1>3, <1>4, <1>7
  <2>3. QED
    BY <2>1, <2>2 DEF IInv, PublishedOnce
<1>11. QED
  BY <1>7, <1>8, <1>9, <1>10 DEF IInv

-----------------------------------------------------------------------------
\* An arriving request only writes its own entries.
LEMMA ArrivalShape ==
    ASSUME IInv, NEW r \in Requests, Arrival(r)
    PROVE  \E request \in Request, plan \in Plans,
              first \in {"select", "candidate", "coverage"} :
              /\ Arrive(r, request, plan, first)
              /\ request.op = "create_draft" => first = "select" /\ request.plan = plan
              /\ request.op \in {"edit_draft", "publish"} => first = "candidate"
              /\ request.op = "coverage" => first = "coverage"
              /\ request.op # "create_draft" =>
                    /\ request.version \in VersionIds /\ Stored(request.version)
                    /\ plan = row[request.version].plan
              /\ request.op \in {"create_draft", "edit_draft"} => request.text \in Contents
              /\ request.op \in Operations /\ request.actor \in Users
<1>1. PICK u \in Users :
        \/ \E plan \in Plans, text \in Contents, count \in 0..MaxServices :
              CreateDraft(r, u, plan, text, count)
        \/ \E v \in VersionIds :
              \/ \E text \in Contents, count \in 0..MaxServices :
                    UpdateDraft(r, u, v, text, count)
              \/ PublishDraft(r, u, v)
              \/ \E p \in Positions : ManageCoverage(r, u, v, p)
  BY DEF Arrival
<1>2. /\ 1 \in Positions /\ 0 \in Nat /\ 0 \in 0..MaxServices
      /\ NoRequest = [op |-> "none", actor |-> None, plan |-> None, version |-> None,
                      position |-> 1, generation |-> 0, text |-> None, count |-> 0]
  BY BoundsAssumption DEF Positions, NoRequest
<1>3. \A v \in VersionIds : Stored(v) => row[v].plan \in Plans /\ row[v].generation \in Nat
  BY DEF IInv, TypeOK, RowOK, Row
<1>4. ASSUME NEW plan \in Plans, NEW text \in Contents, NEW count \in 0..MaxServices,
             CreateDraft(r, u, plan, text, count)
      PROVE  \E request \in Request :
                /\ request.op = "create_draft" /\ request.plan = plan
                /\ request.actor = u /\ request.text = text
                /\ Arrive(r, request, plan, "select")
  <2> DEFINE request == [NoRequest EXCEPT !.op = "create_draft", !.actor = u,
                             !.plan = plan, !.text = text, !.count = count]
  <2>1. request \in Request /\ request.op = "create_draft" /\ request.plan = plan
       /\ request.actor = u /\ request.text = text
    BY <1>2 DEF Request, Operations
  <2>2. Arrive(r, request, plan, "select")
    BY <1>4 DEF CreateDraft
  <2> HIDE DEF request
  <2>3. QED
    BY <2>1, <2>2
<1>5. ASSUME NEW v \in VersionIds, NEW text \in Contents, NEW count \in 0..MaxServices,
             UpdateDraft(r, u, v, text, count)
      PROVE  /\ row[v].plan \in Plans /\ Stored(v)
             /\ \E request \in Request :
                   /\ request.op = "edit_draft" /\ request.version = v
                   /\ request.actor = u /\ request.text = text
                   /\ Arrive(r, request, row[v].plan, "candidate")
  <2> DEFINE request == [NoRequest EXCEPT !.op = "edit_draft", !.actor = u,
                             !.version = v, !.text = text, !.count = count]
  <2>1. request \in Request /\ request.op = "edit_draft" /\ request.version = v
       /\ request.actor = u /\ request.text = text
    BY <1>2 DEF Request, Operations
  <2>2. Arrive(r, request, row[v].plan, "candidate") /\ row[v].plan \in Plans /\ Stored(v)
    BY <1>3, <1>5 DEF UpdateDraft
  <2> HIDE DEF request
  <2>3. QED
    BY <2>1, <2>2
<1>6. ASSUME NEW v \in VersionIds, PublishDraft(r, u, v)
      PROVE  /\ row[v].plan \in Plans /\ Stored(v)
             /\ \E request \in Request :
                   /\ request.op = "publish" /\ request.version = v /\ request.actor = u
                   /\ Arrive(r, request, row[v].plan, "candidate")
  <2> DEFINE request == [NoRequest EXCEPT !.op = "publish", !.actor = u, !.version = v]
  <2>1. request \in Request /\ request.op = "publish" /\ request.version = v
       /\ request.actor = u
    BY <1>2 DEF Request, Operations
  <2>2. Arrive(r, request, row[v].plan, "candidate") /\ row[v].plan \in Plans /\ Stored(v)
    BY <1>3, <1>6 DEF PublishDraft
  <2> HIDE DEF request
  <2>3. QED
    BY <2>1, <2>2
<1>7. ASSUME NEW v \in VersionIds, NEW p \in Positions, ManageCoverage(r, u, v, p)
      PROVE  /\ row[v].plan \in Plans /\ Stored(v)
             /\ \E request \in Request :
                   /\ request.op = "coverage" /\ request.version = v /\ request.actor = u
                   /\ Arrive(r, request, row[v].plan, "coverage")
  <2> DEFINE request == [NoRequest EXCEPT !.op = "coverage", !.actor = u, !.version = v,
                             !.position = p, !.generation = row[v].generation]
  <2>1. Arrive(r, request, row[v].plan, "coverage") /\ row[v].plan \in Plans /\ Stored(v)
        /\ row[v].generation \in Nat
    BY <1>3, <1>7 DEF ManageCoverage
  <2>2. request \in Request /\ request.op = "coverage" /\ request.version = v
       /\ request.actor = u
    BY <1>2, <2>1 DEF Request, Operations
  <2> HIDE DEF request
  <2>3. QED
    BY <2>1, <2>2
<1>8. QED
  BY <1>1, <1>4, <1>5, <1>6, <1>7 DEF Operations

\* A request that arrives names an existing row and has read nothing yet.
LEMMA ArriveKeeps ==
    ASSUME IInv, NEW r \in Requests, NEW request \in Request,
           NEW plan \in Plans, NEW first \in {"select", "candidate", "coverage"},
           Arrive(r, request, plan, first),
           request.actor \in Users, request.op \in Operations,
           request.op = "create_draft" =>
              first = "select" /\ request.plan = plan /\ request.text \in Contents,
           request.op # "create_draft" =>
              request.version \in VersionIds /\ Stored(request.version),
           request.op = "edit_draft" => request.text \in Contents,
           request.op \in {"edit_draft", "publish"} => first = "candidate",
           request.op = "coverage" => first = "coverage"
    PROVE  IInv'
<1>1. /\ pc[r] = "idle"
      /\ req' = [req EXCEPT ![r] = request]
      /\ reads' = [reads EXCEPT ![r].plan = IF first = "select" THEN plan ELSE None]
      /\ pc' = [pc EXCEPT ![r] = first]
      /\ witnessed' = [witnessed EXCEPT ![r] =
            ScopeFacts(request.actor, plan, admins, resellerLive, providerLive)]
      /\ UNCHANGED <<row, audit, locks, scope>>
  BY DEF Arrive
<1>2. reads \in [Requests -> Reads] /\ pc \in [Requests -> {"idle"} \cup Working \cup Answered]
      /\ req \in [Requests -> Request]
  BY DEF IInv, TypeOK
<1>3. /\ reads'[r] = [reads[r] EXCEPT !.plan = IF first = "select" THEN plan ELSE None]
      /\ reads'[r] \in Reads
      /\ reads'[r].plan = IF first = "select" THEN plan ELSE None
  BY <1>1, <1>2 DEF Reads
<1>4. reads' \in [Requests -> Reads] /\ \A q \in Requests \ {r} : reads'[q] = reads[q]
  BY <1>1, <1>2, <1>3
<1>5. ScopeFacts(request.actor, plan, admins, resellerLive, providerLive)
        \in SUBSET {"catalog", "provider"}
  BY DEF ScopeFacts
<1>6. TypeOK'
  BY <1>1, <1>4, <1>5 DEF IInv, TypeOK, scope, locks, Working
<1>7. pc'[r] = first /\ req'[r] = request /\ row' = row
  BY <1>1, <1>2
<1>8. RequestOK(r)'
  BY <1>3, <1>7 DEF RequestOK, Arrived, Flow, PlanKnown, LocksHeld, Verified, Stored,
     DraftSteps, UnderPlanLock, UnderVersionLock, CoverageSteps, KnowsPlan, Operations
<1>9. \A q \in Requests \ {r} :
        /\ pc'[q] = pc[q] /\ req'[q] = req[q]
        /\ \A p \in Plans : planLock[p] = q => planLock'[p] = q
        /\ \A v \in VersionIds : versionLock[v] = q => versionLock'[v] = q
  BY <1>1, <1>2 DEF locks
<1>10. QED
  BY <1>1, <1>4, <1>6, <1>8, <1>9, NoWrites

\* The four operations arrive that way.
LEMMA ArrivalKeeps ==
    ASSUME IInv, NEW r \in Requests, Arrival(r)
    PROVE  IInv'
BY ArrivalShape, ArriveKeeps

\* Changes of grants, resellers and providers touch neither rows nor requests.
LEMMA PlatformKeeps ==
    ASSUME IInv, Platform
    PROVE  IInv'
<1>1. /\ ChangeScope
      /\ admins' \in [Plans -> SUBSET Users]
      /\ resellerLive' \in [Plans -> BOOLEAN]
      /\ providerLive' \in [Plans -> BOOLEAN]
  <2>1. /\ admins \in [Plans -> SUBSET Users]
        /\ resellerLive \in [Plans -> BOOLEAN]
        /\ providerLive \in [Plans -> BOOLEAN]
    BY DEF IInv, TypeOK
  <2>2. PICK plan \in Plans :
          \/ \E u \in Users \ Superusers : GrantOrRevoke(u, plan)
          \/ ToggleReseller(plan)
          \/ ToggleProvider(plan)
    BY DEF Platform
  <2>3. CASE \E u \in Users \ Superusers : GrantOrRevoke(u, plan)
    BY <2>1, <2>3 DEF GrantOrRevoke
  <2>4. CASE ToggleReseller(plan)
    BY <2>1, <2>4 DEF ToggleReseller
  <2>5. CASE ToggleProvider(plan)
    BY <2>1, <2>5 DEF ToggleProvider
  <2>6. QED
    BY <2>2, <2>3, <2>4, <2>5
<1>2. UNCHANGED <<row, audit, locks, pc, req, reads>>
  BY <1>1 DEF ChangeScope
<1>3. changes' \in 0..MaxChanges
  BY <1>1, BoundsAssumption DEF ChangeScope, IInv, TypeOK
<1>4. witnessed' \in [Requests -> SUBSET {"catalog", "provider"}]
  BY <1>1 DEF ChangeScope, ScopeFacts, IInv, TypeOK
<1>5. TypeOK'
  BY <1>1, <1>2, <1>3, <1>4 DEF IInv, TypeOK, locks
<1>6. \A q \in Requests : RequestOK(q)'
  BY <1>2, Undisturbed DEF IInv, locks
<1>7. ConsecutiveNumbers' /\ (\A v \in VersionIds : RowOK(v)') /\ AuditOK' /\ PublishedOnce'
  BY <1>2 DEF IInv, ConsecutiveNumbers, VersionsOf, RowOK, AuditOK, PublishedOnce, Stored
<1>8. QED
  BY <1>5, <1>6, <1>7 DEF IInv

-----------------------------------------------------------------------------
\* Every step preserves the invariant.
LEMMA StepIInv == IInv /\ [Next]_vars => IInv'
<1> SUFFICES ASSUME IInv, [Next]_vars PROVE IInv'
  OBVIOUS
<1>1. CASE UNCHANGED vars
  BY <1>1 DEF vars, locks, scope, IInv, TypeOK, ConsecutiveNumbers, VersionsOf, RowOK,
     AuditOK, PublishedOnce, Stored, RequestOK, Arrived, Flow, PlanKnown, LocksHeld, Verified
<1>2. ASSUME NEW r \in Requests, Arrival(r) PROVE IInv'
  BY <1>2, ArrivalKeeps
<1>3. ASSUME NEW r \in Requests, Statement(r) PROVE IInv'
  <2>1. CASE Candidate(r) \/ SelectEditablePlan(r) \/ LockPlan(r)
    BY <2>1, CandidateKeeps, SelectEditablePlanKeeps, LockPlanKeeps
  <2>2. CASE CheckEditablePlan(r) \/ LockVersion(r) \/ LatestNumber(r)
    BY <2>2, CheckEditablePlanKeeps, LockVersionKeeps, LatestNumberKeeps
  <2>3. CASE \E v \in VersionIds : CommitDraft(r, v)
    BY <2>3, CommitDraftKeeps
  <2>4. CASE CheckUpdateDraft(r) \/ SaveTerms(r) \/ CommitUpdate(r)
    BY <2>4, CheckUpdateDraftKeeps, SaveTermsKeeps, CommitUpdateKeeps
  <2>5. CASE \E p \in Positions : LockServiceRow(r, p)
    BY <2>5, LockServiceRowKeeps
  <2>6. CASE CheckPublish(r) \/ CommitPublish(r)
    BY <2>6, CheckPublishKeeps, CommitPublishKeeps
  <2>7. CASE SelectCoverage(r) \/ LockService(r) \/ LockCoverageVersion(r)
    BY <2>7, SelectCoverageKeeps, LockServiceKeeps, LockCoverageVersionKeeps
  <2>8. CASE LockCoveragePlan(r) \/ CheckCoverage(r) \/ CommitCoverage(r)
    BY <2>8, LockCoveragePlanKeeps, CheckCoverageKeeps, CommitCoverageKeeps
  <2>9. CASE RecordRefusal(r) \/ DeadlockAbort(r)
    BY <2>9, RecordRefusalKeeps, DeadlockAbortKeeps
  <2>10. QED
    BY <1>3, <2>1, <2>2, <2>3, <2>4, <2>5, <2>6, <2>7, <2>8, <2>9 DEF Statement
<1>4. ASSUME NEW r \in Requests, Crash(r) PROVE IInv'
  BY <1>4, CrashKeeps
<1>5. CASE Platform
  BY <1>5, PlatformKeeps
<1>6. CASE Quiescent
  BY <1>1, <1>6 DEF Quiescent
<1>7. QED
  BY <1>1, <1>2, <1>3, <1>4, <1>5, <1>6 DEF Next

THEOREM Invariance == Spec => []IInv
BY InitIInv, StepIInv, PTL DEF Spec

\* Rows, requests, locks and evidence always have their types: no statement
\* reads a plan, version or service its transaction has not found.
THEOREM TypeCorrect == Spec => []TypeOK
<1>1. IInv => TypeOK
  BY DEF IInv
<1>2. QED
  BY <1>1, Invariance, PTL

\* For any number of concurrent requests, the drafts of a plan are numbered
\* consecutively from 1 and no number is used twice.
THEOREM NumbersConsecutive == Spec => []ConsecutiveNumbers
<1>1. IInv => ConsecutiveNumbers
  BY DEF IInv
<1>2. QED
  BY <1>1, Invariance, PTL

\* A version is published by one request at most, and the evidence says which.
THEOREM PublishedOnlyOnce == Spec => []PublishedOnce
<1>1. IInv => PublishedOnce
  BY DEF IInv
<1>2. QED
  BY <1>1, Invariance, PTL

\* Nobody ever publishes a version that they drafted or edited.
THEOREM TwoPersons == Spec => []TwoPersonPublication
<1>1. IInv => TwoPersonPublication
  <2> SUFFICES ASSUME IInv, NEW v \in VersionIds, row[v].status = "published"
               PROVE  /\ row[v].published_by # None
                      /\ \A e \in audit :
                           e.version = v /\ e.action \in {"plan.drafted", "plan.draft_updated"}
                             => e.actor # row[v].published_by
    BY DEF TwoPersonPublication
  <2>1. row[v].published_by \in Users /\ row[v].published_by # row[v].author
    BY DEF IInv, RowOK, Stored
  <2>2. QED
    BY <2>1, UsersAssumption DEF IInv, AuditOK
<1>2. QED
  BY <1>1, Invariance, PTL

-----------------------------------------------------------------------------
\* Only the four commits write version rows.
LEMMA WhoWrites ==
    ASSUME [Next]_vars
    PROVE  \/ row' = row
           \/ \E r \in Requests : \/ \E v \in VersionIds : CommitDraft(r, v)
                                  \/ CommitUpdate(r)
                                  \/ CommitPublish(r)
                                  \/ CommitCoverage(r)
<1>1. CASE UNCHANGED vars \/ Platform \/ Quiescent
  BY <1>1 DEF vars, Platform, Quiescent, GrantOrRevoke, ToggleReseller, ToggleProvider,
     ChangeScope
<1>2. ASSUME NEW r \in Requests, Arrival(r) PROVE row' = row
  <2>1. \E request, plan, first : Arrive(r, request, plan, first)
    <3>1. ASSUME NEW u, NEW plan, NEW text, NEW count, CreateDraft(r, u, plan, text, count)
          PROVE  \E request, p, first : Arrive(r, request, p, first)
      BY <3>1 DEF CreateDraft
    <3>2. ASSUME NEW u, NEW v, NEW text, NEW count, UpdateDraft(r, u, v, text, count)
          PROVE  \E request, p, first : Arrive(r, request, p, first)
      BY <3>2 DEF UpdateDraft
    <3>3. ASSUME NEW u, NEW v, PublishDraft(r, u, v)
          PROVE  \E request, p, first : Arrive(r, request, p, first)
      BY <3>3 DEF PublishDraft
    <3>4. ASSUME NEW u, NEW v, NEW p, ManageCoverage(r, u, v, p)
          PROVE  \E request, q, first : Arrive(r, request, q, first)
      BY <3>4 DEF ManageCoverage
    <3>5. QED
      BY <1>2, <3>1, <3>2, <3>3, <3>4 DEF Arrival
  <2>2. QED
    BY <2>1 DEF Arrive
<1>3. ASSUME NEW r \in Requests, Crash(r) \/ DeadlockAbort(r) \/ RecordRefusal(r)
      PROVE  row' = row
  BY <1>3 DEF Crash, DeadlockAbort, RecordRefusal
<1>4. ASSUME NEW r \in Requests,
             \/ Candidate(r) \/ SelectEditablePlan(r) \/ CheckEditablePlan(r)
             \/ LatestNumber(r) \/ CheckUpdateDraft(r) \/ SaveTerms(r)
             \/ CheckPublish(r) \/ SelectCoverage(r) \/ CheckCoverage(r)
      PROVE  row' = row
  BY <1>4 DEF Candidate, SelectEditablePlan, CheckEditablePlan, LatestNumber,
     CheckUpdateDraft, SaveTerms, CheckPublish, SelectCoverage, CheckCoverage,
     Proceed, Continue, Refuse
<1>5. ASSUME NEW r \in Requests,
             \/ LockPlan(r) \/ LockVersion(r) \/ LockService(r)
             \/ LockCoverageVersion(r) \/ LockCoveragePlan(r)
             \/ \E p \in Positions : LockServiceRow(r, p)
      PROVE  row' = row
  BY <1>5 DEF LockPlan, LockVersion, LockService, LockCoverageVersion, LockCoveragePlan,
     LockServiceRow, Refuse
<1>6. QED
  BY <1>1, <1>2, <1>3, <1>4, <1>5 DEF Next, Statement

\* What the commits write, for the theorems about every step.
Drafted(r, v) ==
    /\ ~Stored(v)
    /\ reads[r].plan \in Plans
    /\ req[r].text \in Contents /\ req[r].count \in Positions
    /\ reads[r].latest \in {0} \cup {row[w].number : w \in VersionsOf(reads[r].plan)}
    /\ \A w \in VersionsOf(reads[r].plan) : row[w].number <= reads[r].latest
    /\ row' = [row EXCEPT ![v] =
         [status |-> "draft", plan |-> reads[r].plan,
          number |-> reads[r].latest + 1, author |-> req[r].actor,
          text |-> req[r].text, count |-> req[r].count,
          generation |-> 0, notes |-> NoNotes, published_by |-> None]]

Revised(r, v) ==
    /\ row[v].status = "draft"
    /\ req[r].text \in Contents /\ req[r].count \in Positions
    /\ row' = [row EXCEPT ![v] =
         [row[v] EXCEPT !.text = req[r].text, !.count = req[r].count,
                        !.generation = @ + 1, !.notes = NoNotes]]

PublishedBy(r, v) ==
    /\ row[v].status = "draft"
    /\ req[r].actor # row[v].author
    /\ row' = [row EXCEPT ![v] =
         [row[v] EXCEPT !.status = "published", !.published_by = req[r].actor]]

Annotated(r, v) ==
    /\ Stored(v)
    /\ row' = [row EXCEPT ![v] = [row[v] EXCEPT !.notes[req[r].position] = r]]

LEMMA WhatIsWritten ==
    ASSUME IInv, [Next]_vars
    PROVE  \/ row' = row
           \/ \E r \in Requests, v \in VersionIds :
                 /\ req[r].actor \in Users
                 /\ \/ Drafted(r, v) \/ Revised(r, v)
                    \/ PublishedBy(r, v) \/ Annotated(r, v)
<1>1. ASSUME NEW r \in Requests, pc[r] = "commit"
      PROVE  /\ Arrived(r) /\ PlanKnown(r) /\ Verified(r)
             /\ pc[r] # "idle" /\ pc[r] \in KnowsPlan
  BY <1>1 DEF IInv, RequestOK, KnowsPlan
<1>2. ASSUME NEW r \in Requests, NEW v \in VersionIds, CommitDraft(r, v)
      PROVE  req[r].actor \in Users /\ Drafted(r, v)
  BY <1>1, <1>2 DEF CommitDraft, Commit, Arrived, PlanKnown, Verified, Drafted
<1>3. ASSUME NEW r \in Requests, CommitUpdate(r)
      PROVE  /\ req[r].actor \in Users /\ req[r].version \in VersionIds
             /\ Revised(r, req[r].version)
  BY <1>1, <1>3 DEF CommitUpdate, Commit, Arrived, Verified, Revised
<1>4. ASSUME NEW r \in Requests, CommitPublish(r)
      PROVE  /\ req[r].actor \in Users /\ req[r].version \in VersionIds
             /\ PublishedBy(r, req[r].version)
  BY <1>1, <1>4 DEF CommitPublish, Published, Commit, Arrived, Verified, PublishedBy
<1>5. ASSUME NEW r \in Requests, CommitCoverage(r)
      PROVE  /\ req[r].actor \in Users /\ req[r].version \in VersionIds
             /\ Annotated(r, req[r].version)
  BY <1>1, <1>5 DEF CommitCoverage, Commit, Arrived, Annotated
<1>6. QED
  BY <1>2, <1>3, <1>4, <1>5, WhoWrites

\* No step of any request, whatever it read earlier, changes a published
\* version, except for the mutable content of its services.
THEOREM TermsFrozen == Spec => PublishedTermsFrozen
<1>1. IInv /\ [Next]_vars =>
        [\A v \in VersionIds : row[v].status = "published" =>
            row'[v] = [row[v] EXCEPT !.notes = row'[v].notes]]_vars
  <2> SUFFICES ASSUME IInv, [Next]_vars, NEW v \in VersionIds, row[v].status = "published"
               PROVE  row'[v] = [row[v] EXCEPT !.notes = row'[v].notes]
    OBVIOUS
  <2>1. row \in [VersionIds -> Row] /\ row[v] \in Row
    BY DEF IInv, TypeOK
  <2>2. row[v] = [row[v] EXCEPT !.notes = row[v].notes]
    BY <2>1 DEF Row
  <2>3. \/ row'[v] = row[v]
        \/ \E r \in Requests : row'[v] =
              [row[v] EXCEPT !.notes = [row[v].notes EXCEPT ![req[r].position] = r]]
    BY <2>1, WhatIsWritten DEF Stored, Drafted, Revised, PublishedBy, Annotated
  <2>4. QED
    BY <2>1, <2>2, <2>3 DEF Row
<1>2. QED
  BY <1>1, Invariance, PTL DEF Spec, PublishedTermsFrozen

-----------------------------------------------------------------------------
(* Who holds which lock, exactly.  LocksHeld says what an operation that    *)
(* writes needs; the properties about services and deadlocks also need that *)
(* nobody else holds anything, coverage edits included.                     *)

Services == VersionIds \X Positions

\* Inside update_coverage_presentation, where the locks of
\* update_coverage_notes are still held.
Inside(r) ==
    /\ reads[r].entry = 2
    /\ pc[r] \in {"coverage", "commit", "refused"} \cup CoverageSteps

HasPlan(r) ==
    \/ pc[r] \in UnderPlanLock \cup {"commit", "coverageCheck"}
    \/ Inside(r)

HasVersion(r) ==
    \/ pc[r] \in UnderVersionLock \cup {"lockCoveragePlan", "coverageCheck"}
    \/ pc[r] = "commit" /\ req[r].op # "create_draft"
    \/ Inside(r)

HasService(r) ==
    \/ pc[r] \in {"lockCoverageVersion", "lockCoveragePlan", "coverageCheck"}
    \/ Inside(r)

\* Only coverage edits make a second call, and they commit in it.
EntryOK(r) ==
    /\ pc[r] = "idle" => reads[r].entry = 1
    /\ reads[r].entry = 2 => req[r].op = "coverage"
    /\ pc[r] = "commit" /\ req[r].op = "coverage" => reads[r].entry = 2
    /\ HasPlan(r) /\ req[r].op # "create_draft" =>
          reads[r].plan = row[req[r].version].plan

Owned(r) ==
    /\ \A p \in Plans : planLock[p] = r <=> HasPlan(r) /\ reads[r].plan = p
    /\ \A v \in VersionIds : versionLock[v] = r <=> HasVersion(r) /\ req[r].version = v
    /\ \A s \in Services : serviceLock[s] = r =>
          \/ /\ req[r].op = "edit_draft" /\ pc[r] \in {"deleteServices", "commit"}
             /\ s[1] = req[r].version
          \/ HasService(r) /\ s = <<req[r].version, req[r].position>>

\* The service a coverage edit works on is there, and locked by it; so is every
\* service that the edit of a draft is about to delete.
ServicesHeld(r) ==
    /\ HasService(r) =>
          ServiceExists(r) /\ serviceLock[<<req[r].version, req[r].position>>] = r
    /\ pc[r] = "commit" /\ req[r].op = "edit_draft" =>
          \A p \in 1..row[req[r].version].count : serviceLock[<<req[r].version, p>>] = r

Held(r) == EntryOK(r) /\ Owned(r) /\ ServicesHeld(r)

HeldInv == IInv /\ \A r \in Requests : Held(r)

\* A step of one request leaves another one's progress and locks alone.
Same(q) ==
    /\ pc'[q] = pc[q] /\ req'[q] = req[q] /\ reads'[q] = reads[q]
    /\ witnessed'[q] = witnessed[q]
    /\ \A p \in Plans : planLock'[p] = q <=> planLock[p] = q
    /\ \A v \in VersionIds : versionLock'[v] = q <=> versionLock[v] = q
    /\ \A s \in Services : serviceLock'[s] = q <=> serviceLock[s] = q

LEMMA ReleaseOwn ==
    ASSUME TypeOK, NEW r \in Requests, Release(r)
    PROVE  /\ \A q \in Requests \ {r} :
                 /\ \A p \in Plans : planLock'[p] = q <=> planLock[p] = q
                 /\ \A v \in VersionIds : versionLock'[v] = q <=> versionLock[v] = q
                 /\ \A s \in Services : serviceLock'[s] = q <=> serviceLock[s] = q
           /\ \A p \in Plans : planLock'[p] # r
           /\ \A v \in VersionIds : versionLock'[v] # r
           /\ \A s \in Services : serviceLock'[s] # r
BY RequestsAssumption DEF TypeOK, Release, Services

LEMMA OthersSame ==
    ASSUME IInv, NEW r \in Requests, Arrival(r) \/ Statement(r) \/ Crash(r),
           NEW q \in Requests, q # r
    PROVE  Same(q)
<1>1. TypeOK
  BY DEF IInv
<1>2. /\ DOMAIN pc = Requests /\ DOMAIN req = Requests /\ DOMAIN reads = Requests
      /\ DOMAIN witnessed = Requests
  BY <1>1 DEF TypeOK
<1>3. Release(r) =>
        /\ \A p \in Plans : planLock'[p] = q <=> planLock[p] = q
        /\ \A v \in VersionIds : versionLock'[v] = q <=> versionLock[v] = q
        /\ \A s \in Services : serviceLock'[s] = q <=> serviceLock[s] = q
  BY <1>1, ReleaseOwn
<1>4. CASE Arrival(r)
  <2>1. PICK request \in Request, plan \in Plans,
             first \in {"select", "candidate", "coverage"} : Arrive(r, request, plan, first)
    BY <1>4, ArrivalShape
  <2>2. QED
    BY <1>2, <2>1 DEF Arrive, locks, Same
<1>5. ASSUME NEW why, Refuse(r, why) PROVE Same(q)
  <2>1. CASE reads[r].entry = 2
    BY <1>2, <1>5, <2>1 DEF Refuse, locks, Same
  <2>2. CASE reads[r].entry # 2
    BY <1>2, <1>3, <1>5, <2>2 DEF Refuse, Same
  <2>3. QED
    BY <2>1, <2>2
<1>6. ASSUME NEW next, Continue(r, next), reads'[q] = reads[q] PROVE Same(q)
  BY <1>2, <1>6 DEF Continue, locks, Same
<1>7. CASE \/ Candidate(r) \/ SelectEditablePlan(r) \/ CheckEditablePlan(r)
           \/ LatestNumber(r) \/ CheckUpdateDraft(r) \/ SaveTerms(r)
           \/ CheckPublish(r) \/ SelectCoverage(r) \/ CheckCoverage(r)
  BY <1>2, <1>5, <1>6, <1>7 DEF Candidate, SelectEditablePlan, CheckEditablePlan,
     LatestNumber, CheckUpdateDraft, SaveTerms, CheckPublish, SelectCoverage,
     CheckCoverage, Proceed
<1>8. CASE LockPlan(r) \/ LockCoveragePlan(r)
  BY <1>1, <1>8, RequestsAssumption DEF TypeOK, LockPlan, LockCoveragePlan, Same
<1>9. CASE LockVersion(r) \/ LockCoverageVersion(r)
  BY <1>1, <1>9, RequestsAssumption DEF TypeOK, LockVersion, LockCoverageVersion, Same
<1>10. ASSUME NEW s, serviceLock[s] \in {None, r},
              serviceLock' = [serviceLock EXCEPT ![s] = r]
       PROVE  \A t \in Services : serviceLock'[t] = q <=> serviceLock[t] = q
  BY <1>1, <1>10, RequestsAssumption DEF TypeOK, Services
<1>11. CASE LockService(r)
  <2>1. CASE ServiceExists(r)
    BY <1>2, <1>10, <1>11, <2>1 DEF LockService, Same
  <2>2. CASE ~ServiceExists(r)
    BY <1>5, <1>11, <2>2 DEF LockService
  <2>3. QED
    BY <2>1, <2>2
<1>12. CASE \E p \in Positions : LockServiceRow(r, p)
  <2>1. PICK p \in Positions : LockServiceRow(r, p)
    BY <1>12
  <2> DEFINE s == <<req[r].version, p>>
  <2>2. /\ serviceLock[s] \in {None, r} /\ serviceLock' = [serviceLock EXCEPT ![s] = r]
        /\ UNCHANGED <<planLock, versionLock, pc, req, reads, witnessed>>
    BY <2>1 DEF LockServiceRow
  <2> HIDE DEF s
  <2>3. \A t \in Services : serviceLock'[t] = q <=> serviceLock[t] = q
    BY <1>1, <2>2, RequestsAssumption DEF TypeOK, Services
  <2>4. QED
    BY <2>2, <2>3 DEF Same
<1>13. CASE \/ \E v \in VersionIds : CommitDraft(r, v)
            \/ CommitUpdate(r) \/ CommitPublish(r) \/ CommitCoverage(r)
  <2>1. \E v, newRow, actions : Commit(r, v, newRow, actions)
    BY <1>13 DEF CommitDraft, CommitUpdate, CommitPublish, CommitCoverage
  <2>2. QED
    BY <1>2, <1>3, <2>1 DEF Commit, Same
<1>14. CASE RecordRefusal(r) \/ DeadlockAbort(r) \/ Crash(r)
  BY <1>2, <1>3, <1>14 DEF RecordRefusal, DeadlockAbort, Crash, Same
<1>15. QED
  BY <1>4, <1>7, <1>8, <1>9, <1>11, <1>12, <1>13, <1>14 DEF Statement

\* A stored version keeps its plan; its services are replaced only when the
\* edit of a draft commits.
LEMMA RowsKept ==
    ASSUME IInv, [Next]_vars, NEW v \in VersionIds, Stored(v)
    PROVE  /\ Stored(v)'
           /\ row'[v].plan = row[v].plan
           /\ \/ row'[v].count = row[v].count /\ row'[v].generation = row[v].generation
              \/ \E r \in Requests : CommitUpdate(r) /\ req[r].version = v
<1>1. row \in [VersionIds -> Row] /\ row[v] \in Row
  BY DEF IInv, TypeOK
<1>2. CASE row'[v] = row[v]
  BY <1>2 DEF Stored
<1>3. ASSUME NEW r \in Requests, NEW w \in VersionIds, CommitDraft(r, w)
      PROVE  row'[v] = row[v]
  BY <1>1, <1>3 DEF CommitDraft, Commit
<1>4. ASSUME NEW r \in Requests, CommitUpdate(r), req[r].version = v
      PROVE  row'[v].plan = row[v].plan /\ row'[v].status = row[v].status
  BY <1>1, <1>4 DEF CommitUpdate, Commit, Row
<1>5. ASSUME NEW r \in Requests, CommitUpdate(r), req[r].version # v
      PROVE  row'[v] = row[v]
  BY <1>1, <1>5 DEF CommitUpdate, Commit
<1>6. ASSUME NEW r \in Requests, CommitPublish(r)
      PROVE  /\ row'[v].plan = row[v].plan /\ Stored(v)'
             /\ row'[v].count = row[v].count /\ row'[v].generation = row[v].generation
  BY <1>1, <1>6 DEF CommitPublish, Published, Commit, Row, Stored
<1>7. ASSUME NEW r \in Requests, CommitCoverage(r)
      PROVE  /\ row'[v].plan = row[v].plan /\ Stored(v)'
             /\ row'[v].count = row[v].count /\ row'[v].generation = row[v].generation
  BY <1>1, <1>7 DEF CommitCoverage, Commit, Row, Stored
<1>8. QED
  BY <1>2, <1>3, <1>4, <1>5, <1>6, <1>7, WhoWrites DEF Stored

LEMMA StepOfRequest ==
    ASSUME NEW r \in Requests, Arrival(r) \/ Statement(r) \/ Crash(r)
    PROVE  [Next]_vars
BY DEF Next

\* Locks keep another request's rows and services as it found them.
LEMMA OthersHeld ==
    ASSUME HeldInv, NEW r \in Requests, Arrival(r) \/ Statement(r) \/ Crash(r),
           NEW q \in Requests, q # r
    PROVE  Held(q)'
<1>1. Same(q)
  BY OthersSame DEF HeldInv
<1>2. [Next]_vars /\ IInv /\ Held(q) /\ Held(r)
  BY StepOfRequest DEF HeldInv
<1>3. pc[q] # "idle" /\ req[q].op # "create_draft" =>
        req[q].version \in VersionIds /\ Stored(req[q].version)
  BY <1>2 DEF IInv, RequestOK, Arrived
<1>4. /\ (HasPlan(q) <=> HasPlan(q)') /\ (HasVersion(q) <=> HasVersion(q)')
      /\ (HasService(q) <=> HasService(q)')
  BY <1>1 DEF Same, HasPlan, HasVersion, HasService, Inside
<1>5. EntryOK(q)'
  <2>1. HasPlan(q) => pc[q] # "idle"
    BY DEF HasPlan, Inside, UnderPlanLock, DraftSteps, CoverageSteps
  <2>2. HasPlan(q) /\ req[q].op # "create_draft" =>
          row'[req[q].version].plan = row[req[q].version].plan
    BY <1>2, <1>3, <2>1, RowsKept
  <2>3. QED
    BY <1>1, <1>2, <1>4, <2>2 DEF Held, EntryOK, Same
<1>6. Owned(q)'
  BY <1>1, <1>2, <1>4 DEF Held, Owned, Same
<1>7. ASSUME HasService(q)
      PROVE  ServiceExists(q)' /\ serviceLock'[<<req[q].version, req[q].position>>] = q
  <2> DEFINE v == req[q].version
             s == <<req[q].version, req[q].position>>
  <2>1. ServiceExists(q) /\ serviceLock[s] = q
    BY <1>2, <1>7 DEF Held, ServicesHeld
  <2>2. req[q].op = "coverage" /\ pc[q] # "idle"
    BY <1>2, <1>7 DEF HasService, Inside, Held, EntryOK, IInv, RequestOK, Flow, CoverageSteps
  <2>3. v \in VersionIds /\ Stored(v) /\ req[q].position \in Positions /\ s \in Services
    BY <1>2, <1>3, <2>2 DEF IInv, TypeOK, Request, Services
  <2>4. serviceLock'[s] = q
    BY <1>1, <2>1, <2>3 DEF Same
  <2>5. ASSUME NEW u \in Requests, CommitUpdate(u), req[u].version = v
        PROVE  FALSE
    <3>1. u # q /\ pc[u] = "commit" /\ req[u].op = "edit_draft"
      BY <2>2, <2>5 DEF CommitUpdate
    <3>2. \A p \in 1..row[req[u].version].count : serviceLock[<<req[u].version, p>>] = u
      BY <2>5, <3>1 DEF HeldInv, Held, ServicesHeld
    <3>3. req[q].position \in 1..row[v].count
      BY <1>2, <2>1, <2>3 DEF ServiceExists, Positions, IInv, TypeOK, Row
    <3>4. serviceLock[<<req[u].version, req[q].position>>] = u
      BY <2>5, <3>2, <3>3
    <3>5. QED
      BY <2>1, <2>5, <3>1, <3>4
  <2>6. /\ row'[v].status # "absent" /\ row'[v].count = row[v].count
        /\ row'[v].generation = row[v].generation
    <3>1. ~\E u \in Requests : CommitUpdate(u) /\ req[u].version = v
      BY <2>5
    <3>2. QED
      BY <1>2, <2>3, <3>1, RowsKept DEF Stored
  <2>7. ServiceExists(q)'
    BY <1>1, <2>1, <2>6 DEF ServiceExists, Same, Stored
  <2>8. QED
    BY <2>4, <2>7
<1>8. ASSUME pc[q] = "commit", req[q].op = "edit_draft"
      PROVE  \A p \in 1..row'[req[q].version].count :
                serviceLock'[<<req[q].version, p>>] = q
  <2> DEFINE v == req[q].version
  <2>1. /\ v \in VersionIds /\ Stored(v) /\ versionLock[v] = q
        /\ \A p \in 1..row[v].count : serviceLock[<<v, p>>] = q
    BY <1>2, <1>3, <1>8 DEF IInv, RequestOK, LocksHeld, Held, ServicesHeld
  <2>2. ASSUME NEW u \in Requests, CommitUpdate(u), req[u].version = v
        PROVE  u = q
    <3>1. versionLock[v] = u
      BY <2>2 DEF CommitUpdate, HeldInv, IInv, RequestOK, LocksHeld
    <3>2. QED
      BY <2>1, <3>1
  <2>3. ~CommitUpdate(q)
    BY <1>1, <1>2, <1>8 DEF CommitUpdate, Commit, Same, IInv, TypeOK
  <2>4. row'[v].count = row[v].count
    BY <1>2, <2>1, <2>2, <2>3, RowsKept
  <2>5. \A p \in 1..row[v].count : <<v, p>> \in Services
    <3>1. row[v].count \in 0..MaxServices
      BY <1>2, <2>1 DEF IInv, TypeOK, Row
    <3>2. QED
      BY <2>1, <3>1, BoundsAssumption DEF Services, Positions
  <2>6. QED
    BY <1>1, <2>1, <2>4, <2>5 DEF Same
<1>9. ServicesHeld(q)'
  BY <1>1, <1>4, <1>7, <1>8 DEF ServicesHeld, Same
<1>10. QED
  BY <1>5, <1>6, <1>9 DEF Held

\* The end of a request's transaction.
LEMMA EndHeld ==
    ASSUME HeldInv, NEW r \in Requests, NEW end \in Answered,
           pc' = [pc EXCEPT ![r] = end], Release(r), UNCHANGED <<req, reads>>
    PROVE  Held(r)'
<1>1. TypeOK /\ EntryOK(r) /\ pc'[r] = end
  BY DEF HeldInv, IInv, TypeOK, Held
<1>2. ~HasPlan(r)' /\ ~HasVersion(r)' /\ ~HasService(r)'
  BY <1>1 DEF HasPlan, HasVersion, HasService, Inside, UnderPlanLock, UnderVersionLock,
     DraftSteps, CoverageSteps, Answered
<1>3. EntryOK(r)'
  BY <1>1, <1>2 DEF EntryOK, Answered
<1>4. Owned(r)'
  BY <1>1, <1>2, ReleaseOwn DEF Owned
<1>5. ServicesHeld(r)'
  BY <1>1, <1>2 DEF ServicesHeld, Answered
<1>6. QED
  BY <1>3, <1>4, <1>5 DEF Held

\* A refusal in the first call frees the locks, one in the second keeps them.
LEMMA RefuseHeld ==
    ASSUME HeldInv, NEW r \in Requests, NEW why, Refuse(r, why),
           pc[r] \in Working \ {"commit", "refused"}
    PROVE  Held(r)'
<1>1. /\ TypeOK /\ EntryOK(r) /\ Owned(r) /\ ServicesHeld(r) /\ pc'[r] = "refused"
      /\ reads'[r].entry = reads[r].entry /\ reads'[r].plan = reads[r].plan
      /\ req' = req /\ row' = row
  BY DEF HeldInv, IInv, TypeOK, Held, Refuse, Reads
<1>2. CASE reads[r].entry = 2
  <2>1. req[r].op = "coverage" /\ Inside(r)
    BY <1>1, <1>2 DEF EntryOK, Inside, HeldInv, IInv, RequestOK, Flow, Working,
       CoverageSteps, DraftSteps
  <2>2. Inside(r)'
    BY <1>1, <1>2 DEF Inside
  <2>3. UNCHANGED <<planLock, versionLock, serviceLock>>
    BY <1>2 DEF Refuse, locks
  <2>4. QED
    BY <1>1, <2>1, <2>2, <2>3 DEF Held, EntryOK, Owned, ServicesHeld, HasPlan, HasVersion,
       HasService, ServiceExists, Stored
<1>3. CASE reads[r].entry # 2
  <2>1. Release(r)
    BY <1>3 DEF Refuse
  <2>2. ~HasPlan(r)' /\ ~HasVersion(r)' /\ ~HasService(r)'
    BY <1>1, <1>3 DEF HasPlan, HasVersion, HasService, Inside, UnderPlanLock,
       UnderVersionLock, DraftSteps, CoverageSteps
  <2>3. EntryOK(r)'
    BY <1>1, <1>3, <2>2 DEF EntryOK
  <2>4. Owned(r)'
    BY <1>1, <2>1, <2>2, ReleaseOwn DEF Owned
  <2>5. ServicesHeld(r)'
    BY <1>1, <2>2 DEF ServicesHeld
  <2>6. QED
    BY <2>3, <2>4, <2>5 DEF Held
<1>4. QED
  BY <1>2, <1>3

\* A statement that only reads, between two at which the same locks are held.
LEMMA MoveHeld ==
    ASSUME HeldInv, NEW r \in Requests, NEW next \in Working, Continue(r, next),
           pc[r] \in Working, reads'[r].entry = reads[r].entry,
           HasPlan(r)' <=> HasPlan(r), HasVersion(r)' <=> HasVersion(r),
           HasService(r)' <=> HasService(r),
           HasPlan(r) => reads'[r].plan = reads[r].plan,
           req[r].op = "edit_draft" =>
              /\ pc[r] = "deleteServices" => next \in {"deleteServices", "commit"}
              /\ next = "commit" =>
                    \A p \in 1..row[req[r].version].count :
                       serviceLock[<<req[r].version, p>>] = r,
           req[r].op = "coverage" /\ next = "commit" => reads[r].entry = 2,
           pc[r] # "commit"
    PROVE  Held(r)'
<1>1. /\ TypeOK /\ EntryOK(r) /\ Owned(r) /\ ServicesHeld(r) /\ pc'[r] = next
      /\ req' = req /\ row' = row /\ UNCHANGED <<planLock, versionLock, serviceLock>>
  BY DEF HeldInv, IInv, TypeOK, Held, Continue, locks
<1>2. EntryOK(r)'
  BY <1>1 DEF EntryOK, Working
<1>3. Owned(r)'
  BY <1>1 DEF Owned
<1>4. ServicesHeld(r)'
  BY <1>1 DEF ServicesHeld, ServiceExists, Stored
<1>5. QED
  BY <1>2, <1>3, <1>4 DEF Held

LEMMA ReadsHeld ==
    ASSUME HeldInv, NEW r \in Requests,
           \/ Candidate(r) \/ SelectEditablePlan(r) \/ CheckEditablePlan(r)
           \/ LatestNumber(r) \/ CheckUpdateDraft(r) \/ CheckPublish(r)
    PROVE  Held(r)'
<1>1. /\ TypeOK /\ EntryOK(r) /\ RequestOK(r) /\ reads \in [Requests -> Reads]
      /\ pc \in [Requests -> {"idle"} \cup Working \cup Answered]
  BY DEF HeldInv, IInv, TypeOK, Held
<1>2. pc[r] \in {"candidate", "select", "checks", "latest", "draftChecks", "publishChecks"}
  BY DEF Candidate, SelectEditablePlan, CheckEditablePlan, LatestNumber, CheckUpdateDraft,
     CheckPublish
<1>3. pc[r] \in Working \ {"commit", "refused"}
  BY <1>2 DEF Working
<1>4. ASSUME NEW why, Refuse(r, why) PROVE Held(r)'
  BY <1>3, <1>4, RefuseHeld
<1>5. reads[r].entry # 2
  BY <1>1, <1>2 DEF EntryOK, RequestOK, Flow, DraftSteps
<1>6. ASSUME NEW next \in Working, Continue(r, next),
             reads'[r].entry = reads[r].entry,
             reads'[r].plan = reads[r].plan \/ pc[r] = "candidate",
             \/ pc[r] = "candidate" /\ next = "select"
             \/ pc[r] = "select" /\ next = "lockPlan"
             \/ pc[r] = "checks" /\ next \in {"latest", "lockVersion"}
             \/ pc[r] = "latest" /\ next = "commit"
             \/ pc[r] = "draftChecks" /\ next = "deleteServices"
             \/ pc[r] = "publishChecks" /\ next = "commit"
      PROVE  Held(r)'
  <2>1. pc'[r] = next /\ req' = req
    BY <1>1, <1>6 DEF Continue
  <2>2. pc[r] = "latest" => req[r].op = "create_draft"
    BY <1>1 DEF RequestOK, Flow
  <2>3. pc[r] = "publishChecks" => req[r].op = "publish"
    BY <1>1 DEF RequestOK, Flow
  <2>4. /\ HasPlan(r)' <=> HasPlan(r)
        /\ HasVersion(r)' <=> HasVersion(r)
        /\ HasService(r)' <=> HasService(r)
        /\ HasPlan(r) => pc[r] # "candidate"
    BY <1>5, <1>6, <2>1, <2>2, <2>3 DEF HasPlan, HasVersion, HasService, Inside, UnderPlanLock,
       UnderVersionLock, DraftSteps, CoverageSteps
  <2>5. QED
    BY <1>3, <1>6, <2>1, <2>2, <2>3, <2>4, MoveHeld
<1>7. CASE Candidate(r)
  <2>1. CASE Visible(req[r].actor, row[req[r].version].plan)
    BY <1>1, <1>6, <1>7, <2>1 DEF Candidate, Working, Reads
  <2>2. CASE ~Visible(req[r].actor, row[req[r].version].plan)
    BY <1>4, <1>7, <2>2 DEF Candidate
  <2>3. QED
    BY <2>1, <2>2
<1>8. CASE SelectEditablePlan(r)
  <2>1. CASE Visible(req[r].actor, reads[r].plan)
    BY <1>1, <1>6, <1>8, <2>1 DEF SelectEditablePlan, Working, Reads
  <2>2. CASE ~Visible(req[r].actor, reads[r].plan)
    BY <1>4, <1>8, <2>2 DEF SelectEditablePlan
  <2>3. QED
    BY <2>1, <2>2
<1>9. CASE LatestNumber(r)
  <2>1. CASE req[r].count # 0
    BY <1>1, <1>6, <1>9, <2>1 DEF LatestNumber, Working, Reads
  <2>2. CASE req[r].count = 0
    BY <1>4, <1>9, <2>2 DEF LatestNumber
  <2>3. QED
    BY <2>1, <2>2
<1>10. CASE CheckEditablePlan(r)
  BY <1>4, <1>6, <1>10 DEF CheckEditablePlan, Proceed, Working
<1>11. CASE CheckUpdateDraft(r)
  BY <1>4, <1>6, <1>11 DEF CheckUpdateDraft, Proceed, Working
<1>12. CASE CheckPublish(r)
  BY <1>4, <1>6, <1>12 DEF CheckPublish, Proceed, Working
<1>13. QED
  BY <1>7, <1>8, <1>9, <1>10, <1>11, <1>12

\* The terms are saved once every service row is locked.
LEMMA SaveTermsHeld ==
    ASSUME HeldInv, NEW r \in Requests, SaveTerms(r)
    PROVE  Held(r)'
<1>1. /\ TypeOK /\ EntryOK(r) /\ RequestOK(r) /\ pc[r] = "deleteServices"
      /\ \A p \in 1..row[req[r].version].count : serviceLock[<<req[r].version, p>>] = r
  BY DEF HeldInv, IInv, Held, SaveTerms
<1>2. req[r].op = "edit_draft" /\ reads[r].entry # 2
  BY <1>1 DEF EntryOK, RequestOK, Flow, DraftSteps
<1>3. CASE req[r].count = 0
  BY <1>1, <1>3, RefuseHeld DEF SaveTerms, Proceed, Working
<1>4. CASE req[r].count # 0
  <2>1. Continue(r, "commit") /\ reads' = reads
    BY <1>4 DEF SaveTerms, Proceed
  <2>2. pc'[r] = "commit" /\ req' = req
    BY <1>1, <2>1 DEF Continue, TypeOK
  <2>3. /\ HasPlan(r)' <=> HasPlan(r)
        /\ HasVersion(r)' <=> HasVersion(r)
        /\ HasService(r)' <=> HasService(r)
    BY <1>1, <1>2, <2>1, <2>2 DEF HasPlan, HasVersion, HasService, Inside, UnderPlanLock,
       UnderVersionLock, DraftSteps, CoverageSteps
  <2>4. QED
    BY <1>1, <1>2, <2>1, <2>2, <2>3, MoveHeld DEF Working
<1>5. QED
  BY <1>3, <1>4

\* The service is looked up again by the second call, under its lock.
LEMMA SelectCoverageHeld ==
    ASSUME HeldInv, NEW r \in Requests, SelectCoverage(r)
    PROVE  Held(r)'
<1> DEFINE plan == row[req[r].version].plan
<1>1. /\ TypeOK /\ EntryOK(r) /\ RequestOK(r) /\ pc[r] = "coverage"
      /\ reads \in [Requests -> Reads]
  BY DEF HeldInv, IInv, TypeOK, Held, SelectCoverage
<1>2. req[r].op = "coverage"
  BY <1>1 DEF RequestOK, Flow
<1>3. CASE ServiceExists(r) /\ Visible(req[r].actor, plan)
  <2>1. Continue(r, "lockService") /\ reads' = [reads EXCEPT ![r].plan = plan]
    BY <1>3 DEF SelectCoverage
  <2>2. /\ pc'[r] = "lockService" /\ req' = req /\ reads'[r].entry = reads[r].entry
        /\ reads'[r].plan = plan
    BY <1>1, <2>1 DEF Continue, TypeOK, Reads
  <2>3. /\ HasPlan(r)' <=> HasPlan(r)
        /\ HasVersion(r)' <=> HasVersion(r)
        /\ HasService(r)' <=> HasService(r)
    BY <1>1, <1>2, <2>2 DEF HasPlan, HasVersion, HasService, Inside, UnderPlanLock,
       UnderVersionLock, DraftSteps, CoverageSteps
  <2>4. HasPlan(r) => reads[r].plan = plan
    BY <1>1, <1>2 DEF EntryOK
  <2>5. QED
    BY <1>1, <1>2, <2>1, <2>2, <2>3, <2>4, MoveHeld DEF Working
<1>4. CASE ~(ServiceExists(r) /\ Visible(req[r].actor, plan))
  BY <1>1, <1>4, RefuseHeld DEF SelectCoverage, Working
<1>5. QED
  BY <1>3, <1>4

\* Both calls check the scope under the three locks; the second one commits.
LEMMA CheckCoverageHeld ==
    ASSUME HeldInv, NEW r \in Requests, CheckCoverage(r)
    PROVE  Held(r)'
<1> DEFINE allowed == req[r].actor \in Superusers \/ InCatalog(req[r].actor, reads[r].plan)
<1>1. /\ TypeOK /\ EntryOK(r) /\ RequestOK(r) /\ Owned(r) /\ ServicesHeld(r)
      /\ pc[r] = "coverageCheck" /\ reads \in [Requests -> Reads]
  BY DEF HeldInv, IInv, TypeOK, Held, CheckCoverage
<1>2. req[r].op = "coverage"
  BY <1>1 DEF RequestOK, Flow, CoverageSteps
<1>3. CASE allowed
  <2>1. /\ Continue(r, IF reads[r].entry = 1 THEN "coverage" ELSE "commit")
        /\ reads' = [reads EXCEPT ![r].entry = 2]
    BY <1>3 DEF CheckCoverage
  <2>2. /\ pc'[r] \in {"coverage", "commit"} /\ req' = req /\ row' = row
        /\ reads'[r].entry = 2 /\ reads'[r].plan = reads[r].plan
        /\ UNCHANGED <<planLock, versionLock, serviceLock>>
    BY <1>1, <2>1 DEF Continue, TypeOK, Reads, locks
  <2>3. /\ HasPlan(r) /\ HasVersion(r) /\ HasService(r)
        /\ Inside(r)'
    BY <1>1, <2>2 DEF HasPlan, HasVersion, HasService, Inside
  <2>4. HasPlan(r)' /\ HasVersion(r)' /\ HasService(r)'
    BY <2>3 DEF HasPlan, HasVersion, HasService
  <2>5. EntryOK(r)'
    BY <1>1, <1>2, <2>2, <2>3 DEF EntryOK
  <2>6. Owned(r)'
    BY <1>1, <1>2, <2>2, <2>3, <2>4 DEF Owned
  <2>7. ServicesHeld(r)'
    BY <1>1, <1>2, <2>2, <2>3 DEF ServicesHeld, ServiceExists, Stored
  <2>8. QED
    BY <2>5, <2>6, <2>7 DEF Held
<1>4. CASE ~allowed
  BY <1>1, <1>4, RefuseHeld DEF CheckCoverage, Working
<1>5. QED
  BY <1>3, <1>4

\* A row lock is taken by the request that waited for it.
LEMMA LocksTaken ==
    ASSUME HeldInv, NEW r \in Requests,
           \/ LockPlan(r) \/ LockVersion(r)
           \/ LockCoverageVersion(r) \/ LockCoveragePlan(r)
    PROVE  Held(r)'
<1>1. /\ TypeOK /\ EntryOK(r) /\ RequestOK(r) /\ Owned(r) /\ ServicesHeld(r)
      /\ pc \in [Requests -> {"idle"} \cup Working \cup Answered]
      /\ planLock \in [Plans -> Requests \cup {None}]
      /\ versionLock \in [VersionIds -> Requests \cup {None}]
      /\ row' = row /\ req' = req /\ reads' = reads /\ serviceLock' = serviceLock
  BY DEF HeldInv, IInv, TypeOK, Held, LockPlan, LockVersion, LockCoverageVersion,
     LockCoveragePlan
<1>2. pc[r] # "idle" /\ req[r].op # "create_draft" =>
        req[r].version \in VersionIds /\ Stored(req[r].version)
  BY <1>1 DEF RequestOK, Arrived
<1>3. CASE LockPlan(r)
  <2>1. /\ pc[r] = "lockPlan" /\ pc'[r] = "checks" /\ versionLock' = versionLock
        /\ planLock' = [planLock EXCEPT ![reads[r].plan] = r]
    BY <1>1, <1>3 DEF LockPlan
  <2>2. /\ reads[r].plan \in Plans /\ reads[r].entry # 2
        /\ req[r].op # "create_draft" => reads[r].plan = row[req[r].version].plan
    BY <1>1, <2>1 DEF RequestOK, PlanKnown, KnowsPlan, Flow, EntryOK
  <2>3. /\ ~HasPlan(r) /\ HasPlan(r)'
        /\ ~HasVersion(r) /\ ~HasVersion(r)' /\ ~HasService(r) /\ ~HasService(r)'
    BY <1>1, <2>1, <2>2 DEF HasPlan, HasVersion, HasService, Inside, UnderPlanLock,
       UnderVersionLock, DraftSteps, CoverageSteps
  <2>4. EntryOK(r)'
    BY <1>1, <2>1, <2>2 DEF EntryOK
  <2>5. Owned(r)'
    BY <1>1, <2>1, <2>2, <2>3 DEF Owned
  <2>6. QED
    BY <2>1, <2>3, <2>4, <2>5 DEF Held, ServicesHeld
<1>4. CASE LockVersion(r)
  <2> DEFINE next == IF req[r].op = "edit_draft" THEN "draftChecks" ELSE "publishChecks"
  <2>1. /\ pc[r] = "lockVersion" /\ pc'[r] = next /\ planLock' = planLock
        /\ versionLock' = [versionLock EXCEPT ![req[r].version] = r]
    BY <1>1, <1>4 DEF LockVersion
  <2>2. /\ req[r].version \in VersionIds /\ reads[r].entry # 2
        /\ req[r].op \in {"edit_draft", "publish"}
    BY <1>1, <1>2, <2>1 DEF RequestOK, Flow, EntryOK
  <2>3. /\ HasPlan(r) /\ HasPlan(r)'
        /\ ~HasVersion(r) /\ HasVersion(r)' /\ ~HasService(r) /\ ~HasService(r)'
    BY <1>1, <2>1, <2>2 DEF HasPlan, HasVersion, HasService, Inside, UnderPlanLock,
       UnderVersionLock, DraftSteps, CoverageSteps
  <2>4. EntryOK(r)'
    BY <1>1, <2>1, <2>2, <2>3 DEF EntryOK
  <2>5. Owned(r)'
    BY <1>1, <2>1, <2>2, <2>3 DEF Owned
  <2>6. QED
    BY <2>1, <2>3, <2>4, <2>5 DEF Held, ServicesHeld
<1>5. CASE LockCoverageVersion(r)
  <2>1. /\ pc[r] = "lockCoverageVersion" /\ pc'[r] = "lockCoveragePlan"
        /\ planLock' = planLock
        /\ versionLock' = [versionLock EXCEPT ![req[r].version] = r]
    BY <1>1, <1>5 DEF LockCoverageVersion
  <2>2. /\ req[r].version \in VersionIds /\ req[r].op = "coverage"
    BY <1>1, <1>2, <2>1 DEF RequestOK, Flow, CoverageSteps
  <2>3. /\ HasPlan(r) <=> HasPlan(r)'
        /\ HasVersion(r)' /\ HasService(r) /\ HasService(r)'
    BY <1>1, <2>1, <2>2 DEF HasPlan, HasVersion, HasService, Inside, UnderPlanLock,
       UnderVersionLock, DraftSteps, CoverageSteps
  <2>4. EntryOK(r)'
    BY <1>1, <2>1, <2>2, <2>3 DEF EntryOK
  <2>5. Owned(r)'
    BY <1>1, <2>1, <2>2, <2>3 DEF Owned
  <2>6. ServicesHeld(r)'
    BY <1>1, <2>1, <2>2, <2>3 DEF ServicesHeld, ServiceExists, Stored
  <2>7. QED
    BY <2>4, <2>5, <2>6 DEF Held
<1>6. CASE LockCoveragePlan(r)
  <2>1. /\ pc[r] = "lockCoveragePlan" /\ pc'[r] = "coverageCheck"
        /\ versionLock' = versionLock
        /\ planLock' = [planLock EXCEPT ![reads[r].plan] = r]
    BY <1>1, <1>6 DEF LockCoveragePlan
  <2>2. /\ reads[r].plan \in Plans /\ req[r].op = "coverage"
        /\ reads[r].plan = row[req[r].version].plan
    BY <1>1, <2>1 DEF RequestOK, PlanKnown, KnowsPlan, Flow, CoverageSteps
  <2>3. /\ HasPlan(r)' /\ HasVersion(r) /\ HasVersion(r)'
        /\ HasService(r) /\ HasService(r)'
    BY <1>1, <2>1, <2>2 DEF HasPlan, HasVersion, HasService, Inside, UnderPlanLock,
       UnderVersionLock, DraftSteps, CoverageSteps
  <2>4. EntryOK(r)'
    BY <1>1, <2>1, <2>2 DEF EntryOK
  <2>5. Owned(r)'
    BY <1>1, <2>1, <2>2, <2>3 DEF Owned
  <2>6. ServicesHeld(r)'
    BY <1>1, <2>1, <2>2, <2>3 DEF ServicesHeld, ServiceExists, Stored
  <2>7. QED
    BY <2>4, <2>5, <2>6 DEF Held
<1>7. QED
  BY <1>3, <1>4, <1>5, <1>6

\* DELETE locks one more service of the draft.
LEMMA LockServiceRowHeld ==
    ASSUME HeldInv, NEW r \in Requests, NEW p \in Positions, LockServiceRow(r, p)
    PROVE  Held(r)'
<1> DEFINE s == <<req[r].version, p>>
<1>1. /\ TypeOK /\ EntryOK(r) /\ RequestOK(r) /\ Owned(r) /\ ServicesHeld(r)
      /\ pc[r] = "deleteServices" /\ pc' = pc /\ row' = row /\ req' = req /\ reads' = reads
      /\ UNCHANGED <<planLock, versionLock>>
      /\ serviceLock' = [serviceLock EXCEPT ![s] = r]
  BY DEF HeldInv, IInv, Held, LockServiceRow
<1>2. req[r].op = "edit_draft" /\ reads[r].entry # 2 /\ s[1] = req[r].version
  BY <1>1 DEF EntryOK, RequestOK, Flow, DraftSteps
<1>3. ~HasService(r)
  BY <1>1, <1>2 DEF HasService, Inside
<1>4. EntryOK(r)' /\ ServicesHeld(r)' /\ ~HasService(r)'
  BY <1>1, <1>3 DEF EntryOK, ServicesHeld, HasPlan, HasService, Inside
<1> HIDE DEF s
<1>5. \A t \in Services : serviceLock'[t] = r => serviceLock[t] = r \/ t = s
  BY <1>1 DEF TypeOK, Services
<1>6. Owned(r)'
  BY <1>1, <1>2, <1>3, <1>4, <1>5 DEF Owned, HasPlan, HasVersion, Inside
<1>7. QED
  BY <1>4, <1>6 DEF Held

\* The service row a coverage edit waited for is still there.
LEMMA LockServiceHeld ==
    ASSUME HeldInv, NEW r \in Requests, LockService(r)
    PROVE  Held(r)'
<1> DEFINE s == <<req[r].version, req[r].position>>
<1>1. /\ TypeOK /\ EntryOK(r) /\ RequestOK(r) /\ Owned(r) /\ ServicesHeld(r)
      /\ pc[r] = "lockService"
      /\ pc \in [Requests -> {"idle"} \cup Working \cup Answered]
  BY DEF HeldInv, IInv, TypeOK, Held, LockService
<1>2. req[r].op = "coverage" /\ req[r].version \in VersionIds /\ s \in Services
  BY <1>1 DEF RequestOK, Flow, Arrived, CoverageSteps, TypeOK, Request, Services
<1>3. CASE ~ServiceExists(r)
  BY <1>1, <1>3, RefuseHeld DEF LockService, Working
<1>4. CASE ServiceExists(r)
  <2>1. /\ pc'[r] = "lockCoverageVersion" /\ row' = row /\ req' = req /\ reads' = reads
        /\ UNCHANGED <<planLock, versionLock>>
        /\ serviceLock' = [serviceLock EXCEPT ![s] = r]
    BY <1>1, <1>4 DEF LockService
  <2>2. /\ HasPlan(r) <=> HasPlan(r)'
        /\ HasVersion(r) <=> HasVersion(r)'
        /\ HasService(r)'
    BY <1>1, <1>2, <2>1 DEF HasPlan, HasVersion, HasService, Inside, UnderPlanLock,
       UnderVersionLock, DraftSteps, CoverageSteps
  <2>3. EntryOK(r)'
    BY <1>1, <1>2, <2>1, <2>2 DEF EntryOK
  <2> HIDE DEF s
  <2>4. /\ \A t \in Services : serviceLock'[t] = r => serviceLock[t] = r \/ t = s
        /\ serviceLock'[s] = r
    BY <1>1, <1>2, <2>1 DEF TypeOK, Services
  <2>5. Owned(r)'
    BY <1>1, <1>2, <2>1, <2>2, <2>4 DEF Owned, s, HasService
  <2>6. ServicesHeld(r)'
    BY <1>2, <1>4, <2>1, <2>4 DEF ServicesHeld, ServiceExists, Stored, s
  <2>7. QED
    BY <2>3, <2>5, <2>6 DEF Held
<1>5. QED
  BY <1>3, <1>4

\* A request arrives without locks and in its first call.
LEMMA ArriveHeld ==
    ASSUME HeldInv, NEW r \in Requests, Arrival(r)
    PROVE  Held(r)'
<1>1. PICK request \in Request, plan \in Plans,
           first \in {"select", "candidate", "coverage"} : Arrive(r, request, plan, first)
  BY ArrivalShape DEF HeldInv
<1>2. /\ TypeOK /\ EntryOK(r) /\ Owned(r) /\ ServicesHeld(r) /\ pc[r] = "idle"
      /\ pc'[r] = first /\ reads'[r].entry = reads[r].entry
      /\ UNCHANGED <<row, planLock, versionLock, serviceLock>>
  BY <1>1 DEF HeldInv, IInv, TypeOK, Held, Arrive, Reads, locks
<1>3. reads[r].entry = 1
  BY <1>2 DEF EntryOK
<1>4. /\ ~HasPlan(r) /\ ~HasVersion(r) /\ ~HasService(r)
      /\ ~HasPlan(r)' /\ ~HasVersion(r)' /\ ~HasService(r)'
  BY <1>2, <1>3 DEF HasPlan, HasVersion, HasService, Inside, UnderPlanLock,
     UnderVersionLock, DraftSteps, CoverageSteps
<1>5. EntryOK(r)' /\ ServicesHeld(r)'
  BY <1>2, <1>3, <1>4 DEF EntryOK, ServicesHeld
<1>6. Owned(r)'
  BY <1>2, <1>4 DEF Owned
<1>7. QED
  BY <1>5, <1>6 DEF Held

LEMMA SelfHeld ==
    ASSUME HeldInv, NEW r \in Requests, Arrival(r) \/ Statement(r) \/ Crash(r)
    PROVE  Held(r)'
<1>1. CASE Arrival(r)
  BY <1>1, ArriveHeld
<1>2. CASE \/ Candidate(r) \/ SelectEditablePlan(r) \/ CheckEditablePlan(r)
           \/ LatestNumber(r) \/ CheckUpdateDraft(r) \/ CheckPublish(r)
  BY <1>2, ReadsHeld
<1>3. CASE SaveTerms(r) \/ SelectCoverage(r) \/ CheckCoverage(r)
  BY <1>3, SaveTermsHeld, SelectCoverageHeld, CheckCoverageHeld
<1>4. CASE \/ LockPlan(r) \/ LockVersion(r)
           \/ LockCoverageVersion(r) \/ LockCoveragePlan(r)
  BY <1>4, LocksTaken
<1>5. CASE LockService(r) \/ \E p \in Positions : LockServiceRow(r, p)
  BY <1>5, LockServiceHeld, LockServiceRowHeld
<1>6. CASE \/ \E v \in VersionIds : CommitDraft(r, v)
           \/ CommitUpdate(r) \/ CommitPublish(r) \/ CommitCoverage(r)
  <2>1. \E v, newRow, actions : Commit(r, v, newRow, actions)
    BY <1>6 DEF CommitDraft, CommitUpdate, CommitPublish, CommitCoverage
  <2>2. QED
    BY <2>1, EndHeld DEF Commit, Answered
<1>7. CASE DeadlockAbort(r) \/ Crash(r)
  BY <1>7, EndHeld DEF DeadlockAbort, Crash, Answered
<1>8. CASE RecordRefusal(r)
  <2>1. reads[r].refusal \in {"denied", "invalid"}
    BY <1>8 DEF RecordRefusal, HeldInv, IInv, RequestOK, Flow
  <2>2. QED
    BY <1>8, <2>1, EndHeld DEF RecordRefusal, Answered
<1>9. QED
  BY <1>1, <1>2, <1>3, <1>4, <1>5, <1>6, <1>7, <1>8 DEF Statement

\* Changes of the scope, and the rest, leave every lock where it is.
LEMMA StepHeld == HeldInv /\ [Next]_vars => HeldInv'
<1> SUFFICES ASSUME HeldInv, [Next]_vars PROVE HeldInv'
  OBVIOUS
<1>1. IInv'
  BY StepIInv DEF HeldInv
<1>2. CASE UNCHANGED <<row, locks, pc, req, reads>>
  <2>1. \A q \in Requests : Held(q)'
    BY <1>2 DEF HeldInv, locks, Held, EntryOK, Owned, ServicesHeld, HasPlan, HasVersion,
       HasService, Inside, ServiceExists, Stored
  <2>2. QED
    BY <1>1, <2>1 DEF HeldInv
<1>3. ASSUME NEW r \in Requests, Arrival(r) \/ Statement(r) \/ Crash(r)
      PROVE  HeldInv'
  <2>1. ASSUME NEW q \in Requests PROVE Held(q)'
    BY <1>3, SelfHeld, OthersHeld
  <2>2. QED
    BY <1>1, <2>1 DEF HeldInv
<1>4. CASE Platform
  BY <1>2, <1>4 DEF Platform, GrantOrRevoke, ToggleReseller, ToggleProvider, ChangeScope
<1>5. CASE Quiescent \/ UNCHANGED vars
  BY <1>2, <1>5 DEF Quiescent, vars
<1>6. QED
  BY <1>3, <1>4, <1>5 DEF Next

LEMMA InitHeld == Init => HeldInv
<1> SUFFICES ASSUME Init PROVE \A r \in Requests : Held(r)
  BY InitIInv DEF HeldInv
<1> TAKE r \in Requests
<1>1. pc[r] = "idle" /\ reads[r].entry = 1
  BY DEF Init, NoReads
<1>2. ~HasPlan(r) /\ ~HasVersion(r) /\ ~HasService(r)
  BY <1>1 DEF HasPlan, HasVersion, HasService, Inside, UnderPlanLock,
     UnderVersionLock, DraftSteps, CoverageSteps
<1>3. Owned(r)
  BY <1>1, <1>2, RequestsAssumption DEF Init, Owned, Services
<1>4. QED
  BY <1>1, <1>2, <1>3 DEF Held, EntryOK, ServicesHeld

\* Every request holds exactly the locks its statement says it holds.
THEOREM LocksOwned == Spec => []HeldInv
BY InitHeld, StepHeld, PTL DEF Spec

-----------------------------------------------------------------------------
\* What the locks a request waits for say of who holds them.
LEMMA WaitingFor ==
    ASSUME HeldInv, NEW r \in Requests, NEW q \in Requests, q # r, q \in BlockedBy(r)
    PROVE  /\ pc[r] \in {"lockPlan", "lockCoveragePlan", "lockVersion",
                         "lockCoverageVersion", "lockService", "deleteServices"}
           /\ pc[r] \in {"lockPlan", "lockCoveragePlan"} =>
                 HasPlan(q) /\ reads[q].plan = reads[r].plan
           /\ pc[r] \in {"lockVersion", "lockCoverageVersion"} =>
                 HasVersion(q) /\ req[q].version = req[r].version
           /\ pc[r] \in {"lockService", "deleteServices"} =>
                 /\ req[q].version = req[r].version
                 /\ \/ req[q].op = "edit_draft" /\ pc[q] \in {"deleteServices", "commit"}
                    \/ HasService(q)
           /\ ~Inside(r)
<1>1. /\ Held(r) /\ Held(q) /\ RequestOK(r) /\ RequestOK(q)
  BY DEF HeldInv, IInv
<1>2. q # None
  BY RequestsAssumption
<1>3. /\ pc[r] \in KnowsPlan => reads[r].plan \in Plans
      /\ pc[r] # "idle" /\ req[r].op # "create_draft" => req[r].version \in VersionIds
      /\ req[r].position \in Positions
  BY <1>1 DEF RequestOK, PlanKnown, Arrived, HeldInv, IInv, TypeOK, Request
<1>4. CASE pc[r] \in {"lockPlan", "lockCoveragePlan"}
  <2>1. planLock[reads[r].plan] = q /\ reads[r].plan \in Plans
    BY <1>2, <1>3, <1>4 DEF BlockedBy, KnowsPlan, CoverageSteps
  <2>2. HasPlan(q) /\ reads[q].plan = reads[r].plan
    BY <1>1, <2>1 DEF Held, Owned
  <2>3. ~HasPlan(r)
    BY <1>1, <2>1 DEF Held, Owned
  <2>4. QED
    BY <1>4, <2>2, <2>3 DEF HasPlan
<1>5. CASE pc[r] \in {"lockVersion", "lockCoverageVersion"}
  <2>1. req[r].op # "create_draft"
    BY <1>1, <1>5 DEF RequestOK, Flow, CoverageSteps
  <2>2. versionLock[req[r].version] = q /\ req[r].version \in VersionIds
    BY <1>2, <1>3, <1>5, <2>1 DEF BlockedBy
  <2>3. HasVersion(q) /\ req[q].version = req[r].version /\ ~HasVersion(r)
    BY <1>1, <2>2 DEF Held, Owned
  <2>4. QED
    BY <1>5, <2>3 DEF HasVersion
<1>6. CASE pc[r] = "lockService"
  <2> DEFINE s == <<req[r].version, req[r].position>>
  <2>1. req[r].op # "create_draft"
    BY <1>1, <1>6 DEF RequestOK, Flow, CoverageSteps
  <2>2. serviceLock[s] = q /\ s \in Services /\ s[1] = req[r].version
    BY <1>2, <1>3, <1>6, <2>1 DEF BlockedBy, Services
  <2>3. ~HasService(r)
    BY <1>1, <2>2 DEF Held, ServicesHeld
  <2>4. QED
    BY <1>1, <1>6, <2>2, <2>3 DEF Held, Owned, HasService
<1>7. CASE pc[r] = "deleteServices"
  <2>1. req[r].op = "edit_draft"
    BY <1>1, <1>7 DEF RequestOK, Flow, DraftSteps
  <2>2. PICK p \in Positions : serviceLock[<<req[r].version, p>>] = q
    BY <1>2, <1>7 DEF BlockedBy
  <2> DEFINE s == <<req[r].version, p>>
  <2>3. serviceLock[s] = q /\ s \in Services /\ s[1] = req[r].version
    BY <1>3, <1>7, <2>1, <2>2 DEF Services
  <2>4. ~Inside(r)
    BY <1>7 DEF Inside, CoverageSteps
  <2>5. QED
    BY <1>1, <1>7, <2>3, <2>4 DEF Held, Owned
<1>8. QED
  BY <1>2, <1>4, <1>5, <1>6, <1>7 DEF BlockedBy

\* Two requests that hold the same plan, or the same version, are one.
LEMMA OneHolder ==
    ASSUME HeldInv, NEW q \in Requests, NEW s \in Requests
    PROVE  /\ HasPlan(q) /\ HasPlan(s) /\ reads[q].plan = reads[s].plan
                /\ reads[q].plan \in Plans => q = s
           /\ HasVersion(q) /\ HasVersion(s) /\ req[q].version = req[s].version
                /\ req[q].version \in VersionIds => q = s
BY DEF HeldInv, Held, Owned

\* For any number of requests, a cycle of them contains a coverage edit and an
\* edit or publication of a draft: without the former all locks are taken
\* under the plan's, without the latter all are taken in the order service,
\* version, plan.
THEOREM DeadlockShape == Spec => []DeadlocksNeedCoverage
<1>1. HeldInv => DeadlocksNeedCoverage
  <2> SUFFICES ASSUME HeldInv, NEW S \in SUBSET Requests, Cycle(S)
               PROVE  /\ \E r \in S : req[r].op = "coverage"
                      /\ \E r \in S : req[r].op \in {"edit_draft", "publish"}
    BY DEF DeadlocksNeedCoverage
  <2>1. ASSUME NEW r \in S
        PROVE  \E q \in S : q # r /\ q \in BlockedBy(r)
    BY <2>1 DEF Cycle, Waits
  <2>2. S # {} /\ S \subseteq Requests
    BY DEF Cycle
  <2>3. ASSUME NEW r \in S
        PROVE  /\ pc[r] \in {"lockPlan", "lockCoveragePlan", "lockVersion",
                             "lockCoverageVersion", "lockService", "deleteServices"}
               /\ ~Inside(r)
               /\ RequestOK(r)
    BY <2>1, <2>2, WaitingFor DEF HeldInv, IInv
  <2>4. ASSUME NEW r \in S
        PROVE  /\ reads[r].plan \in Plans
               /\ req[r].op # "create_draft" =>
                     req[r].version \in VersionIds /\ reads[r].plan = row[req[r].version].plan
               /\ req[r].op \in Operations
    BY <2>3 DEF RequestOK, PlanKnown, Arrived, KnowsPlan, UnderPlanLock, CoverageSteps,
       DraftSteps
  <2>5. ASSUME \A r \in S : req[r].op # "coverage" PROVE FALSE
    <3>1. ASSUME NEW r \in S
          PROVE  pc[r] \in {"lockPlan", "lockVersion", "deleteServices"}
      BY <2>3, <2>5 DEF RequestOK, Flow, CoverageSteps
    <3>2. ASSUME NEW r \in S, pc[r] # "lockPlan" PROVE HasPlan(r)
      BY <3>1, <3>2 DEF HasPlan, UnderPlanLock, DraftSteps
    <3>3. ASSUME NEW r \in S PROVE pc[r] = "lockPlan"
      <4>1. SUFFICES ASSUME pc[r] # "lockPlan" PROVE FALSE
        OBVIOUS
      <4>2. PICK q \in S : q # r /\ q \in BlockedBy(r)
        BY <2>1
      <4>3. /\ req[q].version = req[r].version
            /\ HasVersion(q) \/ pc[q] \in {"deleteServices", "commit"} \/ HasService(q)
        BY <2>2, <3>1, <4>1, <4>2, WaitingFor
      <4>4. pc[q] = "deleteServices"
        BY <2>3, <3>1, <4>3 DEF HasVersion, HasService, UnderVersionLock, DraftSteps
      <4>5. HasPlan(r) /\ HasPlan(q)
        BY <3>2, <4>1, <4>4
      <4>6. req[r].op # "create_draft" /\ req[q].op # "create_draft"
        BY <2>3, <3>1, <4>1, <4>4 DEF RequestOK, Flow, DraftSteps
      <4>7. reads[q].plan = reads[r].plan /\ reads[q].plan \in Plans
        BY <2>4, <4>3, <4>6
      <4>8. QED
        BY <2>2, <4>2, <4>5, <4>7, OneHolder
    <3>4. PICK r \in S : TRUE
      BY <2>2
    <3>5. PICK q \in S : q # r /\ q \in BlockedBy(r)
      BY <2>1
    <3>6. HasPlan(q)
      BY <2>2, <3>3, <3>5, WaitingFor
    <3>7. QED
      BY <2>3, <3>3, <3>6 DEF HasPlan, UnderPlanLock, DraftSteps
  <2>6. ASSUME \A r \in S : req[r].op \notin {"edit_draft", "publish"} PROVE FALSE
    <3>1. ASSUME NEW r \in S
          PROVE  /\ pc[r] \in {"lockPlan", "lockCoveragePlan", "lockCoverageVersion",
                               "lockService"}
                 /\ ~HasPlan(r)
      BY <2>3, <2>6 DEF RequestOK, Flow, DraftSteps, HasPlan, UnderPlanLock
    <3>2. ASSUME NEW r \in S PROVE pc[r] \notin {"lockPlan", "lockCoveragePlan"}
      BY <2>1, <2>2, <3>1, WaitingFor
    <3>3. ASSUME NEW r \in S PROVE pc[r] = "lockService"
      <4>1. SUFFICES ASSUME pc[r] = "lockCoverageVersion" PROVE FALSE
        BY <3>1, <3>2
      <4>2. PICK q \in S : q # r /\ q \in BlockedBy(r)
        BY <2>1
      <4>3. HasVersion(q)
        BY <2>2, <4>1, <4>2, WaitingFor
      <4>4. QED
        BY <2>3, <3>1, <3>2, <4>3 DEF HasVersion, UnderVersionLock, DraftSteps
    <3>4. PICK r \in S : TRUE
      BY <2>2
    <3>5. PICK q \in S : q # r /\ q \in BlockedBy(r)
      BY <2>1
    <3>6. HasService(q)
      BY <2>2, <2>6, <3>3, <3>5, WaitingFor
    <3>7. QED
      BY <2>3, <3>3, <3>6 DEF HasService
  <2>7. QED
    BY <2>5, <2>6
<1>2. QED
  BY <1>1, LocksOwned, PTL

-----------------------------------------------------------------------------
\* Content is written by requests that have been answered, so what they asked
\* for stays on record.
NotesOK ==
    /\ NotesReachTheirService
    /\ \A v \in VersionIds, p \in Positions :
          row[v].notes[p] # None => row[v].notes[p] \in Requests /\ pc[row[v].notes[p]] = "ok"

\* An answered request takes no step.
LEMMA Unanswered ==
    ASSUME IInv, NEW r \in Requests, Arrival(r) \/ Statement(r) \/ Crash(r)
    PROVE  pc[r] \notin Answered
<1> SUFFICES ASSUME pc[r] \in Answered PROVE FALSE
  OBVIOUS
<1>1. ~Arrival(r)
  <2>1. Arrival(r) => pc[r] = "idle"
    BY ArrivalShape DEF Arrive
  <2>2. QED
    BY <2>1 DEF Answered
<1>2. ~Crash(r)
  BY DEF Crash, Working, Answered
<1>3. ~DeadlockAbort(r)
  <2>1. SUFFICES ASSUME DeadlockAbort(r) PROVE FALSE
    OBVIOUS
  <2>2. PICK S \in SUBSET Requests : r \in S /\ Cycle(S)
    BY <2>1 DEF DeadlockAbort
  <2>3. (BlockedBy(r) \ {r}) \cap S # {}
    BY <2>2 DEF Cycle, Waits
  <2>4. BlockedBy(r) = {None}
    BY DEF BlockedBy, Answered
  <2>5. QED
    BY <2>2, <2>3, <2>4, RequestsAssumption
<1>4. ~Statement(r)
  BY <1>3 DEF Statement, Answered, Candidate, SelectEditablePlan, LockPlan,
     CheckEditablePlan, LockVersion, LatestNumber, CommitDraft, CheckUpdateDraft,
     LockServiceRow, SaveTerms, CommitUpdate, CheckPublish, CommitPublish,
     SelectCoverage, LockService, LockCoverageVersion, LockCoveragePlan, CheckCoverage,
     CommitCoverage, RecordRefusal
<1>5. QED
  BY <1>1, <1>2, <1>4

\* So what it asked for stays on record.
LEMMA AnsweredStays ==
    ASSUME IInv, [Next]_vars, NEW q \in Requests, pc[q] \in Answered
    PROVE  pc'[q] = pc[q] /\ req'[q] = req[q] /\ witnessed'[q] = witnessed[q]
<1>1. CASE UNCHANGED vars \/ Quiescent
  BY <1>1 DEF vars, Quiescent
<1>2. CASE Platform
  BY <1>2 DEF Platform, GrantOrRevoke, ToggleReseller, ToggleProvider, ChangeScope,
     Working, Answered
<1>3. ASSUME NEW r \in Requests, Arrival(r) \/ Statement(r) \/ Crash(r)
      PROVE  pc'[q] = pc[q] /\ req'[q] = req[q] /\ witnessed'[q] = witnessed[q]
  BY <1>3, Unanswered, OthersSame DEF Same
<1>4. QED
  BY <1>1, <1>2, <1>3 DEF Next

LEMMA StepNotes == HeldInv /\ NotesOK /\ [Next]_vars => NotesOK'
<1> SUFFICES ASSUME HeldInv, NotesOK, [Next]_vars, NEW v \in VersionIds, NEW p \in Positions
             PROVE  LET r == row'[v].notes[p] IN
                       r # None => /\ r \in Requests /\ pc'[r] = "ok"
                                   /\ req'[r].version = v /\ req'[r].position = p
                                   /\ req'[r].generation = row'[v].generation
                                   /\ p <= row'[v].count
  BY DEF NotesOK, NotesReachTheirService
<1>1. IInv /\ TypeOK /\ row \in [VersionIds -> Row] /\ row[v] \in Row
  BY DEF HeldInv, IInv, TypeOK
<1>2. LET r == row[v].notes[p] IN
        r # None => /\ r \in Requests /\ pc'[r] = "ok"
                    /\ req'[r].version = v /\ req'[r].position = p
                    /\ req'[r].generation = row[v].generation
                    /\ p <= row[v].count
  <2>1. LET r == row[v].notes[p] IN
          r # None => /\ r \in Requests /\ pc[r] = "ok"
                      /\ req[r].version = v /\ req[r].position = p
                      /\ req[r].generation = row[v].generation
                      /\ p <= row[v].count
    BY DEF NotesOK, NotesReachTheirService
  <2>2. QED
    BY <1>1, <2>1, AnsweredStays DEF Answered
<1>3. CASE row'[v] = row[v]
  BY <1>2, <1>3
<1>4. ASSUME NEW r \in Requests, CommitDraft(r, v)
      PROVE  row'[v].notes[p] = None
  BY <1>1, <1>4 DEF CommitDraft, Commit, NoNotes
<1>5. ASSUME NEW r \in Requests, CommitUpdate(r), req[r].version = v
      PROVE  row'[v].notes[p] = None
  BY <1>1, <1>5 DEF CommitUpdate, Commit, NoNotes, Row
<1>6. ASSUME NEW r \in Requests, CommitPublish(r), req[r].version = v
      PROVE  /\ row'[v].notes = row[v].notes /\ row'[v].count = row[v].count
             /\ row'[v].generation = row[v].generation
  BY <1>1, <1>6 DEF CommitPublish, Published, Commit, Row
<1>7. ASSUME NEW r \in Requests, CommitCoverage(r), req[r].version = v
      PROVE  /\ row'[v].notes[p] = IF p = req[r].position THEN r ELSE row[v].notes[p]
             /\ row'[v].count = row[v].count /\ row'[v].generation = row[v].generation
             /\ pc'[r] = "ok" /\ req' = req
             /\ row[v].generation = req[r].generation /\ req[r].position <= row[v].count
  <2>1. /\ row' = [row EXCEPT ![v] = [row[v] EXCEPT !.notes[req[r].position] = r]]
        /\ pc[r] = "commit" /\ req[r].op = "coverage" /\ pc' = [pc EXCEPT ![r] = "ok"]
        /\ req' = req
    BY <1>7 DEF CommitCoverage, Commit
  <2>2. ServiceExists(r)
    BY <2>1 DEF HeldInv, Held, EntryOK, ServicesHeld, HasService, Inside
  <2>3. row[v].notes \in [Positions -> Requests \cup {None}]
    BY <1>1 DEF Row
  <2>4. row'[v] = [row[v] EXCEPT !.notes[req[r].position] = r]
    BY <1>1, <2>1
  <2>5. /\ row'[v].notes = [row[v].notes EXCEPT ![req[r].position] = r]
        /\ row'[v].count = row[v].count /\ row'[v].generation = row[v].generation
    BY <1>1, <2>4 DEF Row
  <2>6. pc'[r] = "ok"
    BY <1>1, <2>1 DEF TypeOK
  <2>7. QED
    BY <1>7, <2>1, <2>2, <2>3, <2>5, <2>6 DEF ServiceExists
<1>8. ASSUME NEW r \in Requests,
             \/ \E w \in VersionIds \ {v} : CommitDraft(r, w)
             \/ /\ CommitUpdate(r) \/ CommitPublish(r) \/ CommitCoverage(r)
                /\ req[r].version # v
      PROVE  row'[v] = row[v]
  BY <1>1, <1>8 DEF CommitDraft, CommitUpdate, CommitPublish, CommitCoverage, Commit
<1>9. CASE row'[v].notes[p] = None
  BY <1>9
<1>10. CASE \E r \in Requests : CommitPublish(r) /\ req[r].version = v
  BY <1>2, <1>6, <1>10
<1>11. ASSUME NEW r \in Requests, CommitCoverage(r), req[r].version = v
       PROVE  LET w == row'[v].notes[p] IN
                 w # None => /\ w \in Requests /\ pc'[w] = "ok"
                             /\ req'[w].version = v /\ req'[w].position = p
                             /\ req'[w].generation = row'[v].generation
                             /\ p <= row'[v].count
  <2>1. CASE p = req[r].position
    BY <1>7, <1>11, <2>1
  <2>2. CASE p # req[r].position
    BY <1>2, <1>7, <1>11, <2>2
  <2>3. QED
    BY <2>1, <2>2
<1>12. QED
  BY <1>3, <1>4, <1>5, <1>8, <1>9, <1>10, <1>11, WhoWrites

\* Content written for a service is never found on another one, however the
\* edits of its draft and of its content interleave.
THEOREM NotesStay == Spec => []NotesReachTheirService
<1>1. Init => NotesOK
  BY DEF Init, NotesOK, NotesReachTheirService, NoRow, NoNotes
<1>2. HeldInv /\ NotesOK /\ [Next]_vars => NotesOK'
  BY StepNotes
<1>3. NotesOK => NotesReachTheirService
  BY DEF NotesOK
<1>4. QED
  BY <1>1, <1>2, <1>3, LocksOwned, PTL DEF Spec

-----------------------------------------------------------------------------
\* What each request leaves: the code keeps nothing of a refused coverage edit,
\* whose view rolls plan.rejected back.
Outcome(r) ==
    CASE pc[r] = "ok" -> Evidence(req[r].op)
      [] pc[r] \in {"denied", "invalid"} /\ req[r].op # "coverage" -> {"plan.rejected"}
      [] OTHER -> {}

ExactEvidence == \A r \in Requests : EvidenceOf(r) = Outcome(r)

\* Statements that neither commit nor record a refusal leave no evidence, and
\* do not answer "ok" or with a refusal.
LEMMA SilentSteps ==
    ASSUME NEW r \in Requests, IInv, Arrival(r) \/ Statement(r) \/ Crash(r)
    PROVE  \/ audit' = audit /\ pc'[r] \notin {"ok", "denied", "invalid"}
           \/ RecordRefusal(r)
           \/ \E v \in VersionIds : CommitDraft(r, v)
           \/ CommitUpdate(r) \/ CommitPublish(r) \/ CommitCoverage(r)
<1>1. pc \in [Requests -> {"idle"} \cup Working \cup Answered]
  BY DEF IInv, TypeOK
<1>2. ASSUME NEW why, Refuse(r, why)
      PROVE  audit' = audit /\ pc'[r] \notin {"ok", "denied", "invalid"}
  BY <1>1, <1>2 DEF Refuse
<1>3. ASSUME NEW next \in Working, Continue(r, next)
      PROVE  audit' = audit /\ pc'[r] \notin {"ok", "denied", "invalid"}
  BY <1>1, <1>3 DEF Continue, Working
<1>4. CASE Arrival(r)
  BY <1>1, <1>4, ArrivalShape DEF Arrive
<1>5. CASE \/ Candidate(r) \/ SelectEditablePlan(r) \/ CheckEditablePlan(r)
           \/ LatestNumber(r) \/ CheckUpdateDraft(r) \/ SaveTerms(r)
           \/ CheckPublish(r) \/ SelectCoverage(r) \/ CheckCoverage(r)
  BY <1>2, <1>3, <1>5 DEF Candidate, SelectEditablePlan, CheckEditablePlan,
     LatestNumber, CheckUpdateDraft, SaveTerms, CheckPublish, SelectCoverage,
     CheckCoverage, Proceed, Working
<1>6. CASE \/ LockPlan(r) \/ LockVersion(r) \/ LockService(r)
           \/ LockCoverageVersion(r) \/ LockCoveragePlan(r)
  BY <1>1, <1>2, <1>6 DEF LockPlan, LockVersion, LockService, LockCoverageVersion,
     LockCoveragePlan
<1>7. CASE \E p \in Positions : LockServiceRow(r, p)
  BY <1>7 DEF LockServiceRow
<1>8. CASE DeadlockAbort(r) \/ Crash(r)
  BY <1>1, <1>8 DEF DeadlockAbort, Crash
<1>9. QED
  BY <1>4, <1>5, <1>6, <1>7, <1>8 DEF Statement

LEMMA StepEvidence ==
    ASSUME IInv, ExactEvidence, [Next]_vars
    PROVE  ExactEvidence'
<1>1. \A r \in Requests : EvidenceOf(r) = Outcome(r)
  BY DEF ExactEvidence
<1>2. ASSUME NEW q \in Requests, audit' = audit, pc'[q] = pc[q], req'[q] = req[q]
      PROVE  EvidenceOf(q)' = Outcome(q)'
  BY <1>1, <1>2 DEF EvidenceOf, Outcome, Evidence
<1>3. CASE UNCHANGED <<audit, pc, req>>
  BY <1>2, <1>3 DEF ExactEvidence
<1>4. ASSUME NEW r \in Requests, Arrival(r) \/ Statement(r) \/ Crash(r)
      PROVE  ExactEvidence'
  <2>1. EvidenceOf(r) = {} /\ pc[r] \notin Answered
    BY <1>1, <1>4, Unanswered DEF Outcome, Answered
  <2>2. /\ pc \in [Requests -> {"idle"} \cup Working \cup Answered]
        /\ RequestOK(r)
    BY DEF IInv, TypeOK
  <2>3. ASSUME NEW v \in VersionIds \cup {None}, NEW actions,
               audit' = audit \cup {Event(r, a, v) : a \in actions}
        PROVE  /\ EvidenceOf(r)' = actions
               /\ \A q \in Requests \ {r} : EvidenceOf(q)' = EvidenceOf(q)
    <3> DEFINE new == {Event(r, a, v) : a \in actions}
    <3>1. \A e \in new : e.request = r /\ e.action \in actions
      BY DEF Event
    <3>2. \A a \in actions : Event(r, a, v) \in new /\ Event(r, a, v).action = a
                             /\ Event(r, a, v).request = r
      BY DEF Event
    <3>3. \A e \in audit : e.request # r
      BY <2>1 DEF EvidenceOf
    <3> HIDE DEF new
    <3>4. EvidenceOf(r)' = actions
      BY <2>3, <3>1, <3>2, <3>3 DEF EvidenceOf, new
    <3>5. ASSUME NEW q \in Requests \ {r} PROVE EvidenceOf(q)' = EvidenceOf(q)
      <4>1. {e \in audit' : e.request = q} = {e \in audit : e.request = q}
        BY <2>3, <3>1 DEF new
      <4>2. QED
        BY <4>1 DEF EvidenceOf
    <3>6. QED
      BY <3>4, <3>5
  <2>4. EvidenceOf(r)' = Outcome(r)' /\ \A q \in Requests \ {r} : EvidenceOf(q)' = EvidenceOf(q)
    <3>1. CASE audit' = audit /\ pc'[r] \notin {"ok", "denied", "invalid"}
      BY <2>1, <3>1 DEF EvidenceOf, Outcome
    <3>2. CASE RecordRefusal(r)
      <4>1. pc'[r] \in {"denied", "invalid"} /\ req' = req
        BY <2>2, <3>2 DEF RecordRefusal, RequestOK, Flow
      <4>2. CASE req[r].op = "coverage"
        BY <2>1, <3>2, <4>1, <4>2 DEF RecordRefusal, EvidenceOf, Outcome
      <4>3. CASE req[r].op # "coverage"
        <5>1. audit' = audit \cup {Event(r, a, req[r].version) : a \in {"plan.rejected"}}
          BY <3>2, <4>3 DEF RecordRefusal
        <5>2. req[r].version \in VersionIds \cup {None}
          BY DEF IInv, TypeOK, Request
        <5>3. QED
          BY <2>3, <4>1, <4>3, <5>1, <5>2 DEF Outcome
      <4>4. QED
        BY <4>2, <4>3
    <3>3. ASSUME NEW v \in VersionIds, NEW newRow, NEW actions,
                 Commit(r, v, newRow, actions), actions = Evidence(req[r].op)
          PROVE  EvidenceOf(r)' = Outcome(r)'
                 /\ \A q \in Requests \ {r} : EvidenceOf(q)' = EvidenceOf(q)
      <4>1. /\ audit' = audit \cup {Event(r, a, v) : a \in actions}
            /\ pc'[r] = "ok" /\ req' = req
        BY <2>2, <3>3 DEF Commit
      <4>2. Outcome(r)' = actions
        BY <3>3, <4>1 DEF Outcome, Evidence
      <4>3. QED
        BY <2>3, <4>1, <4>2
    <3>4. pc[r] = "commit" /\ req[r].op # "create_draft" => req[r].version \in VersionIds
      BY <2>2 DEF RequestOK, Arrived
    <3>5. CASE \E v \in VersionIds : CommitDraft(r, v)
      BY <3>3, <3>5 DEF CommitDraft, Evidence
    <3>6. CASE CommitUpdate(r)
      BY <3>3, <3>4, <3>6 DEF CommitUpdate, Evidence
    <3>7. CASE CommitPublish(r)
      BY <3>3, <3>4, <3>7 DEF CommitPublish, Evidence
    <3>8. CASE CommitCoverage(r)
      BY <3>3, <3>4, <3>8 DEF CommitCoverage, Evidence
    <3>9. QED
      BY <1>4, <3>1, <3>2, <3>5, <3>6, <3>7, <3>8, SilentSteps
  <2>5. ASSUME NEW q \in Requests \ {r} PROVE EvidenceOf(q)' = Outcome(q)'
    <3>1. pc'[q] = pc[q] /\ req'[q] = req[q]
      BY <1>4, OthersSame DEF Same
    <3>2. Outcome(q)' = Outcome(q)
      BY <3>1 DEF Outcome, Evidence
    <3>3. QED
      BY <1>1, <2>4, <3>2
  <2>6. \A q \in Requests : EvidenceOf(q)' = Outcome(q)'
    BY <2>4, <2>5
  <2>7. QED
    BY <2>6 DEF ExactEvidence
<1>5. CASE Platform \/ Quiescent \/ UNCHANGED vars
  BY <1>3, <1>5 DEF Platform, GrantOrRevoke, ToggleReseller, ToggleProvider, ChangeScope,
     Quiescent, vars
<1>6. QED
  BY <1>4, <1>5 DEF Next

\* The audit log of any number of requests tells exactly how each one ended.
THEOREM EvidenceTellsOutcome == Spec => []EvidenceMatchesOutcome
<1>1. Init => ExactEvidence
  BY DEF Init, ExactEvidence, EvidenceOf, Outcome
<1>2. IInv /\ ExactEvidence /\ [Next]_vars => ExactEvidence'
  BY StepEvidence
<1>3. ExactEvidence => EvidenceMatchesOutcome
  BY DEF ExactEvidence, EvidenceMatchesOutcome, Outcome
<1>4. QED
  BY <1>1, <1>2, <1>3, Invariance, PTL DEF Spec

-----------------------------------------------------------------------------
\* The request passed the checks of _editable_plan.
Passed(r) ==
    \/ pc[r] \in {"latest", "lockVersion", "publishChecks"} \cup DraftSteps
    \/ pc[r] \in {"commit", "ok"} /\ req[r].op # "coverage"

FactsNow(r) == ScopeFacts(req[r].actor, TargetPlan(r), admins, resellerLive, providerLive)

\* What a request has read of the scope was true at some instant of its life.
ScopeKnown(r) ==
    /\ pc[r] \in {"select", "lockPlan", "checks"} /\ req[r].op = "create_draft" =>
          reads[r].plan = req[r].plan
    /\ pc[r] \in Working => FactsNow(r) \subseteq witnessed[r]
    /\ pc[r] \in {"lockPlan", "checks"} /\ reads[r].provider => "provider" \in witnessed[r]
    /\ Passed(r) => witnessed[r] = {"catalog", "provider"}

ScopeInv == \A r \in Requests : ScopeKnown(r)

\* A statement changes neither the request nor the scope around it, and only
\* one moves a draft operation past _editable_plan.
LEMMA StatementFrame ==
    ASSUME IInv, NEW r \in Requests, Statement(r) \/ Crash(r)
    PROVE  /\ UNCHANGED <<req, scope, witnessed>>
           /\ pc[r] \in Working
           /\ pc'[r] \in Working => row' = row
           /\ \/ CheckEditablePlan(r) /\ EditablePlanRefusal(r) = "none"
              \/ Passed(r)' => Passed(r)
           /\ pc'[r] \in {"select", "lockPlan", "checks"} =>
                 \/ Candidate(r) /\ req[r].op # "create_draft"
                 \/ pc[r] = "select" /\ SelectEditablePlan(r) /\ pc'[r] = "lockPlan"
                      /\ reads'[r].plan = reads[r].plan
                      /\ reads'[r].provider = providerLive[reads[r].plan]
                 \/ pc[r] = "lockPlan" /\ reads' = reads
<1>1. /\ pc \in [Requests -> {"idle"} \cup Working \cup Answered] /\ RequestOK(r)
      /\ reads \in [Requests -> Reads]
  BY DEF IInv, TypeOK
<1> DEFINE Framed ==
      /\ UNCHANGED <<req, scope, witnessed>>
      /\ pc[r] \in Working
      /\ pc'[r] \in Working => row' = row
      /\ Passed(r)' => Passed(r)
      /\ pc'[r] \notin {"select", "lockPlan", "checks"}
<1>2. ASSUME NEW why, Refuse(r, why), pc[r] \in Working PROVE Framed
  BY <1>1, <1>2 DEF Refuse, Passed, DraftSteps
<1>3. ASSUME NEW next \in Working \ {"select", "lockPlan", "checks"}, Continue(r, next),
             pc[r] \in Working,
             next \in {"latest", "lockVersion", "publishChecks"} \cup DraftSteps
               \/ (next = "commit" /\ req[r].op # "coverage") => Passed(r)
      PROVE  Framed
  BY <1>1, <1>3 DEF Continue, Passed, Working
<1>4. CASE Candidate(r)
  <2>1. pc[r] = "candidate" /\ req[r].op # "create_draft"
    BY <1>1, <1>4 DEF Candidate, RequestOK, Flow
  <2>2. CASE Visible(req[r].actor, row[req[r].version].plan)
    BY <1>1, <1>4, <2>1, <2>2 DEF Candidate, Continue, Passed, Working, DraftSteps
  <2>3. CASE ~Visible(req[r].actor, row[req[r].version].plan)
    BY <1>2, <1>4, <2>1, <2>3 DEF Candidate, Working
  <2>4. QED
    BY <2>2, <2>3
<1>5. CASE SelectEditablePlan(r)
  <2>1. pc[r] = "select"
    BY <1>5 DEF SelectEditablePlan
  <2>2. CASE Visible(req[r].actor, reads[r].plan)
    <3>1. /\ reads' = [reads EXCEPT ![r].provider = providerLive[reads[r].plan]]
          /\ Continue(r, "lockPlan")
      BY <1>5, <2>2 DEF SelectEditablePlan
    <3>2. /\ reads'[r].plan = reads[r].plan
          /\ reads'[r].provider = providerLive[reads[r].plan]
          /\ pc'[r] = "lockPlan"
      BY <1>1, <3>1 DEF Reads, Continue
    <3>3. QED
      BY <1>5, <2>1, <3>1, <3>2 DEF Continue, Passed, Working, DraftSteps
  <2>3. CASE ~Visible(req[r].actor, reads[r].plan)
    BY <1>2, <1>5, <2>1, <2>3 DEF SelectEditablePlan, Working
  <2>4. QED
    BY <2>2, <2>3
<1>6. CASE CheckEditablePlan(r)
  <2>1. CASE EditablePlanRefusal(r) = "none"
    BY <1>1, <1>6, <2>1 DEF CheckEditablePlan, Proceed, Continue, Working
  <2>2. CASE EditablePlanRefusal(r) # "none"
    BY <1>2, <1>6, <2>2 DEF CheckEditablePlan, Proceed, Working
  <2>3. QED
    BY <2>1, <2>2
<1>7. CASE LatestNumber(r)
  <2>1. pc[r] = "latest" /\ Passed(r)
    BY <1>7 DEF LatestNumber, Passed
  <2>2. CASE req[r].count = 0
    BY <1>2, <1>7, <2>1, <2>2 DEF LatestNumber, Working
  <2>3. CASE req[r].count # 0
    BY <1>3, <1>7, <2>1, <2>3 DEF LatestNumber, Working
  <2>4. QED
    BY <2>2, <2>3
<1>8. CASE CheckUpdateDraft(r) \/ SaveTerms(r) \/ CheckPublish(r)
  BY <1>2, <1>3, <1>8 DEF CheckUpdateDraft, SaveTerms, CheckPublish, Proceed, Passed,
     Working, DraftSteps
<1>9. CASE SelectCoverage(r)
  <2>1. CASE ServiceExists(r) /\ Visible(req[r].actor, row[req[r].version].plan)
    BY <1>3, <1>9, <2>1 DEF SelectCoverage, Working, DraftSteps
  <2>2. CASE ~(ServiceExists(r) /\ Visible(req[r].actor, row[req[r].version].plan))
    BY <1>2, <1>9, <2>2 DEF SelectCoverage, Working
  <2>3. QED
    BY <2>1, <2>2
<1>10. CASE CheckCoverage(r)
  <2>1. pc[r] = "coverageCheck" /\ req[r].op = "coverage"
    BY <1>1, <1>10 DEF CheckCoverage, RequestOK, Flow, CoverageSteps
  <2>2. QED
    BY <1>2, <1>3, <1>10, <2>1 DEF CheckCoverage, Working, DraftSteps
<1>11. CASE LockPlan(r)
  BY <1>1, <1>11 DEF LockPlan, Passed, Working, DraftSteps
<1>12. CASE LockVersion(r) \/ LockCoverageVersion(r) \/ LockCoveragePlan(r)
  BY <1>1, <1>12 DEF LockVersion, LockCoverageVersion, LockCoveragePlan, Passed,
     Working, DraftSteps
<1>13. CASE LockService(r)
  BY <1>1, <1>2, <1>13 DEF LockService, Passed, Working, DraftSteps
<1>14. CASE \E p \in Positions : LockServiceRow(r, p)
  BY <1>14 DEF LockServiceRow, Passed, Working
<1>15. CASE DeadlockAbort(r)
  <2>1. pc'[r] = "error" /\ UNCHANGED <<row, req, scope, witnessed>>
    BY <1>1, <1>15 DEF DeadlockAbort
  <2>2. PICK S \in SUBSET Requests : r \in S /\ Cycle(S)
    BY <1>15 DEF DeadlockAbort
  <2>3. (BlockedBy(r) \ {r}) \cap S # {}
    BY <2>2 DEF Cycle, Waits
  <2>4. pc[r] \notin Working => BlockedBy(r) = {None}
    BY DEF BlockedBy, Working
  <2>5. pc[r] \in Working
    BY <2>2, <2>3, <2>4, RequestsAssumption
  <2>6. QED
    BY <2>1, <2>5 DEF Passed, DraftSteps
<1>16. CASE Crash(r)
  BY <1>1, <1>16 DEF Crash, Passed, DraftSteps, Working
<1>17. CASE RecordRefusal(r)
  BY <1>1, <1>17 DEF RecordRefusal, RequestOK, Flow, Passed, DraftSteps, Working
<1>18. CASE \/ \E v \in VersionIds : CommitDraft(r, v)
            \/ CommitUpdate(r) \/ CommitPublish(r) \/ CommitCoverage(r)
  <2>1. /\ \E v, newRow, actions : Commit(r, v, newRow, actions)
        /\ pc[r] = "commit"
    BY <1>18 DEF CommitDraft, CommitUpdate, CommitPublish, CommitCoverage
  <2>2. pc'[r] = "ok" /\ UNCHANGED <<req, scope, witnessed>>
    BY <1>1, <2>1 DEF Commit
  <2>3. QED
    BY <2>1, <2>2 DEF Passed, Working, DraftSteps
<1>19. QED
  BY <1>4, <1>5, <1>6, <1>7, <1>8, <1>9, <1>10, <1>11, <1>12, <1>13, <1>14, <1>15,
     <1>16, <1>17, <1>18 DEF Statement

\* The plan a working request is about is the one its facts are about.
LEMMA TargetKnown ==
    ASSUME IInv, NEW r \in Requests, ScopeKnown(r), pc[r] \in {"select", "lockPlan", "checks"}
    PROVE  reads[r].plan = TargetPlan(r)
BY DEF IInv, RequestOK, PlanKnown, KnowsPlan, UnderPlanLock, ScopeKnown, TargetPlan

LEMMA TargetStays ==
    ASSUME IInv, [Next]_vars, NEW q \in Requests, pc[q] # "idle", req'[q] = req[q]
    PROVE  TargetPlan(q)' = TargetPlan(q)
<1>1. req[q].op # "create_draft" =>
        req[q].version \in VersionIds /\ Stored(req[q].version)
  BY DEF IInv, RequestOK, Arrived
<1>2. req[q].op # "create_draft" => row'[req[q].version].plan = row[req[q].version].plan
  BY <1>1, RowsKept
<1>3. QED
  BY <1>2 DEF TargetPlan

LEMMA StepScope == IInv /\ ScopeInv /\ [Next]_vars => ScopeInv'
<1> SUFFICES ASSUME IInv, ScopeInv, [Next]_vars, NEW q \in Requests PROVE ScopeKnown(q)'
  BY DEF ScopeInv
<1>1. ScopeKnown(q) /\ RequestOK(q) /\ TypeOK
  BY DEF ScopeInv, IInv
<1>2. ASSUME UNCHANGED <<scope, pc[q], req[q], reads[q], witnessed[q]>>
      PROVE  ScopeKnown(q)'
  <2>1. pc[q] # "idle" => TargetPlan(q)' = TargetPlan(q)
    BY <1>2, TargetStays
  <2>2. pc[q] \in Working => FactsNow(q)' = FactsNow(q)
    BY <1>2, <2>1 DEF FactsNow, ScopeFacts, scope, Working
  <2>3. Passed(q)' <=> Passed(q)
    BY <1>2 DEF Passed
  <2>4. QED
    BY <1>1, <1>2, <2>2, <2>3 DEF ScopeKnown
<1>3. CASE UNCHANGED vars \/ Quiescent
  BY <1>2, <1>3 DEF vars, Quiescent
<1>4. CASE Platform
  <2>1. ChangeScope
    BY <1>4 DEF Platform, GrantOrRevoke, ToggleReseller, ToggleProvider
  <2>2. UNCHANGED <<row, pc, req, reads>>
    BY <2>1 DEF ChangeScope
  <2>3. TargetPlan(q)' = TargetPlan(q) /\ (Passed(q)' <=> Passed(q))
    BY <2>2 DEF TargetPlan, Passed
  <2>4. CASE pc[q] \in Working
    <3>1. witnessed'[q] = witnessed[q] \cup FactsNow(q)'
      BY <2>1, <2>2, <2>3, <2>4 DEF ChangeScope, FactsNow
    <3>2. witnessed'[q] \subseteq {"catalog", "provider"}
      BY <1>1, <3>1 DEF TypeOK, FactsNow, ScopeFacts
    <3>3. QED
      BY <1>1, <2>2, <2>3, <3>1, <3>2 DEF ScopeKnown
  <2>5. CASE pc[q] \notin Working
    <3>1. witnessed'[q] = witnessed[q]
      BY <2>1, <2>5 DEF ChangeScope
    <3>2. QED
      BY <1>1, <2>2, <2>3, <2>5, <3>1 DEF ScopeKnown, Working
  <2>6. QED
    BY <2>4, <2>5
<1>5. ASSUME NEW r \in Requests, r # q, Arrival(r) \/ Statement(r) \/ Crash(r)
      PROVE  ScopeKnown(q)'
  <2>1. Same(q)
    BY <1>5, OthersSame
  <2>2. UNCHANGED scope
    <3>1. CASE Arrival(r)
      BY <3>1, ArrivalShape DEF Arrive
    <3>2. CASE Statement(r) \/ Crash(r)
      BY <3>2, StatementFrame
    <3>3. QED
      BY <1>5, <3>1, <3>2
  <2>3. QED
    BY <1>2, <2>1, <2>2 DEF Same
<1>6. CASE Arrival(q)
  <2>1. PICK request \in Request, plan \in Plans,
             first \in {"select", "candidate", "coverage"} :
          /\ Arrive(q, request, plan, first)
          /\ request.op = "create_draft" => first = "select" /\ request.plan = plan
          /\ request.op # "create_draft" => plan = row[request.version].plan
    BY <1>6, ArrivalShape
  <2>2. /\ pc'[q] = first /\ req'[q] = request /\ row' = row /\ UNCHANGED scope
        /\ first = "select" => reads'[q].plan = plan
        /\ witnessed'[q] = ScopeFacts(request.actor, plan, admins, resellerLive, providerLive)
    BY <1>1, <2>1 DEF Arrive, TypeOK, Reads
  <2>3. TargetPlan(q)' = plan
    BY <2>1, <2>2 DEF TargetPlan
  <2>4. FactsNow(q)' = witnessed'[q]
    BY <2>2, <2>3 DEF FactsNow, scope
  <2>5. ~Passed(q)'
    BY <2>2 DEF Passed, DraftSteps
  <2>6. QED
    BY <2>1, <2>2, <2>4, <2>5 DEF ScopeKnown
<1>7. CASE Statement(q) \/ Crash(q)
  <2>1. /\ UNCHANGED <<req, scope, witnessed>> /\ pc[q] \in Working /\ pc[q] # "idle"
        /\ \/ CheckEditablePlan(q) /\ EditablePlanRefusal(q) = "none"
           \/ Passed(q)' => Passed(q)
        /\ pc'[q] \in {"select", "lockPlan", "checks"} =>
              \/ Candidate(q) /\ req[q].op # "create_draft"
              \/ pc[q] = "select" /\ SelectEditablePlan(q) /\ pc'[q] = "lockPlan"
                   /\ reads'[q].plan = reads[q].plan
                   /\ reads'[q].provider = providerLive[reads[q].plan]
              \/ pc[q] = "lockPlan" /\ reads' = reads
    BY <1>7, StatementFrame DEF Working
  <2>2. FactsNow(q)' = FactsNow(q)
    BY <2>1, TargetStays DEF FactsNow, scope
  <2>3. FactsNow(q) \subseteq witnessed[q]
    BY <1>1, <2>1 DEF ScopeKnown
  <2>4. Passed(q)' => witnessed'[q] = {"catalog", "provider"}
    <3>1. CASE Passed(q)' => Passed(q)
      BY <1>1, <2>1, <3>1 DEF ScopeKnown
    <3>2. CASE CheckEditablePlan(q) /\ EditablePlanRefusal(q) = "none"
      <4>1. pc[q] = "checks" /\ InCatalog(req[q].actor, reads[q].plan) /\ reads[q].provider
        BY <3>2 DEF CheckEditablePlan, EditablePlanRefusal
      <4>2. reads[q].plan = TargetPlan(q)
        BY <1>1, <4>1, TargetKnown
      <4>3. "catalog" \in FactsNow(q)
        BY <4>1, <4>2 DEF FactsNow, ScopeFacts, InCatalog
      <4>4. "provider" \in witnessed[q]
        BY <1>1, <4>1 DEF ScopeKnown
      <4>5. witnessed[q] \subseteq {"catalog", "provider"}
        BY <1>1 DEF TypeOK
      <4>6. QED
        BY <2>1, <2>3, <4>3, <4>4, <4>5
    <3>3. QED
      BY <2>1, <3>1, <3>2
  <2>5. pc'[q] \in {"select", "lockPlan", "checks"} /\ req[q].op = "create_draft" =>
          reads'[q].plan = req[q].plan
    BY <1>1, <2>1 DEF ScopeKnown
  <2>6. pc'[q] \in {"lockPlan", "checks"} /\ reads'[q].provider => "provider" \in witnessed[q]
    <3>1. ASSUME pc[q] = "select", providerLive[reads[q].plan] PROVE "provider" \in witnessed[q]
      <4>1. reads[q].plan = TargetPlan(q)
        BY <1>1, <3>1, TargetKnown
      <4>2. "provider" \in FactsNow(q)
        BY <3>1, <4>1 DEF FactsNow, ScopeFacts
      <4>3. QED
        BY <2>3, <4>2
    <3>2. Candidate(q) => pc'[q] \notin {"lockPlan", "checks"}
      BY <1>1 DEF Candidate, Continue, Refuse, TypeOK
    <3>3. QED
      BY <1>1, <2>1, <3>1, <3>2 DEF ScopeKnown
  <2>7. QED
    BY <2>1, <2>2, <2>3, <2>4, <2>5, <2>6 DEF ScopeKnown
<1>8. QED
  BY <1>3, <1>4, <1>5, <1>6, <1>7 DEF Next

\* However grants, resellers and providers change while a draft operation runs,
\* one that commits has seen the plan in its actor's catalog and the provider
\* live at some instants of its own life.
THEOREM LiveScopeSeen == Spec => []DraftsSawLiveScope
<1>1. Init => ScopeInv
  BY DEF Init, ScopeInv, ScopeKnown, Passed, DraftSteps, Working
<1>2. IInv /\ ScopeInv /\ [Next]_vars => ScopeInv'
  BY StepScope
<1>3. ScopeInv => DraftsSawLiveScope
  BY DEF ScopeInv, ScopeKnown, Passed, DraftsSawLiveScope
<1>4. QED
  BY <1>1, <1>2, <1>3, Invariance, PTL DEF Spec

-----------------------------------------------------------------------------
(* PlanVersions implements PublicationLedger: a commit that writes terms is *)
(* the ledger's step, every other step leaves the ledger alone.             *)

ledger == [v \in VersionIds |-> Entry(v)]

LEMMA LedgerRow ==
    ASSUME TypeOK, NEW v \in VersionIds
    PROVE  /\ ledger[v] = Entry(v)
           /\ ledger[v].phase = row[v].status
           /\ ledger[v].plan = row[v].plan
           /\ ledger[v].number = row[v].number
           /\ ledger[v].author = row[v].author
           /\ Ledger!Recorded(v) <=> Stored(v)
  BY DEF ledger, Entry, Ledger!Recorded, Stored

LEMMA LedgerNumbers ==
    ASSUME TypeOK, NEW plan \in Plans
    PROVE  Ledger!Numbers(plan) = {row[w].number : w \in VersionsOf(plan)}
<1>1. \A w \in VersionIds : /\ Entry(w).number = row[w].number
                            /\ Entry(w).plan = row[w].plan
                            /\ Entry(w).phase = row[w].status
  BY DEF Entry
<1>2. {w \in VersionIds : Ledger!Recorded(w) /\ [v \in VersionIds |-> Entry(v)][w].plan = plan}
        = VersionsOf(plan)
  BY <1>1 DEF VersionsOf, Stored, Ledger!Recorded
<1>3. QED
  BY <1>1, <1>2 DEF Ledger!Numbers, VersionsOf

\* A row written at v changes the ledger at v only.
LEMMA LedgerWrite ==
    ASSUME TypeOK, NEW v \in VersionIds, NEW new, row' = [row EXCEPT ![v] = new]
    PROVE  /\ row'[v] = new
           /\ ledger' = [ledger EXCEPT ![v] = Entry(v)']
<1>1. row \in [VersionIds -> Row]
  BY DEF TypeOK
<1>2. row'[v] = new /\ \A w \in VersionIds \ {v} : row'[w] = row[w]
  BY <1>1
<1>3. \A w \in VersionIds \ {v} : Entry(w)' = Entry(w)
  BY <1>2 DEF Entry, Stored
<1>4. QED
  BY <1>2, <1>3 DEF ledger

LEMMA InitLedger == Init => Ledger!Init
  BY DEF Init, NoRow, Ledger!Init, Ledger!Blank, Entry, Stored

LEMMA StepLedger == IInv /\ [Next]_vars => [Ledger!Next]_ledger
<1> SUFFICES ASSUME IInv, [Next]_vars
             PROVE  Ledger!Next \/ ledger' = ledger
  OBVIOUS
<1> USE DEF ledger
<1>1. TypeOK /\ row \in [VersionIds -> Row]
  BY DEF IInv, TypeOK
<1>2. CASE row' = row
  BY <1>2 DEF Entry, Stored
<1>3. ASSUME NEW r \in Requests, NEW v \in VersionIds, req[r].actor \in Users, Drafted(r, v)
      PROVE  Ledger!Next
  <2> DEFINE n == reads[r].latest
             plan == reads[r].plan
             terms == <<req[r].text, req[r].count>>
  <2>1. plan \in Plans /\ terms \in Contents \X Positions /\ ~Stored(v)
    BY <1>3 DEF Drafted
  <2>2. Ledger!Numbers(plan) = {row[w].number : w \in VersionsOf(plan)}
    BY <1>1, <2>1, LedgerNumbers
  <2>3. n \in {0} \cup Ledger!Numbers(plan) /\ \A m \in Ledger!Numbers(plan) : m <= n
    BY <1>3, <2>2 DEF Drafted
  <2>4. Entry(v)' = [phase |-> "draft", plan |-> plan, number |-> n + 1,
                     author |-> req[r].actor, terms |-> terms, publisher |-> None]
    BY <1>1, <1>3 DEF Drafted, Entry, Stored
  <2>5. ledger' = [ledger EXCEPT ![v] = Entry(v)']
    BY <1>1, <1>3, LedgerWrite DEF Drafted
  <2>6. Ledger!Draft(v, plan, req[r].actor, terms, n)
    BY <1>1, <2>1, <2>3, <2>4, <2>5, LedgerRow DEF Ledger!Draft
  <2>7. QED
    BY <1>3, <2>1, <2>3, <2>6 DEF Ledger!Next
<1>4. ASSUME NEW r \in Requests, NEW v \in VersionIds, Revised(r, v)
      PROVE  Ledger!Next
  <2> DEFINE terms == <<req[r].text, req[r].count>>
  <2>1. row[v] \in Row /\ row[v].status = "draft" /\ terms \in Contents \X Positions
    BY <1>1, <1>4 DEF Revised
  <2>2. Entry(v)' = [Entry(v) EXCEPT !.terms = terms]
    <3>1. row'[v] = [row[v] EXCEPT !.text = req[r].text, !.count = req[r].count,
                                   !.generation = @ + 1, !.notes = NoNotes]
      BY <1>1, <1>4 DEF Revised
    <3>2. /\ row'[v].status = "draft" /\ row'[v].plan = row[v].plan
          /\ row'[v].number = row[v].number /\ row'[v].author = row[v].author
          /\ row'[v].text = req[r].text /\ row'[v].count = req[r].count
          /\ row'[v].published_by = row[v].published_by
      BY <2>1, <3>1 DEF Row
    <3>3. QED
      BY <2>1, <3>2 DEF Entry, Stored
  <2>3. ledger' = [ledger EXCEPT ![v] = Entry(v)']
    BY <1>1, <1>4, LedgerWrite DEF Revised
  <2>4. Ledger!Revise(v, terms)
    BY <1>1, <2>1, <2>2, <2>3, LedgerRow DEF Ledger!Revise
  <2>5. QED
    BY <2>1, <2>4 DEF Ledger!Next
<1>5. ASSUME NEW r \in Requests, NEW v \in VersionIds, req[r].actor \in Users,
             PublishedBy(r, v)
      PROVE  Ledger!Next
  <2>1. row[v] \in Row /\ row[v].status = "draft" /\ req[r].actor # row[v].author
    BY <1>1, <1>5 DEF PublishedBy
  <2>2. Entry(v)' = [Entry(v) EXCEPT !.phase = "published", !.publisher = req[r].actor]
    <3>1. row'[v] = [row[v] EXCEPT !.status = "published", !.published_by = req[r].actor]
      BY <1>1, <1>5 DEF PublishedBy
    <3>2. /\ row'[v].status = "published" /\ row'[v].plan = row[v].plan
          /\ row'[v].number = row[v].number /\ row'[v].author = row[v].author
          /\ row'[v].text = row[v].text /\ row'[v].count = row[v].count
          /\ row'[v].published_by = req[r].actor
      BY <2>1, <3>1 DEF Row
    <3>3. Entry(v)' = [phase |-> "published", plan |-> row[v].plan,
                       number |-> row[v].number, author |-> row[v].author,
                       terms |-> <<row[v].text, row[v].count>>,
                       publisher |-> req[r].actor]
      BY <3>2 DEF Entry, Stored
    <3>4. Entry(v) = [phase |-> "draft", plan |-> row[v].plan,
                      number |-> row[v].number, author |-> row[v].author,
                      terms |-> <<row[v].text, row[v].count>>,
                      publisher |-> row[v].published_by]
      BY <2>1 DEF Entry, Stored
    <3>5. DEFINE changed == [Entry(v) EXCEPT !.phase = "published"]
    <3>6. changed = [phase |-> "published", plan |-> row[v].plan,
                     number |-> row[v].number, author |-> row[v].author,
                     terms |-> <<row[v].text, row[v].count>>,
                     publisher |-> row[v].published_by]
      BY <3>4
    <3>7. [changed EXCEPT !.publisher = req[r].actor] = Entry(v)'
      <4> HIDE DEF changed
      <4> QED
        BY <3>3, <3>6
    <3>8. QED
      BY <3>7
  <2>3. ledger' = [ledger EXCEPT ![v] = Entry(v)']
    BY <1>1, <1>5, LedgerWrite DEF PublishedBy
  <2>4. Ledger!Publish(v, req[r].actor)
    BY <1>1, <2>1, <2>2, <2>3, LedgerRow DEF Ledger!Publish
  <2>5. QED
    BY <1>5, <2>4 DEF Ledger!Next
<1>6. ASSUME NEW r \in Requests, NEW v \in VersionIds, Annotated(r, v)
      PROVE  ledger' = ledger
  <2>1. row'[v] = [row[v] EXCEPT !.notes[req[r].position] = r] /\ row[v] \in Row
    BY <1>1, <1>6 DEF Annotated
  <2>2. Entry(v)' = Entry(v)
    BY <2>1 DEF Entry, Stored, Row
  <2>3. ledger' = [ledger EXCEPT ![v] = Entry(v)']
    BY <1>1, <1>6, LedgerWrite DEF Annotated
  <2>4. QED
    BY <2>2, <2>3
<1>7. QED
  BY <1>2, <1>3, <1>4, <1>5, <1>6, WhatIsWritten

\* For any number of requests, plans and keys, the rows of the catalog behave as
\* the abstract ledger: consecutive numbers, revision by nobody but through a
\* draft, one publication by another person, frozen afterwards.
THEOREM Refinement == Spec => ImplementsLedger
<1>1. Init => Ledger!Init
  BY InitLedger
<1>2. IInv /\ [Next]_vars => [Ledger!Next]_ledger
  BY StepLedger
<1>3. QED
  BY <1>1, <1>2, Invariance, PTL DEF Spec, ImplementsLedger, Ledger!Spec, ledger

-----------------------------------------------------------------------------
(* Progress.  That requests are answered rests on two facts: nothing can    *)
(* keep a request busy for ever, and requests never all wait.               *)

\* How many statements a request still has ahead of it, at most, apart from the
\* service rows that an edit of a draft locks one by one.  A coverage edit runs
\* its locking statement twice.
AheadAt(statement, entry) ==
    LET twice(first, second) == IF entry = 1 THEN first ELSE second IN
    CASE statement = "candidate" -> 13
      [] statement = "select" -> 12
      [] statement = "lockPlan" -> 11
      [] statement = "checks" -> 10
      [] statement \in {"latest", "lockVersion"} -> 9
      [] statement \in {"draftChecks", "publishChecks"} -> 8
      [] statement = "deleteServices" -> 3
      [] statement = "coverage" -> twice(12, 7)
      [] statement = "lockService" -> twice(11, 6)
      [] statement = "lockCoverageVersion" -> twice(10, 5)
      [] statement = "lockCoveragePlan" -> twice(9, 4)
      [] statement = "coverageCheck" -> twice(8, 3)
      [] statement = "commit" -> 2
      [] statement = "refused" -> 1
      [] OTHER -> 0

Ahead(r) == AheadAt(pc[r], reads[r].entry)

\* The service rows that r has not locked.
Unlocked(r) == {s \in Services : serviceLock[s] # r}

\* A step brings r closer to its answer, or leaves it where it is.
Descends(r) ==
    \/ Ahead(r)' < Ahead(r)
    \/ /\ Ahead(r)' = Ahead(r)
       /\ Unlocked(r)' \subseteq Unlocked(r) /\ Unlocked(r)' # Unlocked(r)

Stays(r) == pc'[r] = pc[r] /\ Ahead(r)' = Ahead(r) /\ Unlocked(r)' = Unlocked(r)

\* Every statement brings its request closer to an answer, and nothing that
\* other requests or the platform do takes a request further from it or
\* reopens one that was answered: the finitely many statements of a request
\* run out.
StatementsRunOut ==
    [][\A r \in Requests :
          /\ Statement(r) \/ Crash(r) => Descends(r)
          /\ pc[r] # "idle" => Descends(r) \/ Stays(r)
          /\ pc[r] \in Answered => Stays(r)]_vars

\* The table, statement by statement.
LEMMA AheadTable ==
    ASSUME NEW e \in {1, 2}
    PROVE  /\ AheadAt("candidate", e) = 13 /\ AheadAt("select", e) = 12
           /\ AheadAt("lockPlan", e) = 11 /\ AheadAt("checks", e) = 10
           /\ AheadAt("latest", e) = 9 /\ AheadAt("lockVersion", e) = 9
           /\ AheadAt("draftChecks", e) = 8 /\ AheadAt("publishChecks", e) = 8
           /\ AheadAt("deleteServices", e) = 3
           /\ AheadAt("commit", e) = 2 /\ AheadAt("refused", e) = 1
           /\ AheadAt("coverage", e) = (IF e = 1 THEN 12 ELSE 7)
           /\ AheadAt("lockService", e) = (IF e = 1 THEN 11 ELSE 6)
           /\ AheadAt("lockCoverageVersion", e) = (IF e = 1 THEN 10 ELSE 5)
           /\ AheadAt("lockCoveragePlan", e) = (IF e = 1 THEN 9 ELSE 4)
           /\ AheadAt("coverageCheck", e) = (IF e = 1 THEN 8 ELSE 3)
BY DEF AheadAt

LEMMA NothingAhead ==
    ASSUME NEW e, NEW s \in Answered
    PROVE  AheadAt(s, e) = 0
BY DEF AheadAt, Answered

LEMMA StatementDescends ==
    ASSUME IInv, NEW r \in Requests, Statement(r) \/ Crash(r)
    PROVE  Descends(r) /\ pc'[r] \in Working \cup Answered
<1>1. /\ pc \in [Requests -> {"idle"} \cup Working \cup Answered] /\ RequestOK(r)
      /\ reads \in [Requests -> Reads] /\ pc[r] \in Working
  BY StatementFrame DEF IInv, TypeOK
<1>2. reads[r].entry \in {1, 2}
  BY <1>1 DEF Reads
<1>0. ASSUME NEW x, \/ reads' = [reads EXCEPT ![r].plan = x]
                    \/ reads' = [reads EXCEPT ![r].provider = x]
                    \/ reads' = [reads EXCEPT ![r].latest = x]
                    \/ reads' = [reads EXCEPT ![r].refusal = x]
                    \/ reads' = reads
      PROVE  reads'[r].entry = reads[r].entry
  BY <1>0, <1>1 DEF Reads
<1> DEFINE Closer == Ahead(r)' < Ahead(r) /\ pc'[r] \in Working \cup Answered
<1>3. ASSUME pc'[r] \in Answered PROVE Closer
  <2>1. Ahead(r)' = 0
    BY <1>3, NothingAhead DEF Ahead
  <2>2. Ahead(r) > 0
    BY <1>1, <1>2, AheadTable DEF Ahead, Working
  <2>3. QED
    BY <1>3, <2>1, <2>2
<1>4. ASSUME NEW why, Refuse(r, why), pc[r] # "refused" PROVE Closer
  BY <1>1, <1>2, <1>4, AheadTable DEF Refuse, Ahead, Working
<1>5. ASSUME Candidate(r) PROVE Closer
  <2>1. CASE Visible(req[r].actor, row[req[r].version].plan)
    BY <1>1, <1>5, <2>1, <1>0, <1>2, AheadTable DEF Candidate, Continue, Ahead, Working
  <2>2. CASE ~Visible(req[r].actor, row[req[r].version].plan)
    BY <1>4, <1>5, <2>2 DEF Candidate
  <2>3. QED
    BY <2>1, <2>2
<1>6. ASSUME SelectEditablePlan(r) PROVE Closer
  <2>1. CASE Visible(req[r].actor, reads[r].plan)
    BY <1>1, <1>6, <2>1, <1>0, <1>2, AheadTable DEF SelectEditablePlan, Continue, Ahead, Working
  <2>2. CASE ~Visible(req[r].actor, reads[r].plan)
    BY <1>4, <1>6, <2>2 DEF SelectEditablePlan
  <2>3. QED
    BY <2>1, <2>2
<1>7. ASSUME CheckEditablePlan(r) PROVE Closer
  <2>1. CASE EditablePlanRefusal(r) = "none"
    BY <1>1, <1>7, <2>1, <1>0, <1>2, AheadTable DEF CheckEditablePlan, Proceed, Continue, Ahead, Working
  <2>2. CASE EditablePlanRefusal(r) # "none"
    BY <1>4, <1>7, <2>2 DEF CheckEditablePlan, Proceed
  <2>3. QED
    BY <2>1, <2>2
<1>8. ASSUME LatestNumber(r) PROVE Closer
  <2>1. CASE req[r].count # 0
    BY <1>1, <1>8, <2>1, <1>0, <1>2, AheadTable DEF LatestNumber, Continue, Ahead, Working
  <2>2. CASE req[r].count = 0
    BY <1>4, <1>8, <2>2 DEF LatestNumber
  <2>3. QED
    BY <2>1, <2>2
<1>9. ASSUME NEW refusal, NEW next, Proceed(r, refusal, next),
             \/ pc[r] = "draftChecks" /\ next = "deleteServices"
             \/ pc[r] = "deleteServices" /\ next = "commit"
             \/ pc[r] = "publishChecks" /\ next = "commit"
      PROVE  Closer
  <2>1. CASE refusal = "none"
    BY <1>1, <1>9, <2>1, <1>0, <1>2, AheadTable DEF Proceed, Continue, Ahead, Working
  <2>2. CASE refusal # "none"
    BY <1>4, <1>9, <2>2 DEF Proceed
  <2>3. QED
    BY <2>1, <2>2
<1>10. ASSUME CheckUpdateDraft(r) \/ SaveTerms(r) \/ CheckPublish(r) PROVE Closer
  BY <1>9, <1>10 DEF CheckUpdateDraft, SaveTerms, CheckPublish
<1>11. ASSUME SelectCoverage(r) PROVE Closer
  <2>1. CASE ServiceExists(r) /\ Visible(req[r].actor, row[req[r].version].plan)
    <3>1. /\ reads' = [reads EXCEPT ![r].plan = row[req[r].version].plan]
          /\ pc[r] = "coverage" /\ pc'[r] = "lockService"
      BY <1>1, <1>11, <2>1 DEF SelectCoverage, Continue
    <3>2. reads'[r].entry = reads[r].entry
      BY <1>1, <3>1 DEF Reads
    <3>3. QED
      BY <1>2, <3>1, <3>2, AheadTable DEF Ahead, Working
  <2>2. CASE ~(ServiceExists(r) /\ Visible(req[r].actor, row[req[r].version].plan))
    BY <1>4, <1>11, <2>2 DEF SelectCoverage
  <2>3. QED
    BY <2>1, <2>2
<1>12. ASSUME CheckCoverage(r) PROVE Closer
  <2>1. CASE req[r].actor \in Superusers \/ InCatalog(req[r].actor, reads[r].plan)
    <3>1. /\ reads' = [reads EXCEPT ![r].entry = 2]
          /\ pc[r] = "coverageCheck"
          /\ pc'[r] = IF reads[r].entry = 1 THEN "coverage" ELSE "commit"
      BY <1>1, <1>12, <2>1 DEF CheckCoverage, Continue
    <3>2. reads'[r].entry = 2
      BY <1>1, <3>1 DEF Reads
    <3>3. QED
      BY <1>2, <3>1, <3>2, AheadTable DEF Ahead, Working
  <2>2. CASE ~(req[r].actor \in Superusers \/ InCatalog(req[r].actor, reads[r].plan))
    BY <1>4, <1>12, <2>2 DEF CheckCoverage
  <2>3. QED
    BY <2>1, <2>2
<1>13. ASSUME LockPlan(r) PROVE Closer
  BY <1>1, <1>13, <1>0, <1>2, AheadTable DEF LockPlan, Ahead, Working
<1>14. ASSUME LockVersion(r) PROVE Closer
  BY <1>1, <1>14, <1>0, <1>2, AheadTable DEF LockVersion, Ahead, Working
<1>15. ASSUME LockCoverageVersion(r) PROVE Closer
  BY <1>1, <1>2, <1>15, AheadTable DEF LockCoverageVersion, Ahead, Working
<1>16. ASSUME LockCoveragePlan(r) PROVE Closer
  BY <1>1, <1>2, <1>16, AheadTable DEF LockCoveragePlan, Ahead, Working
<1>17. ASSUME LockService(r) PROVE Closer
  <2>1. CASE ServiceExists(r)
    BY <1>1, <1>2, <1>17, <2>1, AheadTable DEF LockService, Ahead, Working
  <2>2. CASE ~ServiceExists(r)
    BY <1>4, <1>17, <2>2 DEF LockService
  <2>3. QED
    BY <2>1, <2>2
<1>18. CASE \E p \in Positions : LockServiceRow(r, p)
  <2>1. PICK p \in Positions : LockServiceRow(r, p)
    BY <1>18
  <2> DEFINE s == <<req[r].version, p>>
  <2>2. req[r].version \in VersionIds
    BY <1>1, <2>1 DEF LockServiceRow, RequestOK, Flow, Arrived, DraftSteps
  <2>3. s \in Services
    BY <2>2 DEF Services
  <2>4. /\ serviceLock[s] = None /\ serviceLock' = [serviceLock EXCEPT ![s] = r]
        /\ pc[r] = "deleteServices" /\ UNCHANGED <<pc, reads>>
    BY <2>1 DEF LockServiceRow
  <2>5. serviceLock \in [Services -> Requests \cup {None}]
    BY DEF IInv, TypeOK, Services
  <2> HIDE DEF s
  <2>6. Unlocked(r)' = Unlocked(r) \ {s} /\ s \in Unlocked(r)
    BY <2>3, <2>4, <2>5, RequestsAssumption DEF Unlocked
  <2>7. Ahead(r)' = Ahead(r)
    BY <2>4 DEF Ahead
  <2>8. QED
    BY <1>1, <2>4, <2>6, <2>7 DEF Descends
<1>19. ASSUME DeadlockAbort(r) \/ Crash(r) \/ RecordRefusal(r) PROVE Closer
  <2>1. pc'[r] \in Answered
    BY <1>1, <1>19 DEF DeadlockAbort, Crash, RecordRefusal, Answered, RequestOK, Flow
  <2>2. QED
    BY <1>3, <2>1
<1>20. ASSUME \/ \E v \in VersionIds : CommitDraft(r, v)
              \/ CommitUpdate(r) \/ CommitPublish(r) \/ CommitCoverage(r)
       PROVE  Closer
  <2>1. \E v, newRow, actions : Commit(r, v, newRow, actions)
    BY <1>20 DEF CommitDraft, CommitUpdate, CommitPublish, CommitCoverage
  <2>2. pc'[r] \in Answered
    BY <1>1, <2>1 DEF Commit, Answered
  <2>3. QED
    BY <1>3, <2>2
<1>21. QED
  BY <1>5, <1>6, <1>7, <1>8, <1>10, <1>11, <1>12, <1>13, <1>14, <1>15, <1>16, <1>17,
     <1>18, <1>19, <1>20 DEF Statement, Descends

\* Statements of other requests and the platform leave a request where it is.
LEMMA LeftAlone ==
    ASSUME IInv, NEW q \in Requests, UNCHANGED <<pc, reads, serviceLock>> \/ Same(q)
    PROVE  Stays(q)
BY DEF Same, Stays, Ahead, Unlocked

\* No request of any number of them can be kept busy for ever: what is left of
\* it only shrinks.
THEOREM AnswersApproach == Spec => StatementsRunOut
<1>1. IInv /\ [Next]_vars =>
        [\A r \in Requests :
            /\ Statement(r) \/ Crash(r) => Descends(r)
            /\ pc[r] # "idle" => Descends(r) \/ Stays(r)
            /\ pc[r] \in Answered => Stays(r)]_vars
  <2> SUFFICES ASSUME IInv, [Next]_vars, NEW r \in Requests
               PROVE  /\ Statement(r) \/ Crash(r) => Descends(r)
                      /\ pc[r] # "idle" => Descends(r) \/ Stays(r)
                      /\ pc[r] \in Answered => Stays(r)
    OBVIOUS
  <2>1. Statement(r) \/ Crash(r) => Descends(r)
    BY StatementDescends
  <2>2. Arrival(r) => pc[r] = "idle"
    BY ArrivalShape DEF Arrive
  <2>3. ASSUME NEW q \in Requests, q # r, Arrival(q) \/ Statement(q) \/ Crash(q)
        PROVE  Stays(r)
    BY <2>3, OthersSame, LeftAlone
  <2>4. CASE Platform \/ Quiescent \/ UNCHANGED vars
    <3>1. UNCHANGED <<pc, reads, serviceLock>>
      BY <2>4 DEF Platform, GrantOrRevoke, ToggleReseller, ToggleProvider, ChangeScope,
         Quiescent, vars, locks
    <3>2. Stays(r)
      BY <3>1, LeftAlone
    <3>3. QED
      BY <2>1, <3>2
  <2>5. pc[r] # "idle" => Descends(r) \/ Stays(r)
    BY <2>1, <2>2, <2>3, <2>4 DEF Next
  <2>6. pc[r] \in Answered => ~(Arrival(r) \/ Statement(r) \/ Crash(r))
    BY Unanswered
  <2>7. pc[r] \in Answered => Stays(r)
    BY <2>3, <2>4, <2>6 DEF Next
  <2>8. QED
    BY <2>1, <2>5, <2>7
<1>2. QED
  BY <1>1, Invariance, PTL DEF Spec, StatementsRunOut

\* Every nonempty collection of finite sets has a smallest one.
LEMMA SmallestSet ==
    ASSUME NEW W, IsFiniteSet(W), NEW F, F \subseteq SUBSET W, F # {}
    PROVE  \E T \in F : \A U \in F : U \subseteq T => U = T
<1>1. IsWellFoundedOn(StrictSubsetOrdering(W), SUBSET W)
  BY FS_StrictSubsetOrderingWellFounded, FS_FiniteSubsetsOfFinite
<1>2. PICK T \in F : \A U \in F : <<U, T>> \notin StrictSubsetOrdering(W)
  BY <1>1, WFMin
<1>3. \A U \in F : ~(U \subseteq T /\ U # T)
  BY <1>2 DEF StrictSubsetOrdering
<1>4. QED
  BY <1>3

\* Requests that have arrived, those that create a draft, and those that have
\* created one.
Arrivals == {r \in Requests : pc[r] # "idle"}
Creations == {r \in Requests : req[r].op = "create_draft"}
Created == {r \in Creations : pc[r] = "ok"}
StoredVersions == {v \in VersionIds : Stored(v)}

\* Only finitely many requests are about, and there is a key for each draft.
KeysOK ==
    /\ IsFiniteSet(Arrivals)
    /\ Creations \subseteq Arrivals
    /\ Cardinality(Creations) <= Cardinality(VersionIds)
    /\ Cardinality(StoredVersions) <= Cardinality(Created)

LEMMA InitKeys == Init => KeysOK
<1> SUFFICES ASSUME Init PROVE KeysOK
  OBVIOUS
<1>1. Arrivals = {} /\ Creations = {} /\ Created = {} /\ StoredVersions = {}
  BY DEF Init, Arrivals, Creations, Created, StoredVersions, Stored, NoRow, NoRequest
<1>2. Cardinality(VersionIds) \in Nat
  BY KeysAssumption, FS_CardinalityType
<1>3. QED
  BY <1>1, <1>2, FS_EmptySet DEF KeysOK

LEMMA KeysUnchanged ==
    ASSUME KeysOK, Arrivals' = Arrivals, Creations' = Creations,
           StoredVersions' = StoredVersions, Created \subseteq Created'
    PROVE  KeysOK'
<1>1. Created' \subseteq Creations' /\ Created \subseteq Creations
  BY DEF Created
<1>2. IsFiniteSet(Creations) /\ IsFiniteSet(Created')
  BY <1>1, FS_Subset DEF KeysOK
<1>3. /\ Cardinality(Created) <= Cardinality(Created')
      /\ Cardinality(Created) \in Nat /\ Cardinality(Created') \in Nat
  BY <1>1, <1>2, FS_Subset, FS_CardinalityType
<1>4. StoredVersions \subseteq VersionIds
  BY DEF StoredVersions
<1>5. Cardinality(StoredVersions) \in Nat
  BY <1>4, KeysAssumption, FS_Subset, FS_CardinalityType
<1>6. QED
  BY <1>3, <1>5 DEF KeysOK

\* Stored versions have a key each, so a draft that is about to be inserted
\* finds one that is free.
LEMMA KeyLeft ==
    ASSUME IInv, KeysOK, NEW r \in Requests, pc[r] = "commit", req[r].op = "create_draft"
    PROVE  \E v \in VersionIds : ~Stored(v)
<1>1. r \in Creations /\ r \notin Created /\ Created \subseteq Creations
  BY DEF Creations, Created
<1>2. IsFiniteSet(Creations)
  BY FS_Subset DEF KeysOK
<1>3. /\ Cardinality(Created) < Cardinality(Creations)
      /\ Cardinality(Created) \in Nat /\ Cardinality(Creations) \in Nat
  BY <1>1, <1>2, FS_Subset, FS_CardinalityType
<1>4. StoredVersions # VersionIds
  <2>1. Cardinality(StoredVersions) \in Nat \/ StoredVersions # VersionIds
    BY KeysAssumption, FS_CardinalityType
  <2>2. QED
    BY <1>3, <2>1 DEF KeysOK
<1>5. QED
  BY <1>4 DEF StoredVersions

\* Drafts are created only while there are keys left (a bound of the model).
LEMMA ArrivalKeys ==
    ASSUME NEW r \in Requests, Arrival(r)
    PROVE  \E request, plan, first :
              /\ Arrive(r, request, plan, first)
              /\ request.op = "create_draft" => KeysLeft
<1>1. ASSUME NEW u, NEW plan, NEW text, NEW count, CreateDraft(r, u, plan, text, count)
      PROVE  \E request, p, first : Arrive(r, request, p, first) /\ KeysLeft
  BY <1>1 DEF CreateDraft
<1>2. ASSUME NEW u, NEW v, NEW text, NEW count, UpdateDraft(r, u, v, text, count)
      PROVE  \E request, p, first :
                Arrive(r, request, p, first) /\ request.op # "create_draft"
  <2> DEFINE request == [NoRequest EXCEPT !.op = "edit_draft", !.actor = u,
                                   !.version = v, !.text = text, !.count = count]
  <2>1. Arrive(r, request, row[v].plan, "candidate")
    BY <1>2 DEF UpdateDraft
  <2>2. request.op # "create_draft"
    BY DEF NoRequest
  <2> HIDE DEF request
  <2>3. QED
    BY <2>1, <2>2
<1>3. ASSUME NEW u, NEW v, PublishDraft(r, u, v)
      PROVE  \E request, p, first :
                Arrive(r, request, p, first) /\ request.op # "create_draft"
  <2> DEFINE request == [NoRequest EXCEPT !.op = "publish", !.actor = u, !.version = v]
  <2>1. Arrive(r, request, row[v].plan, "candidate")
    BY <1>3 DEF PublishDraft
  <2>2. request.op # "create_draft"
    BY DEF NoRequest
  <2> HIDE DEF request
  <2>3. QED
    BY <2>1, <2>2
<1>4. ASSUME NEW u, NEW v, NEW p, ManageCoverage(r, u, v, p)
      PROVE  \E request, q, first :
                Arrive(r, request, q, first) /\ request.op # "create_draft"
  <2> DEFINE request == [NoRequest EXCEPT !.op = "coverage", !.actor = u, !.version = v,
                                   !.position = p, !.generation = row[v].generation]
  <2>1. Arrive(r, request, row[v].plan, "coverage")
    BY <1>4 DEF ManageCoverage
  <2>2. request.op # "create_draft"
    BY DEF NoRequest
  <2> HIDE DEF request
  <2>3. QED
    BY <2>1, <2>2
<1>5. QED
  BY <1>1, <1>2, <1>3, <1>4 DEF Arrival

LEMMA ArrivalSteps ==
    ASSUME IInv, KeysOK, NEW r \in Requests, Arrival(r)
    PROVE  KeysOK'
<1>1. PICK request, plan, first : /\ Arrive(r, request, plan, first)
                                  /\ request.op = "create_draft" => KeysLeft
  BY ArrivalKeys
<1>2. first # "idle" /\ first \notin Answered
  <2>1. PICK x \in Request, p \in Plans, f \in {"select", "candidate", "coverage"} :
           Arrive(r, x, p, f)
    BY ArrivalShape
  <2>2. pc' = [pc EXCEPT ![r] = first] /\ pc' = [pc EXCEPT ![r] = f]
    BY <1>1, <2>1 DEF Arrive
  <2>3. pc'[r] = first /\ pc'[r] = f
    BY <2>2 DEF IInv, TypeOK
  <2>4. QED
    BY <2>3 DEF Answered
<1>3. /\ pc[r] = "idle"
      /\ pc' = [pc EXCEPT ![r] = first]
      /\ req' = [req EXCEPT ![r] = request]
      /\ row' = row
  BY <1>1 DEF Arrive
<1>4. Arrivals' = Arrivals \cup {r} /\ r \notin Arrivals
  BY <1>2, <1>3 DEF IInv, TypeOK, Arrivals
<1>5. r \notin Creations
  BY <1>4 DEF KeysOK
<1>6. /\ request.op = "create_draft" => Creations' = Creations \cup {r}
      /\ request.op # "create_draft" => Creations' = Creations
  BY <1>3, <1>5 DEF IInv, TypeOK, Creations
<1>7. Created' = Created /\ StoredVersions' = StoredVersions
  <2>1. r \notin Created
    BY <1>3 DEF Created
  <2>2. \A q \in Requests \ {r} : pc'[q] = pc[q] /\ req'[q] = req[q]
    BY <1>3 DEF IInv, TypeOK
  <2>3. pc'[r] # "ok"
    BY <1>2, <1>3 DEF IInv, TypeOK, Answered
  <2>4. QED
    BY <1>3, <2>1, <2>2, <2>3 DEF Created, Creations, StoredVersions, Stored
<1>8. IsFiniteSet(Arrivals') /\ IsFiniteSet(Creations)
  BY <1>4, FS_AddElement, FS_Subset DEF KeysOK
<1>9. Creations' \subseteq Arrivals'
  BY <1>4, <1>6 DEF KeysOK
<1>10. Cardinality(Creations') <= Cardinality(VersionIds)
  <2>1. CASE request.op = "create_draft"
    <3>1. Cardinality(Creations) < Cardinality(VersionIds)
      BY <1>1, <2>1 DEF KeysLeft, Creations
    <3>2. Cardinality(Creations') = Cardinality(Creations) + 1
      BY <1>5, <1>6, <1>8, <2>1, FS_AddElement
    <3>3. Cardinality(Creations) \in Nat /\ Cardinality(VersionIds) \in Nat
      BY <1>8, KeysAssumption, FS_CardinalityType
    <3>4. QED
      BY <3>1, <3>2, <3>3
  <2>2. CASE request.op # "create_draft"
    BY <1>6, <2>2 DEF KeysOK
  <2>3. QED
    BY <2>1, <2>2
<1>11. QED
  BY <1>7, <1>8, <1>9, <1>10 DEF KeysOK

\* A version is stored for each request that has created one.
LEMMA CreationSteps ==
    ASSUME IInv, KeysOK, NEW r \in Requests, NEW v \in VersionIds, CommitDraft(r, v)
    PROVE  KeysOK'
<1>1. /\ pc[r] = "commit" /\ req[r].op = "create_draft" /\ ~Stored(v)
      /\ pc' = [pc EXCEPT ![r] = "ok"] /\ req' = req
  BY DEF CommitDraft, Commit
<1>2. row' = [row EXCEPT ![v] =
         [status |-> "draft", plan |-> reads[r].plan,
          number |-> reads[r].latest + 1, author |-> req[r].actor,
          text |-> req[r].text, count |-> req[r].count,
          generation |-> 0, notes |-> NoNotes, published_by |-> None]]
  BY DEF CommitDraft, Commit
<1>3. Arrivals' = Arrivals /\ Creations' = Creations
  BY <1>1 DEF IInv, TypeOK, Arrivals, Creations
<1>4. Created' = Created \cup {r} /\ r \notin Created /\ Created \subseteq Creations
  BY <1>1 DEF IInv, TypeOK, Created, Creations
<1>5. StoredVersions' = StoredVersions \cup {v} /\ StoredVersions \subseteq VersionIds
                     /\ v \notin StoredVersions
  BY <1>1, <1>2 DEF IInv, TypeOK, StoredVersions, Stored
<1>6. IsFiniteSet(Created) /\ IsFiniteSet(StoredVersions)
  BY <1>4, <1>5, KeysAssumption, FS_Subset DEF KeysOK
<1>7. /\ Cardinality(Created') = Cardinality(Created) + 1
      /\ Cardinality(StoredVersions') = Cardinality(StoredVersions) + 1
      /\ Cardinality(Created) \in Nat /\ Cardinality(StoredVersions) \in Nat
  BY <1>4, <1>5, <1>6, FS_AddElement, FS_CardinalityType
<1>8. QED
  BY <1>3, <1>7 DEF KeysOK

\* Nothing else stores a version, and no outcome is taken back.
LEMMA StepKeys == IInv /\ KeysOK /\ [Next]_vars => KeysOK'
<1> SUFFICES ASSUME IInv, KeysOK, [Next]_vars
             PROVE  KeysOK'
  OBVIOUS
<1>1. CASE \E r \in Requests : Arrival(r)
  BY <1>1, ArrivalSteps
<1>2. CASE \E r \in Requests, v \in VersionIds : CommitDraft(r, v)
  BY <1>2, CreationSteps
<1>3. CASE ~(\E r \in Requests, v \in VersionIds : CommitDraft(r, v))
  <2>1. ASSUME NEW v \in VersionIds PROVE Stored(v)' <=> Stored(v)
    <3>1. CASE Stored(v)
      BY <3>1, RowsKept
    <3>2. CASE ~Stored(v)
      <4>1. ASSUME NEW r \in Requests, CommitUpdate(r) \/ CommitPublish(r) \/ CommitCoverage(r)
            PROVE  row'[v] = row[v]
        <5>1. req[r].version \in VersionIds /\ Stored(req[r].version)
          BY <4>1 DEF CommitUpdate, CommitPublish, CommitCoverage, IInv, RequestOK, Arrived
        <5>2. QED
          BY <3>2, <4>1, <5>1 DEF CommitUpdate, CommitPublish, CommitCoverage, Commit,
             IInv, TypeOK
      <4>2. QED
        BY <1>3, <4>1, WhoWrites DEF Stored
    <3>3. QED
      BY <3>1, <3>2
  <2>2. StoredVersions' = StoredVersions
    BY <2>1 DEF StoredVersions
  <2>3. ASSUME UNCHANGED <<pc, req>> PROVE KeysOK'
    BY <2>2, <2>3, KeysUnchanged DEF Arrivals, Creations, Created
  <2>4. ASSUME NEW r \in Requests, Statement(r) \/ Crash(r) PROVE KeysOK'
    <3>1. req' = req /\ pc[r] \in Working
      BY <2>4, StatementFrame
    <3>2. \A q \in Requests : pc'[q] # pc[q] => q = r
      BY <2>4, OthersSame DEF Same
    <3>3. pc[r] # "idle" /\ pc[r] # "ok" /\ pc'[r] # "idle"
      BY <2>4, <3>1, StatementDescends DEF Working, Answered
    <3>4. Arrivals' = Arrivals /\ Creations' = Creations /\ Created \subseteq Created'
      BY <3>1, <3>2, <3>3 DEF Arrivals, Creations, Created
    <3>5. QED
      BY <2>2, <3>4, KeysUnchanged
  <2>5. CASE Platform \/ Quiescent \/ UNCHANGED vars
    BY <2>3, <2>5 DEF Platform, GrantOrRevoke, ToggleReseller, ToggleProvider, ChangeScope,
       Quiescent, vars
  <2>6. QED
    BY <1>1, <2>4, <2>5 DEF Next
<1>4. QED
  BY <1>1, <1>2, <1>3

THEOREM KeysSuffice == Spec => []KeysOK
BY InitKeys, StepKeys, InitIInv, Invariance, PTL DEF Spec

\* A request waits for others only, and each of them is still working.
LEMMA BlockedTyped ==
    ASSUME HeldInv, NEW r \in Requests, pc[r] \in Working
    PROVE  /\ BlockedBy(r) \subseteq Requests \cup {None}
           /\ pc[r] \in {"lockPlan", "lockVersion"} => r \notin BlockedBy(r)
<1>1. /\ Held(r) /\ RequestOK(r) /\ TypeOK
  BY DEF HeldInv, IInv
<1>2. /\ pc[r] \in KnowsPlan => reads[r].plan \in Plans
      /\ req[r].op # "create_draft" => req[r].version \in VersionIds
      /\ req[r].position \in Positions
  BY <1>1 DEF RequestOK, PlanKnown, Arrived, TypeOK, Request, Working
<1>3. CASE pc[r] \in {"lockPlan", "lockCoveragePlan"}
  <2>1. reads[r].plan \in Plans /\ planLock[reads[r].plan] \in Requests \cup {None}
    BY <1>1, <1>2, <1>3 DEF KnowsPlan, CoverageSteps, TypeOK
  <2>2. BlockedBy(r) = {planLock[reads[r].plan]}
    BY <1>3 DEF BlockedBy
  <2>3. pc[r] = "lockPlan" => ~HasPlan(r)
    BY DEF HasPlan, UnderPlanLock, DraftSteps, Inside, CoverageSteps
  <2>4. QED
    BY <1>1, <1>3, <2>1, <2>2, <2>3 DEF Held, Owned
<1>4. CASE pc[r] \in {"lockVersion", "lockCoverageVersion"}
  <2>1. req[r].version \in VersionIds
    BY <1>1, <1>2, <1>4 DEF RequestOK, Flow, CoverageSteps
  <2>2. versionLock[req[r].version] \in Requests \cup {None}
    BY <1>1, <2>1 DEF TypeOK
  <2>3. BlockedBy(r) = {versionLock[req[r].version]}
    BY <1>4 DEF BlockedBy
  <2>4. pc[r] = "lockVersion" => ~HasVersion(r)
    BY DEF HasVersion, UnderVersionLock, DraftSteps, Inside, CoverageSteps
  <2>5. QED
    BY <1>1, <1>4, <2>1, <2>2, <2>3, <2>4 DEF Held, Owned
<1>5. CASE pc[r] = "lockService"
  <2> DEFINE s == <<req[r].version, req[r].position>>
  <2>1. s \in VersionIds \X Positions
    BY <1>1, <1>2, <1>5 DEF RequestOK, Flow, CoverageSteps
  <2>2. BlockedBy(r) = {serviceLock[s]}
    BY <1>5 DEF BlockedBy
  <2>3. serviceLock[s] \in Requests \cup {None}
    BY <1>1, <2>1 DEF TypeOK
  <2>4. QED
    BY <1>5, <2>2, <2>3
<1>6. CASE pc[r] = "deleteServices"
  <2>1. req[r].version \in VersionIds
    BY <1>1, <1>2, <1>6 DEF RequestOK, Flow, DraftSteps
  <2>2. ASSUME NEW p \in Positions PROVE serviceLock[<<req[r].version, p>>] \in Requests \cup {None}
    <3> DEFINE s == <<req[r].version, p>>
    <3>1. s \in VersionIds \X Positions
      BY <2>1
    <3>2. QED
      BY <1>1, <3>1 DEF TypeOK
  <2>3. QED
    BY <1>6, <2>2 DEF BlockedBy
<1>7. CASE pc[r] \notin {"lockPlan", "lockCoveragePlan", "lockVersion", "lockCoverageVersion",
                        "lockService", "deleteServices"}
  BY <1>7 DEF BlockedBy
<1>8. QED
  BY <1>3, <1>4, <1>5, <1>6, <1>7

LEMMA HolderWorks ==
    ASSUME HeldInv, NEW r \in Requests, NEW q \in Requests, q # r, q \in BlockedBy(r)
    PROVE  pc[q] \in Working
BY WaitingFor DEF HasPlan, HasVersion, HasService, Inside, UnderPlanLock, UnderVersionLock,
   DraftSteps, CoverageSteps, Working

\* Whoever is not ready waits for a working request; were nobody ready, the
\* smallest set of requests waiting for each other would be a cycle, and its
\* members are ready.
THEOREM SomebodyAlwaysReady == Spec => []SomebodyIsReady
<1>1. HeldInv /\ KeysOK => SomebodyIsReady
  <2> SUFFICES ASSUME HeldInv, KeysOK, NEW first \in Requests, pc[first] \in Working,
                      \A r \in Requests : ~Ready(r)
               PROVE  FALSE
    BY DEF SomebodyIsReady
  <2> DEFINE W == {r \in Requests : pc[r] \in Working}
             F == {T \in SUBSET W : T # {} /\ Waits(T)}
  <2>1. ASSUME NEW r \in W PROVE \E q \in W : q # r /\ q \in BlockedBy(r)
    <3>1. ~Free(r)
      BY DEF Ready
    <3>2. pc[r] = "commit" /\ req[r].op = "create_draft" => \E v \in VersionIds : ~Stored(v)
      BY KeyLeft DEF HeldInv
    <3>3. PICK q \in BlockedBy(r) : q # None /\ (q # r \/ pc[r] \in {"lockPlan", "lockVersion"})
      BY <3>1, <3>2 DEF Free
    <3>4. q \in Requests /\ q # r
      BY <3>3, BlockedTyped
    <3>5. QED
      BY <3>3, <3>4, HolderWorks
  <2>2. IsFiniteSet(W)
    <3>1. W \subseteq Arrivals
      BY DEF Arrivals, Working
    <3>2. QED
      BY <3>1, FS_Subset DEF KeysOK
  <2>3. W \in F
    BY <2>1 DEF Waits
  <2> HIDE DEF W
  <2>4. PICK T \in F : \A U \in F : U \subseteq T => U = T
    <3>1. F \subseteq SUBSET W /\ F # {}
      BY <2>3
    <3> HIDE DEF F
    <3>2. QED
      BY <2>2, <3>1, SmallestSet
  <2>5. T \subseteq W /\ T # {} /\ Waits(T)
    OBVIOUS
  <2>6. Cycle(T)
    <3>1. ASSUME NEW U \in SUBSET T, U \notin {{}, T} PROVE ~Waits(U)
      BY <2>4, <2>5, <3>1
    <3>2. QED
      BY <2>5, <3>1 DEF Cycle
  <2>7. T \subseteq Requests /\ \A r \in T : pc[r] \in Working
    BY <2>5 DEF W
  <2>8. QED
    BY <2>5, <2>6, <2>7 DEF Ready
<1>2. QED
  BY <1>1, LocksOwned, KeysSuffice, PTL

=============================================================================
