------------------------- MODULE EnrollmentsProofs -------------------------
(***************************************************************************)
(* Safety of Enrollments for every set of requests, members, plans,        *)
(* versions and Polizas, and its refinement of PolicyLifecycle.  The       *)
(* inductive invariant IInv says what the locks of a request protect, and  *)
(* which facts it has witnessed at each statement.                         *)
(*                                                                         *)
(* At the end: add_calendar_months for every date and number of months,    *)
(* and chains of renewals of any length (RenewalChain).                    *)
(***************************************************************************)
EXTENDS Enrollments, RenewalChain, FiniteSetTheorems, WellFoundedInduction, TLAPS

\* Statements of create_enrollment: those that find the version, the insertion,
\* and the checks of its keys at commit.
Committing == {"businessKey", "memberKey", "versionKey"}
Storing == {"insert"} \cup Committing
Creation == {"member", "plan", "business", "contract", "version", "exception"} \cup Storing

\* What a request asks for, and of which row.
KindOK(r) ==
    LET q == req[r] IN
        /\ pc[r] # "idle" => q.op \in Operations \cup CatalogOps
        /\ pc[r] # "idle" /\ q.op \in Operations => q.actor \in Users /\ q.member \in Members
        /\ q.op \in {"create", "renew"} => q.plan \in Plans /\ q.start \in Dates
        /\ q.op = "create" => q.policy = None
        /\ q.op \in {"renew", "transition", "add_beneficiary"} =>
              q.policy \in Policies /\ Issued(q.policy)
        /\ q.op = "renew" => /\ policy[q.policy].member = q.member
                             /\ policy[q.policy].end = q.start
                             /\ PlanOf(q.policy) = q.plan
                             /\ ~q.override
        /\ q.op \in {"renew"} \cup CatalogOps =>
              q.version \in Versions /\ VersionTerms[q.version].plan = q.plan
        /\ q.op = "transition" => q.target \in Statuses

\* Which requests get to a statement.
PlaceOK(r) ==
    /\ pc[r] \in {"lockPolicy", "lockMember"} => req[r].op \in {"renew", "transition"}
    /\ pc[r] \in {"lockVersion", "lockPlan"} => req[r].op \in {"renew"} \cup CatalogOps
    /\ pc[r] = "renewChecks" => req[r].op = "renew"
    /\ pc[r] = "catalog" => req[r].op \in CatalogOps
    /\ pc[r] \in {"transitionChecks", "update"} => req[r].op = "transition"
    /\ pc[r] \in {"beneficiary", "addBeneficiary"} => req[r].op = "add_beneficiary"
    /\ pc[r] \in Creation => req[r].op \in {"create", "renew"}

\* What its locks protect: the status it leaves, the renewal there is not yet, and
\* the flag and the versions of the plan.
HoldsOK(r) ==
    LET q == req[r] IN
        /\ q.op = "transition" /\ pc[r] \in {"lockMember", "transitionChecks", "update"} =>
              policyLock[q.policy] = r /\ reads[r].from = policy[q.policy].status
        /\ pc[r] = "update" => q.target \in Allowed(reads[r].from)
        /\ q.op = "renew" /\ pc[r] \in {"lockMember", "lockVersion", "lockPlan", "renewChecks"}
                                           \cup Creation => policyLock[q.policy] = r
        /\ q.op = "renew" /\ pc[r] \in {"renewChecks"} \cup Creation => planLock[q.plan] = r
        /\ pc[r] = "renewChecks" /\ reads[r].flag => q.plan \in autoRenew
        /\ q.op = "renew" /\ pc[r] \in Creation => q.plan \in autoRenew
        /\ pc[r] \in Storing => /\ reads[r].version \in Versions
                                /\ VersionTerms[reads[r].version].plan = q.plan
        /\ pc[r] \in Storing /\ q.op = "renew" =>
              reads[r].version = Latest(Effective(q.plan, q.start))
        /\ pc[r] \in Committing => Before(q.start, EndDate(r))
        /\ pc[r] \in Committing /\ q.op = "renew" => ~Renewed(q.policy)

\* What is true now of the request's actor, plan and business.
Now(r) == Circumstances(req[r], grants, live, sameReseller, open, contracted)

\* What it has witnessed.
SeenOK(r) ==
    /\ pc[r] \in Working => Now(r) \subseteq witnessed[r]
    /\ pc[r] \in Working \cup {"ok"} /\ req[r].op \in Operations => "actor" \in witnessed[r]
    /\ pc[r] \in {"business", "contract", "version"} => "plan" \in witnessed[r]
    /\ pc[r] \in {"contract", "version"} => "business" \in witnessed[r]
    /\ pc[r] = "version" => "contract" \in witnessed[r]
    /\ reads[r].eligible => /\ {"plan", "business", "contract"} \subseteq witnessed[r]
                            /\ pc[r] # "idle"

\* BackstopsStaySilent of one request.
ErrorOK(r) ==
    pc[r] = "error" =>
        /\ req[r].op \in {"create", "renew"}
        /\ "moved" \in witnessed[r] \/ ~Representable(CalculatedEnd(r))

RequestOK(r) == KindOK(r) /\ PlaceOK(r) /\ HoldsOK(r) /\ SeenOK(r) /\ ErrorOK(r)

IInv == TypeOK /\ \A r \in Requests : RequestOK(r)

-----------------------------------------------------------------------------
LEMMA InitIInv == Init => IInv
<1> SUFFICES ASSUME Init PROVE IInv
  OBVIOUS
<1>1. NoRequest \in Request /\ NoReads \in Reads
  BY DEF NoRequest, Request, NoReads, Reads
<1>2. /\ policy \in [Policies -> Row \cup {NoPolicy}]
      /\ \A p \in Policies : Issued(p) => Before(policy[p].start, policy[p].end)
  BY StartsAssumption DEF Init, Issued, NoPolicy
<1>3. TypeOK
  BY <1>1, <1>2 DEF Init, TypeOK
<1>4. ASSUME NEW r \in Requests PROVE RequestOK(r)
  <2>1. pc[r] = "idle" /\ req[r].op = "none" /\ ~reads[r].eligible
    BY <1>4 DEF Init, NoRequest, NoReads
  <2>2. QED
    BY <2>1 DEF RequestOK, KindOK, PlaceOK, HoldsOK, SeenOK, ErrorOK, Creation, Storing, Committing,
       Working, Operations, CatalogOps
<1>5. QED
  BY <1>3, <1>4 DEF IInv

\* A row is stored when it has a status.
LEMMA IssuedRows ==
    ASSUME TypeOK, NEW p \in Policies
    PROVE  Issued(p) <=> policy[p] \in Row
BY DEF TypeOK, Issued, Row, NoPolicy, Statuses

\* The end of a term that starts on a date is a date.
LEMMA SumIsDate ==
    ASSUME NEW date \in Dates, NEW n \in Int
    PROVE  AddCalendarMonths(date, n) \in Dates
<1> DEFINE index == date.month - 1 + n
           year == date.year + index \div 12
           month == (index % 12) + 1
<1>1. index \in Int /\ date.year \in Int
  BY DEF Dates
<1>2. year \in Int /\ month \in 1 .. 12
  BY <1>1
<1>3. date.day \in 1 .. 31 /\ MonthLength(year, month) \in 1 .. 31
  BY DEF Dates, MonthLength
<1> HIDE DEF year, month
<1>4. [year |-> year, month |-> month,
       day |-> IF date.day <= MonthLength(year, month) THEN date.day
                                                       ELSE MonthLength(year, month)] \in Dates
  BY <1>2, <1>3 DEF Dates
<1>5. QED
  BY <1>4 DEF AddCalendarMonths, year, month

\* The first of the versions by number is one of them.
LEMMA LatestIsOne ==
    ASSUME NEW versions \in SUBSET Versions, Latest(versions) # None
    PROVE  Latest(versions) \in versions
<1>1. versions # {}
  BY DEF Latest
<1>2. \E v \in versions : \A w \in versions : VersionTerms[w].number <= VersionTerms[v].number
  BY <1>1, NumbersAssumption
<1>3. QED
  BY <1>1, <1>2 DEF Latest

\* What a request knows does not depend on the steps of others that respect its
\* locks, the terms of what is issued and the scope.
LEMMA Kept ==
    ASSUME TypeOK, NEW q \in Requests, RequestOK(q),
           UNCHANGED <<grants, live, sameReseller, open, contracted, published, autoRenew>>,
           pc'[q] = pc[q], req'[q] = req[q], reads'[q] = reads[q], witnessed'[q] = witnessed[q],
           \A p \in Policies : Issued(p) => /\ Issued(p)'
                                            /\ policy'[p].member = policy[p].member
                                            /\ policy'[p].end = policy[p].end
                                            /\ policy'[p].version = policy[p].version,
           \A p \in Policies : policyLock[p] = q => policyLock'[p] = q,
           \A p \in Policies : policyLock[p] = q /\ Issued(p) =>
                                  policy'[p].status = policy[p].status,
           \A p \in Policies : policyLock[p] = q /\ ~Renewed(p) => ~Renewed(p)',
           \A plan \in Plans : planLock[plan] = q => planLock'[plan] = q
    PROVE  RequestOK(q)'
<1>1. KindOK(q)'
  BY DEF RequestOK, KindOK, PlanOf
<1>2. PlaceOK(q)'
  BY DEF RequestOK, PlaceOK
<1>3. HoldsOK(q)'
  <2>1. KindOK(q) /\ HoldsOK(q) /\ PlaceOK(q)
    BY DEF RequestOK
  <2>2. \A plan, date : Latest(Effective(plan, date))' = Latest(Effective(plan, date))
    BY DEF Latest, Effective
  <2>3. req[q].op = "transition" => req[q].policy \in Policies /\ Issued(req[q].policy)
    BY <2>1 DEF KindOK
  <2>4. req[q].op = "renew" => req[q].plan \in Plans /\ req[q].policy \in Policies
    BY <2>1 DEF KindOK
  <2>5. EndDate(q)' = EndDate(q)
    BY DEF EndDate, CalculatedEnd
  <2>6. QED
    BY <2>1, <2>2, <2>3, <2>4, <2>5 DEF HoldsOK, Storing, Committing, Creation
<1>4. SeenOK(q)'
  BY DEF RequestOK, SeenOK, Now, Circumstances, InPortfolio
<1>5. ErrorOK(q)'
  BY DEF RequestOK, ErrorOK, CalculatedEnd
<1>6. QED
  BY <1>1, <1>2, <1>3, <1>4, <1>5 DEF RequestOK

\* A statement that neither writes nor locks.
LEMMA ContinueSafe ==
    ASSUME IInv, NEW r \in Requests, NEW read \in Reads, NEW next \in Working,
           Continue(r, read, next), pc[r] \in Working,
           (PlaceOK(r) /\ HoldsOK(r) /\ SeenOK(r))'
    PROVE  IInv'
<1>1. /\ TypeOK /\ UNCHANGED <<policy, beneficiaries, policyLock, memberLock, versionLock, planLock, req,
                               witnessed>>
      /\ UNCHANGED <<grants, live, sameReseller, open, contracted, published, autoRenew>>
      /\ pc' = [pc EXCEPT ![r] = next] /\ reads' = [reads EXCEPT ![r] = read]
  BY DEF Continue, IInv, locks, scope
<1>2. TypeOK'
  BY <1>1 DEF TypeOK, Issued
<1>3. ASSUME NEW q \in Requests, q # r PROVE RequestOK(q)'
  BY <1>1, <1>3, Kept DEF IInv, TypeOK, Issued, Renewed
<1>4. KindOK(r)' /\ ErrorOK(r)'
  <2>1. RequestOK(r) /\ pc[r] # "idle" /\ pc'[r] = next /\ next # "error"
    BY <1>1 DEF IInv, TypeOK, Working
  <2>2. QED
    BY <1>1, <2>1 DEF RequestOK, KindOK, ErrorOK, Issued, PlanOf
<1>5. QED
  BY <1>2, <1>3, <1>4 DEF IInv, RequestOK

\* A rollback gives up what its own request holds.
LEMMA RefuseSafe ==
    ASSUME IInv, NEW r \in Requests, NEW why \in Answered \ {"ok"}, Refuse(r, why),
           pc[r] \in Working,
           why = "error" =>
               /\ req[r].op \in {"create", "renew"}
               /\ "moved" \in witnessed[r] \/ ~Representable(CalculatedEnd(r))
    PROVE  IInv'
<1>1. /\ TypeOK /\ UNCHANGED <<policy, beneficiaries, req>>
      /\ UNCHANGED <<grants, live, sameReseller, open, contracted, published, autoRenew>>
      /\ pc' = [pc EXCEPT ![r] = why] /\ Release(r)
      /\ reads' = [reads EXCEPT ![r] = IF why = "error" THEN reads[r] ELSE NoReads]
      /\ witnessed' = [witnessed EXCEPT ![r] = IF why = "error" THEN witnessed[r] ELSE {}]
  BY DEF Refuse, IInv, scope
<1>2. /\ policyLock' \in [Policies -> Requests \cup {None}]
      /\ memberLock' \in [Members -> Requests \cup {None}]
      /\ versionLock' \in [Versions -> Requests \cup {None}]
      /\ planLock' \in [Plans -> Requests \cup {None}]
      /\ \A q \in Requests \ {r} :
            /\ \A p \in Policies : policyLock[p] = q => policyLock'[p] = q
            /\ \A plan \in Plans : planLock[plan] = q => planLock'[plan] = q
  BY <1>1 DEF Release, TypeOK
<1>3. NoReads \in Reads /\ ~NoReads.eligible
  BY DEF NoReads, Reads
<1>4. TypeOK'
  <2>1. reads' \in [Requests -> Reads] /\ witnessed' \in [Requests -> SUBSET Facts]
    BY <1>1, <1>3 DEF TypeOK
  <2>2. pc' \in [Requests -> {"idle"} \cup Working \cup Answered]
    BY <1>1 DEF TypeOK
  <2>3. QED
    BY <1>1, <1>2, <2>1, <2>2 DEF TypeOK, Issued
<1>5. ASSUME NEW q \in Requests, q # r PROVE RequestOK(q)'
  BY <1>1, <1>2, <1>5, Kept DEF IInv, TypeOK, Issued, Renewed
<1>6. RequestOK(r)'
  <2>1. RequestOK(r) /\ pc[r] # "idle" /\ pc'[r] = why
    BY <1>1 DEF IInv, TypeOK, Working
  <2>2. KindOK(r)'
    BY <1>1, <2>1 DEF RequestOK, KindOK, Issued, PlanOf
  <2>3. PlaceOK(r)' /\ HoldsOK(r)'
    BY <2>1 DEF PlaceOK, HoldsOK, Creation, Storing, Committing, Answered
  <2>4. SeenOK(r)'
    BY <1>1, <1>3, <2>1 DEF RequestOK, SeenOK, TypeOK, Answered, Working
  <2>5. ErrorOK(r)'
    BY <1>1, <2>1 DEF ErrorOK, CalculatedEnd, TypeOK
  <2>6. QED
    BY <2>2, <2>3, <2>4, <2>5 DEF RequestOK
<1>7. QED
  BY <1>4, <1>5, <1>6 DEF IInv

-----------------------------------------------------------------------------
(* The locks.                                                              *)

\* A lock that is taken, or a key that is checked, is no other request's.
LEMMA NobodyElse ==
    ASSUME NEW r, BlockedBy(r) = {}
    PROVE  /\ pc[r] \in {"lockPolicy", "addBeneficiary"} => policyLock[req[r].policy] \in {r, None}
           /\ pc[r] \in {"lockMember", "memberKey"} => memberLock[req[r].member] \in {r, None}
           /\ pc[r] = "lockVersion" => versionLock[req[r].version] \in {r, None}
           /\ pc[r] = "versionKey" => versionLock[reads[r].version] \in {r, None}
           /\ pc[r] = "lockPlan" => planLock[req[r].plan] \in {r, None}
BY DEF BlockedBy

LEMMA LockPolicyStep == ASSUME IInv, NEW r \in Requests, LockPolicy(r) PROVE IInv'
<1> PICK p : p = req[r].policy
  OBVIOUS
<1>1. /\ TypeOK /\ RequestOK(r) /\ pc[r] = "lockPolicy"
      /\ req[r].op \in {"renew", "transition"} /\ p \in Policies /\ Issued(p)
  BY DEF LockPolicy, IInv, RequestOK, KindOK, PlaceOK
<1>2. /\ UNCHANGED <<policy, beneficiaries, memberLock, versionLock, planLock, req, witnessed>>
      /\ UNCHANGED <<grants, live, sameReseller, open, contracted, published, autoRenew>>
      /\ policyLock[p] \in {r, None} /\ policyLock' = [policyLock EXCEPT ![p] = r]
      /\ reads' = [reads EXCEPT ![r].from = policy[p].status]
      /\ pc' = [pc EXCEPT ![r] = "lockMember"]
  BY NobodyElse DEF LockPolicy, AfterLock, scope
<1>3. policy[p].status \in Statuses
  BY <1>1, IssuedRows DEF Row
<1>4. /\ pc'[r] = "lockMember" /\ policyLock'[p] = r
      /\ reads'[r] \in Reads /\ reads'[r].from = policy[p].status
      /\ reads'[r].eligible = reads[r].eligible
  BY <1>1, <1>2, <1>3 DEF TypeOK, Reads
<1>5. TypeOK'
  <2>1. reads' = [reads EXCEPT ![r] = reads'[r]]
    BY <1>1, <1>2 DEF TypeOK
  <2>2. reads' \in [Requests -> Reads]
    BY <1>1, <1>4, <2>1 DEF TypeOK
  <2>3. QED
    BY <1>1, <1>2, <2>2 DEF TypeOK, Issued, Working
<1>6. ASSUME NEW q \in Requests, q # r PROVE RequestOK(q)'
  BY <1>1, <1>2, <1>6, RequestsAssumption, Kept DEF IInv, TypeOK, Issued, Renewed
<1>7. RequestOK(r)'
  <2>1. KindOK(r)' /\ PlaceOK(r)'
    BY <1>1, <1>2, <1>4 DEF RequestOK, KindOK, PlaceOK, Issued, PlanOf, Creation, Storing, Committing
  <2>2. HoldsOK(r)'
    BY <1>1, <1>2, <1>4 DEF HoldsOK, Creation, Storing, Committing
  <2>3. SeenOK(r)' /\ ErrorOK(r)'
    BY <1>1, <1>2, <1>4 DEF RequestOK, SeenOK, ErrorOK, Now, Circumstances, InPortfolio, Working
  <2>4. QED
    BY <2>1, <2>2, <2>3 DEF RequestOK
<1>8. QED
  BY <1>5, <1>6, <1>7 DEF IInv

LEMMA LockMemberStep == ASSUME IInv, NEW r \in Requests, LockMember(r) PROVE IInv'
<1> PICK m : m = req[r].member
  OBVIOUS
<1> PICK next : next = IF req[r].op = "renew" THEN "lockVersion" ELSE "transitionChecks"
  OBVIOUS
<1>1. /\ TypeOK /\ RequestOK(r) /\ pc[r] = "lockMember"
      /\ req[r].op \in {"renew", "transition"} /\ m \in Members
  BY DEF LockMember, IInv, RequestOK, KindOK, PlaceOK, Operations
<1>2. /\ UNCHANGED <<policy, beneficiaries, policyLock, versionLock, planLock, req, reads,
                     witnessed>>
      /\ UNCHANGED <<grants, live, sameReseller, open, contracted, published, autoRenew>>
      /\ memberLock' = [memberLock EXCEPT ![m] = r]
      /\ pc' = [pc EXCEPT ![r] = next]
  BY DEF LockMember, AfterLock, scope
<1>3. TypeOK' /\ pc'[r] = next
  BY <1>1, <1>2 DEF TypeOK, Issued, Working
<1>4. ASSUME NEW q \in Requests, q # r PROVE RequestOK(q)'
  BY <1>1, <1>2, <1>4, Kept DEF IInv, TypeOK, Issued, Renewed
<1>5. RequestOK(r)'
  <2>1. KindOK(r)' /\ PlaceOK(r)'
    BY <1>1, <1>2, <1>3 DEF RequestOK, KindOK, PlaceOK, Issued, PlanOf, Creation, Storing, Committing
  <2>2. HoldsOK(r)'
    BY <1>1, <1>2, <1>3 DEF RequestOK, HoldsOK, Creation, Storing, Committing
  <2>3. SeenOK(r)' /\ ErrorOK(r)'
    BY <1>1, <1>2, <1>3 DEF RequestOK, SeenOK, ErrorOK, Now, Circumstances, InPortfolio, Working
  <2>4. QED
    BY <2>1, <2>2, <2>3 DEF RequestOK
<1>6. QED
  BY <1>3, <1>4, <1>5 DEF IInv

LEMMA LockVersionStep == ASSUME IInv, NEW r \in Requests, LockVersion(r) PROVE IInv'
<1> PICK v : v = req[r].version
  OBVIOUS
<1> PICK next : next = IF req[r].op = "edit_draft" THEN "catalog" ELSE "lockPlan"
  OBVIOUS
<1>1. /\ TypeOK /\ RequestOK(r) /\ pc[r] = "lockVersion"
      /\ req[r].op \in {"renew"} \cup CatalogOps /\ v \in Versions
  BY DEF LockVersion, IInv, RequestOK, KindOK, PlaceOK
<1>2. /\ UNCHANGED <<policy, beneficiaries, policyLock, memberLock, planLock, req, reads,
                     witnessed>>
      /\ UNCHANGED <<grants, live, sameReseller, open, contracted, published, autoRenew>>
      /\ versionLock' = [versionLock EXCEPT ![v] = r]
      /\ pc' = [pc EXCEPT ![r] = next]
  BY DEF LockVersion, AfterLock, scope
<1>3. TypeOK' /\ pc'[r] = next
  BY <1>1, <1>2 DEF TypeOK, Issued, Working
<1>4. ASSUME NEW q \in Requests, q # r PROVE RequestOK(q)'
  BY <1>1, <1>2, <1>4, Kept DEF IInv, TypeOK, Issued, Renewed
<1>5. RequestOK(r)'
  <2>1. KindOK(r)' /\ PlaceOK(r)'
    BY <1>1, <1>2, <1>3
    DEF RequestOK, KindOK, PlaceOK, Issued, PlanOf, Creation, Storing, Committing, CatalogOps
  <2>2. HoldsOK(r)'
    BY <1>1, <1>2, <1>3 DEF RequestOK, HoldsOK, Creation, Storing, Committing
  <2>3. SeenOK(r)' /\ ErrorOK(r)'
    BY <1>1, <1>2, <1>3 DEF RequestOK, SeenOK, ErrorOK, Now, Circumstances, InPortfolio, Working
  <2>4. QED
    BY <2>1, <2>2, <2>3 DEF RequestOK
<1>6. QED
  BY <1>3, <1>4, <1>5 DEF IInv

LEMMA LockPlanStep == ASSUME IInv, NEW r \in Requests, LockPlan(r) PROVE IInv'
<1> PICK plan : plan = req[r].plan
  OBVIOUS
<1> PICK next : next = CASE req[r].op = "renew" -> "renewChecks"
                         [] req[r].op = "edit_draft" -> "lockVersion"
                         [] OTHER -> "catalog"
  OBVIOUS
<1> DEFINE flag == plan \in autoRenew
<1>1. /\ TypeOK /\ RequestOK(r) /\ pc[r] = "lockPlan"
      /\ req[r].op \in {"renew"} \cup CatalogOps /\ plan \in Plans
  <2>1. TypeOK /\ RequestOK(r) /\ pc[r] = "lockPlan"
    BY DEF LockPlan, IInv
  <2>2. req[r].op \in {"renew"} \cup CatalogOps /\ req[r].version \in Versions
        /\ VersionTerms[req[r].version].plan = plan
    BY <2>1 DEF RequestOK, KindOK, PlaceOK
  <2>3. QED
    BY <2>1, <2>2, TermsAssumption
<1>2. /\ UNCHANGED <<policy, beneficiaries, policyLock, memberLock, versionLock, req, witnessed>>
      /\ UNCHANGED <<grants, live, sameReseller, open, contracted, published, autoRenew>>
      /\ planLock[plan] \in {r, None} /\ planLock' = [planLock EXCEPT ![plan] = r]
      /\ pc' = [pc EXCEPT ![r] = next]
  BY NobodyElse DEF LockPlan, AfterLock, scope
<1>3. PICK read : read = [reads[r] EXCEPT !.flag = flag]
  OBVIOUS
<1>4. read \in Reads /\ (read.flag <=> flag) /\ read.eligible = reads[r].eligible
  <2>1. reads[r] \in Reads /\ flag \in BOOLEAN
    BY <1>1 DEF TypeOK
  <2> HIDE DEF flag
  <2>2. read.flag = flag
    BY <1>3, <2>1 DEF Reads
  <2>3. QED
    BY <1>3, <2>1, <2>2 DEF Reads
<1>5. reads' = [reads EXCEPT ![r] = read]
  BY <1>1, <1>3 DEF LockPlan, TypeOK
<1>6. TypeOK' /\ pc'[r] = next /\ planLock'[plan] = r /\ reads'[r] = read
  BY <1>1, <1>2, <1>4, <1>5 DEF TypeOK, Issued, Working
<1>7. ASSUME NEW q \in Requests, q # r PROVE RequestOK(q)'
  BY <1>1, <1>2, <1>5, <1>7, RequestsAssumption, Kept DEF IInv, TypeOK, Issued, Renewed
<1>8. RequestOK(r)'
  <2>1. KindOK(r)' /\ PlaceOK(r)'
    BY <1>1, <1>2, <1>6
    DEF RequestOK, KindOK, PlaceOK, Issued, PlanOf, Creation, Storing, Committing, CatalogOps
  <2>2. HoldsOK(r)'
    BY <1>1, <1>2, <1>4, <1>6 DEF RequestOK, HoldsOK, Creation, Storing, Committing, CatalogOps
  <2>3. SeenOK(r)' /\ ErrorOK(r)'
    BY <1>1, <1>2, <1>4, <1>6
    DEF RequestOK, SeenOK, ErrorOK, Now, Circumstances, InPortfolio, Working
  <2>4. QED
    BY <2>1, <2>2, <2>3 DEF RequestOK
<1>9. QED
  BY <1>6, <1>7, <1>8 DEF IInv

-----------------------------------------------------------------------------
(* Statements that only read.                                              *)

\* Where a statement leads that keeps its request's locks and reads no more than
\* the version.
LEMMA ReadSafe ==
    ASSUME IInv, NEW r \in Requests, NEW read \in Reads, NEW next \in Working,
           Continue(r, read, next), pc[r] \in Working,
           PlaceOK(r)', HoldsOK(r)',
           read.eligible => {"plan", "business", "contract"} \subseteq witnessed[r],
           next \in {"business", "contract", "version"} => "plan" \in witnessed[r],
           next \in {"contract", "version"} => "business" \in witnessed[r],
           next = "version" => "contract" \in witnessed[r]
    PROVE  IInv'
<1>1. /\ TypeOK /\ SeenOK(r) /\ UNCHANGED <<req, witnessed>>
      /\ UNCHANGED <<grants, live, sameReseller, open, contracted>>
      /\ pc' = [pc EXCEPT ![r] = next] /\ reads' = [reads EXCEPT ![r] = read]
  BY DEF Continue, IInv, scope, RequestOK
<1>2. pc'[r] = next /\ reads'[r] = read
  BY <1>1 DEF TypeOK
<1>3. Now(r)' = Now(r)
  BY <1>1 DEF Now, Circumstances, InPortfolio
<1>4. SeenOK(r)'
  BY <1>1, <1>2, <1>3 DEF SeenOK, Working
<1>5. QED
  BY <1>4, ContinueSafe

\* After Continue the request is where it says, and everything else as it was.
LEMMA Continued ==
    ASSUME TypeOK, NEW r \in Requests, NEW read, NEW next, Continue(r, read, next)
    PROVE  /\ UNCHANGED <<policy, policyLock, planLock, req, published, autoRenew>>
           /\ pc'[r] = next /\ reads'[r] = read
BY DEF Continue, TypeOK, locks, scope

LEMMA CheckTransitionStep == ASSUME IInv, NEW r \in Requests, CheckTransition(r) PROVE IInv'
<1>1. /\ TypeOK /\ RequestOK(r) /\ pc[r] = "transitionChecks" /\ req[r].op = "transition"
      /\ reads[r] \in Reads
  BY DEF CheckTransition, IInv, RequestOK, PlaceOK, TypeOK
<1>2. CASE Refuse(r, "denied") \/ Refuse(r, "invalid")
  BY <1>1, <1>2, RefuseSafe DEF Working, Answered
<1>3. CASE req[r].target \in Allowed(reads[r].from) /\ Continue(r, reads[r], "update")
  <2>1. PlaceOK(r)' /\ HoldsOK(r)'
    BY <1>1, <1>3, Continued DEF RequestOK, PlaceOK, HoldsOK, Creation, Storing, Committing
  <2>2. QED
    BY <1>1, <1>3, <2>1, ReadSafe DEF RequestOK, SeenOK, Working
<1>4. QED
  BY <1>2, <1>3 DEF CheckTransition

LEMMA CheckBeneficiaryStep == ASSUME IInv, NEW r \in Requests, CheckBeneficiary(r) PROVE IInv'
<1>1. /\ TypeOK /\ RequestOK(r) /\ pc[r] = "beneficiary" /\ req[r].op = "add_beneficiary"
      /\ reads[r] \in Reads
  BY DEF CheckBeneficiary, IInv, RequestOK, PlaceOK, TypeOK
<1>2. CASE Refuse(r, "denied")
  BY <1>1, <1>2, RefuseSafe DEF Working, Answered
<1>3. CASE Continue(r, reads[r], "addBeneficiary")
  <2>1. PlaceOK(r)' /\ HoldsOK(r)'
    BY <1>1, <1>3, Continued DEF PlaceOK, HoldsOK, Creation, Storing, Committing
  <2>2. QED
    BY <1>1, <1>3, <2>1, ReadSafe DEF RequestOK, SeenOK, Working
<1>4. QED
  BY <1>2, <1>3 DEF CheckBeneficiary

LEMMA CheckRenewalStep == ASSUME IInv, NEW r \in Requests, CheckRenewal(r) PROVE IInv'
<1>1. /\ TypeOK /\ RequestOK(r) /\ pc[r] = "renewChecks" /\ req[r].op = "renew"
      /\ reads[r] \in Reads
  BY DEF CheckRenewal, IInv, RequestOK, PlaceOK, TypeOK
<1>2. CASE Refuse(r, "denied") \/ Refuse(r, "invalid")
  BY <1>1, <1>2, RefuseSafe DEF Working, Answered
<1>3. CASE reads[r].flag /\ Continue(r, reads[r], "member")
  <2>1. PlaceOK(r)' /\ HoldsOK(r)'
    BY <1>1, <1>3, Continued DEF RequestOK, PlaceOK, HoldsOK, Creation, Storing, Committing
  <2>2. QED
    BY <1>1, <1>3, <2>1, ReadSafe DEF RequestOK, SeenOK, Working
<1>4. QED
  BY <1>2, <1>3 DEF CheckRenewal

\* Within create_enrollment the locks of a renewal stay where they are.
LEMMA CreationSafe ==
    ASSUME IInv, NEW r \in Requests, NEW read \in Reads,
           NEW next \in Creation \ Storing,
           Continue(r, read, next), pc[r] \in Creation
    PROVE  PlaceOK(r)' /\ HoldsOK(r)'
<1>1. TypeOK /\ RequestOK(r)
  BY DEF IInv
<1>2. QED
  BY <1>1, Continued DEF RequestOK, PlaceOK, HoldsOK, Creation, Storing, Committing

LEMMA FindStep ==
    ASSUME IInv, NEW r \in Requests,
           FindMember(r) \/ FindPlan(r) \/ FindBusiness(r) \/ FindContract(r)
    PROVE  IInv'
<1>1. /\ TypeOK /\ RequestOK(r) /\ reads[r] \in Reads
      /\ pc[r] \in {"member", "plan", "business", "contract"}
      /\ pc[r] \in Creation /\ pc[r] \in Working
  BY DEF FindMember, FindPlan, FindBusiness, FindContract, IInv, TypeOK, Creation, Working
<1>2. Now(r) \subseteq witnessed[r]
  BY <1>1 DEF RequestOK, SeenOK
<1>3. CASE FindMember(r)
  <2>1. CASE Refuse(r, "denied")
    BY <1>1, <2>1, RefuseSafe DEF Answered
  <2>2. CASE Continue(r, [reads[r] EXCEPT !.tenant = sameReseller], "plan")
    <3> PICK read : read = [reads[r] EXCEPT !.tenant = sameReseller]
      OBVIOUS
    <3>1. read \in Reads /\ read.eligible = reads[r].eligible
      BY <1>1 DEF TypeOK, Reads
    <3>2. QED
      BY <1>1, <2>2, <3>1, CreationSafe, ReadSafe DEF RequestOK, SeenOK, Creation, Storing, Committing,
             Working
  <2>3. QED
    BY <1>3, <2>1, <2>2 DEF FindMember
<1>4. CASE FindPlan(r)
  <2>1. ASSUME NEW next \in {"business", "exception"}, Continue(r, reads[r], next),
               next = "business" => "reseller" \in live /\ req[r].plan \in open
        PROVE  IInv'
    <3>1. next = "business" => "plan" \in witnessed[r]
      BY <1>2, <2>1 DEF Now, Circumstances
    <3>2. QED
      BY <1>1, <2>1, <3>1, CreationSafe, ReadSafe DEF RequestOK, SeenOK, Creation, Storing, Committing,
             Working
  <2>2. QED
    BY <1>4, <2>1 DEF FindPlan
<1>5. CASE FindBusiness(r)
  <2>1. ASSUME NEW next \in {"contract", "exception"}, Continue(r, reads[r], next),
               next = "contract" => "business" \in live /\ sameReseller,
               pc[r] = "business"
        PROVE  IInv'
    <3>1. next = "contract" => {"plan", "business"} \subseteq witnessed[r]
      BY <1>1, <1>2, <2>1 DEF Now, Circumstances, RequestOK, SeenOK
    <3>2. QED
      BY <1>1, <2>1, <3>1, CreationSafe, ReadSafe DEF RequestOK, SeenOK, Creation, Storing, Committing,
             Working
  <2>2. QED
    BY <1>5, <2>1 DEF FindBusiness
<1>6. CASE FindContract(r)
  <2>1. ASSUME NEW next \in {"version", "exception"}, Continue(r, reads[r], next),
               next = "version" => req[r].plan \in contracted,
               pc[r] = "contract"
        PROVE  IInv'
    <3>1. next = "version" => {"plan", "business", "contract"} \subseteq witnessed[r]
      BY <1>1, <1>2, <2>1 DEF Now, Circumstances, RequestOK, SeenOK
    <3>2. QED
      BY <1>1, <2>1, <3>1, CreationSafe, ReadSafe DEF RequestOK, SeenOK, Creation, Storing, Committing,
             Working
  <2>2. QED
    BY <1>6, <2>1 DEF FindContract
<1>7. QED
  BY <1>3, <1>4, <1>5, <1>6

\* The version that is found is one of the plan's.
LEMMA FoundVersion ==
    ASSUME TypeOK, NEW plan, NEW date, Latest(Effective(plan, date)) # None
    PROVE  /\ Latest(Effective(plan, date)) \in Versions
           /\ VersionTerms[Latest(Effective(plan, date))].plan = plan
<1>1. Effective(plan, date) \in SUBSET Versions
  BY DEF Effective, TypeOK
<1>2. Latest(Effective(plan, date)) \in Effective(plan, date)
  BY <1>1, LatestIsOne
<1>3. QED
  BY <1>1, <1>2 DEF Effective

LEMMA FindVersionStep == ASSUME IInv, NEW r \in Requests, FindVersion(r) PROVE IInv'
<1> PICK v : v = Latest(Effective(req[r].plan, req[r].start))
  OBVIOUS
<1> PICK found : found = (v # None) /\ found \in BOOLEAN
  OBVIOUS
<1> PICK read : read = [reads[r] EXCEPT !.version = v, !.eligible = found]
  OBVIOUS
<1>1. /\ TypeOK /\ RequestOK(r) /\ reads[r] \in Reads /\ pc[r] = "version"
      /\ pc[r] \in Creation /\ pc[r] \in Working
      /\ Continue(r, read, IF v = None THEN "exception" ELSE "insert")
  BY DEF FindVersion, IInv, TypeOK, Creation, Working
<1>2. v # None => v \in Versions /\ VersionTerms[v].plan = req[r].plan
  BY <1>1, FoundVersion
<1>3. read \in Reads /\ read.version = v
  <2> PICK half : half = [reads[r] EXCEPT !.version = v]
    OBVIOUS
  <2>1. half \in Reads /\ half.version = v
    BY <1>1, <1>2 DEF Reads
  <2>2. read = [half EXCEPT !.eligible = found]
    OBVIOUS
  <2>3. QED
    BY <2>1, <2>2 DEF Reads
<1>4. {"plan", "business", "contract"} \subseteq witnessed[r]
  BY <1>1 DEF RequestOK, SeenOK
<1>5. CASE v = None
  BY <1>1, <1>3, <1>4, <1>5, CreationSafe, ReadSafe DEF Creation, Storing, Committing, Working
<1>6. CASE v # None
  <2>1. Continue(r, read, "insert")
    BY <1>1, <1>6
  <2>2. PlaceOK(r)'
    BY <1>1, <2>1, Continued DEF RequestOK, PlaceOK, Creation, Storing
  <2>3. /\ UNCHANGED <<policy, policyLock, planLock, req, published, autoRenew>>
        /\ pc'[r] = "insert" /\ reads'[r] = read
    BY <1>1, <2>1, Continued
  <2>4. HoldsOK(r)'
    <3>1. \A plan, date : Latest(Effective(plan, date))' = Latest(Effective(plan, date))
      <4>1. published' = published
        BY <2>3
      <4>2. QED
        BY <4>1 DEF Latest, Effective
    <3>2. req'[r] = req[r]
      BY <2>3
    <3>3. Latest(Effective(req[r].plan, req[r].start))' = v
      BY <3>1, <3>2
    <3>4. QED
      BY <1>1, <1>2, <1>3, <1>6, <2>3, <3>3 DEF RequestOK, HoldsOK, Creation, Storing, Committing
  <2>5. QED
    BY <1>1, <1>3, <1>4, <2>1, <2>2, <2>4, ReadSafe DEF Creation, Storing, Committing, Working
<1>7. QED
  BY <1>5, <1>6

LEMMA FindExceptionStep == ASSUME IInv, NEW r \in Requests, FindException(r) PROVE IInv'
<1> PICK v : v = Latest(Effective(req[r].plan, req[r].start))
  OBVIOUS
<1> PICK read : read = [reads[r] EXCEPT !.version = v]
  OBVIOUS
<1>1. /\ TypeOK /\ RequestOK(r) /\ reads[r] \in Reads /\ pc[r] = "exception"
      /\ pc[r] \in Creation /\ pc[r] \in Working
      /\ req[r].op \in {"create", "renew"} /\ (req[r].op = "renew" => ~req[r].override)
  BY DEF FindException, IInv, TypeOK, Creation, Working, RequestOK, PlaceOK, KindOK
<1>2. CASE Refuse(r, "invalid")
  BY <1>1, <1>2, RefuseSafe DEF Answered
<1>3. CASE req[r].override /\ v # None /\ Continue(r, read, "insert")
  <2>1. v \in Versions /\ VersionTerms[v].plan = req[r].plan
    BY <1>1, <1>3, FoundVersion
  <2>2. read \in Reads /\ read.version = v /\ read.eligible = reads[r].eligible
    BY <1>1, <2>1 DEF Reads
  <2>3. /\ UNCHANGED <<policy, policyLock, planLock, req, published, autoRenew>>
        /\ pc'[r] = "insert" /\ reads'[r] = read
    BY <1>1, <1>3, Continued
  <2>4. req[r].op = "create"
    BY <1>1, <1>3
  <2>5. PlaceOK(r)'
    BY <2>3, <2>4 DEF PlaceOK, Creation, Storing
  <2>6. HoldsOK(r)'
    BY <2>1, <2>2, <2>3, <2>4 DEF HoldsOK, Storing, Committing
  <2>7. QED
    BY <1>1, <1>3, <2>2, <2>5, <2>6, ReadSafe DEF RequestOK, SeenOK, Working
<1>4. QED
  <2>1. CASE reads[r].tenant
    BY <1>2, <1>3, <2>1 DEF FindException
  <2>2. CASE ~reads[r].tenant
    BY <1>2, <2>2 DEF FindException
  <2>3. QED
    BY <2>1, <2>2

\* Only who runs waits.
LEMMA CycleWorks == ASSUME NEW r, DeadlockAbort(r) PROVE pc[r] \in Working
<1>1. BlockedBy(r) # {}
  BY DEF DeadlockAbort, Cycle, Waits
<1>2. QED
  BY <1>1 DEF BlockedBy, Working

LEMMA AbortStep == ASSUME IInv, NEW r \in Requests, DeadlockAbort(r) PROVE IInv'
BY CycleWorks, RefuseSafe DEF DeadlockAbort, Answered

LEMMA CrashStep == ASSUME IInv, NEW r \in Requests, Crash(r) PROVE IInv'
  BY RefuseSafe DEF Crash, Answered

-----------------------------------------------------------------------------
(* Statements that write and commit.                                       *)

\* The rows keep the terms of what is issued, and the statuses and renewals of what
\* r has not locked.
TermsKept(r, rows) ==
    /\ \A p \in Policies : rows[p].status # "absent" => Before(rows[p].start, rows[p].end)
    /\ \A p \in Policies : Issued(p) => /\ rows[p].status # "absent"
                                        /\ rows[p].member = policy[p].member
                                        /\ rows[p].end = policy[p].end
                                        /\ rows[p].version = policy[p].version
    /\ \A p \in Policies : Issued(p) /\ policyLock[p] # r => rows[p].status = policy[p].status
    /\ \A p, q \in Policies : policyLock[p] # r /\ ~Renewed(p) => rows[q].preceding # p

\* A commit of such rows.
LEMMA CommitSafe ==
    ASSUME IInv, NEW r \in Requests, pc[r] \in Working,
           NEW rows \in [Policies -> Row \cup {NoPolicy}],
           NEW added \in [Policies -> SUBSET Requests], NEW events,
           Commit(r, rows, added, events),
           TermsKept(r, rows)
    PROVE  IInv'
<1>1. /\ TypeOK /\ policy' = rows /\ beneficiaries' = added /\ UNCHANGED <<req, reads, witnessed>>
      /\ UNCHANGED <<grants, live, sameReseller, open, contracted, published, autoRenew>>
      /\ pc' = [pc EXCEPT ![r] = "ok"] /\ Release(r)
  BY DEF Commit, IInv, scope
<1>2. /\ policyLock' \in [Policies -> Requests \cup {None}]
      /\ memberLock' \in [Members -> Requests \cup {None}]
      /\ versionLock' \in [Versions -> Requests \cup {None}]
      /\ planLock' \in [Plans -> Requests \cup {None}]
      /\ \A q \in Requests \ {r} :
            /\ \A p \in Policies : policyLock[p] = q => policyLock'[p] = q
            /\ \A plan \in Plans : planLock[plan] = q => planLock'[plan] = q
  BY <1>1 DEF Release, TypeOK
<1>3. TypeOK'
  <2>1. pc' \in [Requests -> {"idle"} \cup Working \cup Answered]
    BY <1>1 DEF TypeOK, Answered
  <2>2. (\A p \in Policies : Issued(p) => Before(policy[p].start, policy[p].end))'
    BY <1>1 DEF Issued, TermsKept
  <2>3. QED
    BY <1>1, <1>2, <2>1, <2>2 DEF TypeOK
<1>4. \A p \in Policies : Issued(p) => Issued(p)'
  BY <1>1 DEF Issued, TermsKept
<1>5. ASSUME NEW q \in Requests, q # r PROVE RequestOK(q)'
  <2>1. pc'[q] = pc[q] /\ RequestOK(q)
    BY <1>1, <1>5 DEF IInv, TypeOK
  <2>2. \A p \in Policies : policyLock[p] = q /\ Issued(p) => policy'[p].status = policy[p].status
    BY <1>1, <1>5 DEF TermsKept
  <2>3. \A p \in Policies : policyLock[p] = q /\ ~Renewed(p) => ~Renewed(p)'
    <3> SUFFICES ASSUME NEW p \in Policies, policyLock[p] = q, ~Renewed(p), NEW x \in Policies
                 PROVE  policy'[x].preceding # p
      BY DEF Renewed
    <3>1. QED
      BY <1>1, <1>5 DEF TermsKept
  <2>4. QED
    BY <1>1, <1>2, <1>4, <1>5, <2>1, <2>2, <2>3, Kept DEF TermsKept
<1>6. RequestOK(r)'
  <2>1. RequestOK(r) /\ pc[r] # "idle" /\ pc'[r] = "ok"
    BY <1>1 DEF IInv, TypeOK, Working
  <2>2. KindOK(r)'
    BY <1>1, <1>4, <2>1 DEF RequestOK, KindOK, PlanOf, TermsKept
  <2>3. PlaceOK(r)' /\ HoldsOK(r)' /\ ErrorOK(r)'
    BY <2>1 DEF PlaceOK, HoldsOK, ErrorOK, Creation, Storing, Committing
  <2>4. SeenOK(r)'
    BY <1>1, <2>1 DEF RequestOK, SeenOK, Working
  <2>5. QED
    BY <2>2, <2>3, <2>4 DEF RequestOK
<1>7. QED
  BY <1>3, <1>5, <1>6 DEF IInv

\* The trigger accepts every transition of ALLOWED_TRANSITIONS.
LEMMA TriggerAgrees ==
    ASSUME NEW from \in Statuses, NEW to \in Allowed(from)
    PROVE  TriggerAllows(from, to) /\ to \in Statuses
BY DEF Statuses, Allowed, TriggerAllows

\* What UpdateStatus finds: the status that was read, still.
LEMMA UpdateFinds ==
    ASSUME IInv, NEW r \in Requests, pc[r] = "update"
    PROVE  /\ req[r].policy \in Policies /\ Issued(req[r].policy)
           /\ policy[req[r].policy] \in Row /\ policyLock[req[r].policy] = r
           /\ reads[r].from = policy[req[r].policy].status
           /\ TriggerAllows(policy[req[r].policy].status, req[r].target)
           /\ req[r].target \in Statuses
<1>1. TypeOK /\ KindOK(r) /\ HoldsOK(r) /\ req[r].op = "transition"
  BY DEF IInv, RequestOK, PlaceOK
<1>2. req[r].policy \in Policies /\ Issued(req[r].policy)
  BY <1>1 DEF KindOK
<1>3. policy[req[r].policy] \in Row
  BY <1>1, <1>2, IssuedRows
<1>4. /\ policyLock[req[r].policy] = r /\ reads[r].from = policy[req[r].policy].status
      /\ req[r].target \in Allowed(reads[r].from)
  BY <1>1 DEF HoldsOK
<1>5. policy[req[r].policy].status \in Statuses
  BY <1>3 DEF Row
<1>6. QED
  BY <1>2, <1>3, <1>4, <1>5, TriggerAgrees

LEMMA UpdateStatusStep == ASSUME IInv, NEW r \in Requests, UpdateStatus(r) PROVE IInv'
<1> PICK p : p = req[r].policy
  OBVIOUS
<1> PICK to : to = req[r].target
  OBVIOUS
<1> PICK rows : rows = [policy EXCEPT ![p].status = to]
  OBVIOUS
<1>1. /\ TypeOK /\ pc[r] = "update" /\ pc[r] \in Working
      /\ p \in Policies /\ policy[p] \in Row /\ policyLock[p] = r
      /\ TriggerAllows(policy[p].status, to) /\ to \in Statuses
  BY UpdateFinds DEF UpdateStatus, IInv, Working
<1>2. PICK events : Commit(r, rows, beneficiaries, events)
  BY <1>1 DEF UpdateStatus
<1>3. rows \in [Policies -> Row \cup {NoPolicy}]
  <2>1. [policy[p] EXCEPT !.status = to] \in Row
    BY <1>1 DEF Row
  <2>2. rows = [policy EXCEPT ![p] = [policy[p] EXCEPT !.status = to]]
    BY <1>1 DEF TypeOK
  <2>3. QED
    BY <1>1, <2>1, <2>2 DEF TypeOK
<1>4. /\ \A q \in Policies \ {p} : rows[q] = policy[q]
      /\ rows[p].status = to /\ rows[p].member = policy[p].member
      /\ rows[p].start = policy[p].start /\ rows[p].end = policy[p].end
      /\ rows[p].version = policy[p].version /\ rows[p].preceding = policy[p].preceding
  BY <1>1 DEF TypeOK, Row
<1>5. to # "absent" /\ Issued(p)
  BY <1>1, IssuedRows DEF Statuses
<1>6. \A q \in Policies : rows[q].status # "absent" => Before(rows[q].start, rows[q].end)
  <2> TAKE q \in Policies
  <2>1. CASE q = p
    BY <1>1, <1>4, <1>5, <2>1 DEF TypeOK
  <2>2. CASE q # p
    BY <1>1, <1>4, <2>2 DEF TypeOK, Issued
  <2>3. QED
    BY <2>1, <2>2
<1>7. TermsKept(r, rows)
  <2>1. \A q \in Policies : rows[q].preceding = policy[q].preceding
    BY <1>4
  <2>2. QED
    BY <1>1, <1>4, <1>5, <1>6, <2>1 DEF Issued, TermsKept, Renewed
<1>8. beneficiaries \in [Policies -> SUBSET Requests]
  BY <1>1 DEF TypeOK
<1>9. QED
  BY <1>1, <1>2, <1>3, <1>7, <1>8, CommitSafe

LEMMA InsertBeneficiaryStep == ASSUME IInv, NEW r \in Requests, InsertBeneficiary(r) PROVE IInv'
<1> PICK added : added = [beneficiaries EXCEPT ![req[r].policy] = @ \cup {r}]
  OBVIOUS
<1>1. /\ TypeOK /\ pc[r] = "addBeneficiary" /\ pc[r] \in Working
  BY DEF InsertBeneficiary, IInv, Working
<1>2. PICK events : Commit(r, policy, added, events)
  BY DEF InsertBeneficiary
<1>3. added \in [Policies -> SUBSET Requests]
  BY <1>1 DEF TypeOK
<1>4. policy \in [Policies -> Row \cup {NoPolicy}] /\ TermsKept(r, policy)
  BY <1>1 DEF TypeOK, Issued, TermsKept, Renewed
<1>5. QED
  BY <1>1, <1>2, <1>3, <1>4, CommitSafe

LEMMA EndCatalogStep == ASSUME IInv, NEW r \in Requests, EndCatalog(r) PROVE IInv'
<1>1. /\ TypeOK /\ pc[r] \in Working /\ Commit(r, policy, beneficiaries, {})
  BY DEF EndCatalog, IInv, Working
<1>2. /\ policy \in [Policies -> Row \cup {NoPolicy}] /\ TermsKept(r, policy)
      /\ beneficiaries \in [Policies -> SUBSET Requests]
  BY <1>1 DEF TypeOK, Issued, TermsKept, Renewed
<1>3. QED
  BY <1>1, <1>2, CommitSafe

\* The row that is about to be inserted.
LEMMA NewRow ==
    ASSUME IInv, NEW r \in Requests, pc[r] \in Storing
    PROVE  /\ NewPolicy(r) \in Row /\ NewPolicy(r).status = "pending_payment"
           /\ NewPolicy(r).member = req[r].member /\ NewPolicy(r).version = reads[r].version
           /\ NewPolicy(r).start = req[r].start /\ NewPolicy(r).end = EndDate(r)
           /\ NewPolicy(r).preceding = req[r].policy
           /\ req[r].plan \in Plans /\ VersionTerms[reads[r].version].plan = req[r].plan
<1>1. /\ TypeOK /\ KindOK(r) /\ HoldsOK(r) /\ req[r].op \in {"create", "renew"}
      /\ req[r] \in Request
  BY DEF IInv, RequestOK, PlaceOK, Creation, Storing, Committing, TypeOK
<1>2. /\ reads[r].version \in Versions /\ VersionTerms[reads[r].version].plan = req[r].plan
      /\ req[r].start \in Dates /\ req[r].plan \in Plans
      /\ req[r].member \in Members /\ req[r].actor \in Users
  BY <1>1 DEF KindOK, HoldsOK, Storing, Committing, Operations
<1>3. EndDate(r) \in Dates
  <2>1. CalculatedEnd(r) \in Dates
    BY <1>2, TermsAssumption, SumIsDate DEF CalculatedEnd
  <2>2. req[r].explicit # None => req[r].explicit \in Dates
    BY <1>1, DatesAssumption DEF Request, Dates, Valid
  <2>3. QED
    BY <2>1, <2>2 DEF EndDate
<1>4. req[r].policy \in Policies \cup {None} /\ req[r].reason \in BOOLEAN
  BY <1>1 DEF Request
<1>5. "pending_payment" \in Statuses
  BY DEF Statuses
<1>6. QED
  BY <1>2, <1>3, <1>4, <1>5 DEF NewPolicy, Row

\* What a renewal holds makes the trigger accept that it continues its Poliza.
LEMMA RenewalContinues ==
    ASSUME IInv, NEW r \in Requests, pc[r] = "insert"
    PROVE  TriggerContinues(NewPolicy(r))
<1>1. KindOK(r) /\ req[r].op \in {"create", "renew"}
  BY DEF IInv, RequestOK, PlaceOK, Creation, Storing
<1>2. QED
  BY <1>1, NewRow DEF KindOK, TriggerContinues, Storing

\* When create_enrollment inserts, and when the database stops it.
LEMMA RefusalTells ==
    ASSUME IInv, NEW r \in Requests, pc[r] = "insert"
    PROVE  /\ InsertRefusal(r) = "none" =>
                 /\ Before(req[r].start, EndDate(r)) /\ sameReseller
                 /\ ~(req[r].policy # None /\ Renewed(req[r].policy))
           /\ InsertRefusal(r) = "error" => ~Representable(CalculatedEnd(r)) \/ ~sameReseller
           /\ InsertRefusal(r) \in {"none", "invalid", "error"}
<1>1. TriggerContinues(NewPolicy(r))
  BY RenewalContinues
<1>2. QED
  BY <1>1 DEF InsertRefusal, TriggerTenant

\* A request on its way to its commit keeps what it found, and its locks.
LEMMA CommitHolds ==
    ASSUME IInv, NEW r \in Requests, pc[r] \in Storing, pc'[r] \in Committing,
           UNCHANGED <<policy, policyLock, planLock, req, published, autoRenew>>,
           reads'[r] = reads[r],
           Before(req[r].start, EndDate(r)),
           req[r].op = "renew" => ~Renewed(req[r].policy)
    PROVE  HoldsOK(r)'
<1>1. Latest(Effective(req[r].plan, req[r].start))' = Latest(Effective(req[r].plan, req[r].start))
  <2>1. Effective(req[r].plan, req[r].start)' = Effective(req[r].plan, req[r].start)
    BY DEF Effective
  <2>2. QED
    BY <2>1 DEF Latest
<1>2. EndDate(r)' = EndDate(r) /\ Renewed(req[r].policy)' = Renewed(req[r].policy)
  BY DEF EndDate, CalculatedEnd, Renewed
<1>3. HoldsOK(r) /\ pc[r] \in Creation
  BY DEF IInv, RequestOK, Creation
<1>4. /\ req[r].op = "renew" => /\ policyLock[req[r].policy] = r /\ planLock[req[r].plan] = r
                                /\ req[r].plan \in autoRenew
                                /\ reads[r].version = Latest(Effective(req[r].plan, req[r].start))
      /\ reads[r].version \in Versions /\ VersionTerms[reads[r].version].plan = req[r].plan
  BY <1>3 DEF HoldsOK
<1>5. pc'[r] \notin {"lockMember", "transitionChecks", "update", "renewChecks"}
  BY DEF Committing
<1>6. QED
  BY <1>1, <1>2, <1>4, <1>5 DEF HoldsOK

LEMMA InsertPolicyStep == ASSUME IInv, NEW r \in Requests, InsertPolicy(r) PROVE IInv'
<1>1. /\ TypeOK /\ RequestOK(r) /\ pc[r] = "insert" /\ pc[r] \in Working
      /\ req[r].op \in {"create", "renew"} /\ reads[r] \in Reads
  BY DEF InsertPolicy, IInv, RequestOK, PlaceOK, Creation, Storing, Working, TypeOK
<1>2. CASE InsertRefusal(r) = "none"
  <2>1. Continue(r, reads[r], "businessKey")
    BY <1>2 DEF InsertPolicy
  <2>2. /\ UNCHANGED <<policy, policyLock, planLock, req, published, autoRenew>>
        /\ pc'[r] = "businessKey" /\ reads'[r] = reads[r]
    BY <1>1, <2>1, Continued
  <2>3. PlaceOK(r)'
    BY <1>1, <2>2 DEF PlaceOK, Creation, Storing, Committing
  <2>4. Before(req[r].start, EndDate(r)) /\ (req[r].policy # None => ~Renewed(req[r].policy))
    BY <1>1, <1>2, RefusalTells
  <2>5. req[r].op = "renew" => req[r].policy # None
    BY <1>1, PoliciesAssumption DEF RequestOK, KindOK
  <2>6. HoldsOK(r)'
    BY <1>1, <2>2, <2>4, <2>5, CommitHolds DEF Storing, Committing
  <2>7. QED
    BY <1>1, <2>1, <2>3, <2>6, ReadSafe DEF RequestOK, SeenOK, Working
<1>3. CASE InsertRefusal(r) = "invalid"
  BY <1>1, <1>3, RefuseSafe DEF InsertPolicy, Answered
<1>4. CASE InsertRefusal(r) = "error"
  <2>1. ~sameReseller => "moved" \in witnessed[r]
    BY <1>1 DEF RequestOK, SeenOK, Now, Circumstances
  <2>2. ~Representable(CalculatedEnd(r)) \/ ~sameReseller
    BY <1>1, <1>4, RefusalTells
  <2>3. Refuse(r, "error")
    BY <1>4 DEF InsertPolicy
  <2>4. QED
    BY <1>1, <2>1, <2>2, <2>3, RefuseSafe DEF Answered
<1>5. QED
  BY <1>1, <1>2, <1>3, <1>4, RefusalTells

LEMMA ShareStep ==
    ASSUME IInv, NEW r \in Requests, ShareBusiness(r) \/ ShareMember(r) PROVE IInv'
<1> PICK next : next = IF pc[r] = "businessKey" THEN "memberKey" ELSE "versionKey"
  OBVIOUS
<1>1. /\ TypeOK /\ RequestOK(r) /\ pc[r] \in {"businessKey", "memberKey"} /\ pc[r] \in Working
      /\ req[r].op \in {"create", "renew"} /\ reads[r] \in Reads
      /\ Continue(r, reads[r], next) /\ next \in {"memberKey", "versionKey"}
  BY DEF ShareBusiness, ShareMember, IInv, RequestOK, PlaceOK, Creation, Storing, Committing,
         Working, TypeOK
<1>2. /\ UNCHANGED <<policy, policyLock, planLock, req, published, autoRenew>>
      /\ pc'[r] = next /\ reads'[r] = reads[r]
  BY <1>1, Continued
<1>3. PlaceOK(r)'
  BY <1>1, <1>2 DEF PlaceOK, Creation, Storing, Committing
<1>4. /\ Before(req[r].start, EndDate(r))
      /\ req[r].op = "renew" => ~Renewed(req[r].policy)
  BY <1>1 DEF RequestOK, HoldsOK, Committing
<1>5. HoldsOK(r)'
  BY <1>1, <1>2, <1>4, CommitHolds DEF Storing, Committing
<1>6. QED
  BY <1>1, <1>3, <1>5, ReadSafe DEF RequestOK, SeenOK, Working

LEMMA CommitPolicyStep ==
    ASSUME IInv, NEW r \in Requests, NEW p \in Policies, CommitPolicy(r, p) PROVE IInv'
<1> PICK row : row = NewPolicy(r)
  OBVIOUS
<1> PICK rows : rows = [policy EXCEPT ![p] = row]
  OBVIOUS
<1>1. /\ TypeOK /\ RequestOK(r) /\ pc[r] = "versionKey" /\ pc[r] \in Working /\ ~Issued(p)
      /\ pc[r] \in Storing /\ req[r].op \in {"create", "renew"}
  BY DEF CommitPolicy, IInv, RequestOK, PlaceOK, Creation, Storing, Committing, Working
<1>2. PICK events : Commit(r, rows, beneficiaries, events)
  BY DEF CommitPolicy
<1>3. row \in Row /\ Before(row.start, row.end) /\ row.preceding = req[r].policy
  BY <1>1, NewRow DEF RequestOK, HoldsOK, Committing
<1>4. /\ rows \in [Policies -> Row \cup {NoPolicy}] /\ rows[p] = row
      /\ \A q \in Policies \ {p} : rows[q] = policy[q]
  BY <1>1, <1>3 DEF TypeOK
<1>5. \A q \in Policies : row.preceding = q => policyLock[q] = r
  BY <1>1, <1>3, PoliciesAssumption DEF RequestOK, KindOK, HoldsOK, Creation
<1>6. TermsKept(r, rows)
  <2>1. \A q, x \in Policies : policyLock[q] # r /\ ~Renewed(q) => rows[x].preceding # q
    BY <1>4, <1>5 DEF Renewed
  <2>2. QED
    BY <1>1, <1>3, <1>4, <2>1 DEF TypeOK, Issued, TermsKept
<1>7. beneficiaries \in [Policies -> SUBSET Requests]
  BY <1>1 DEF TypeOK
<1>8. QED
  BY <1>1, <1>2, <1>4, <1>6, <1>7, CommitSafe

-----------------------------------------------------------------------------
(* Arrivals.                                                               *)

\* A request that knows its row arrives; its first statement needs no lock.
LEMMA ArriveSafe ==
    ASSUME IInv, NEW r \in Requests, NEW request \in Request,
           NEW first \in {"lockPolicy", "member", "beneficiary", "lockVersion", "lockPlan"},
           Arrive(r, request, first),
           request.op \in Operations => request.actor \in Users /\ request.member \in Members,
           \/ /\ request.op = "create" /\ first = "member" /\ request.policy = None
              /\ request.plan \in Plans /\ request.start \in Dates
           \/ /\ request.op = "renew" /\ first = "lockPolicy" /\ ~request.override
              /\ request.policy \in Policies /\ Issued(request.policy)
              /\ policy[request.policy].member = request.member
              /\ policy[request.policy].end = request.start
              /\ PlanOf(request.policy) = request.plan
              /\ request.plan \in Plans /\ request.start \in Dates
              /\ request.version \in Versions
              /\ VersionTerms[request.version].plan = request.plan
           \/ /\ request.op = "transition" /\ first = "lockPolicy"
              /\ request.policy \in Policies /\ Issued(request.policy)
              /\ request.target \in Statuses
           \/ /\ request.op = "add_beneficiary" /\ first = "beneficiary"
              /\ request.policy \in Policies /\ Issued(request.policy)
           \/ /\ request.op = "edit_coverage" /\ first = "lockVersion"
              /\ request.version \in Versions
              /\ VersionTerms[request.version].plan = request.plan
           \/ /\ request.op = "edit_draft" /\ first = "lockPlan"
              /\ request.version \in Versions
              /\ VersionTerms[request.version].plan = request.plan
    PROVE  IInv'
<1>1. /\ TypeOK /\ RequestOK(r) /\ pc[r] = "idle"
      /\ UNCHANGED <<policy, beneficiaries, policyLock, memberLock, versionLock, planLock, reads>>
      /\ UNCHANGED <<grants, live, sameReseller, open, contracted, published, autoRenew>>
      /\ pc' = [pc EXCEPT ![r] = first] /\ req' = [req EXCEPT ![r] = request]
      /\ request.op \in Operations => InPortfolio(request.actor, grants, live, sameReseller)
  BY DEF Arrive, IInv, locks, scope
<1>2. PICK seen : seen = Circumstances(request, grants, live, sameReseller, open, contracted)
  OBVIOUS
<1>3. witnessed' = [witnessed EXCEPT ![r] = seen]
  BY <1>2 DEF Arrive
<1>4. seen \in SUBSET Facts /\ (request.op \in Operations => "actor" \in seen)
  BY <1>1, <1>2 DEF Circumstances, Facts
<1>5. pc'[r] = first /\ req'[r] = request /\ witnessed'[r] = seen
  BY <1>1, <1>3 DEF TypeOK
<1>6. TypeOK'
  BY <1>1, <1>3, <1>4 DEF TypeOK, Issued, Working
<1>7. ASSUME NEW q \in Requests, q # r PROVE RequestOK(q)'
  BY <1>1, <1>3, <1>7, Kept DEF IInv, TypeOK, Issued, Renewed
<1>8. RequestOK(r)'
  <2>1. KindOK(r)'
    BY <1>1, <1>5 DEF KindOK, Issued, PlanOf, Operations, CatalogOps
  <2>2. PlaceOK(r)' /\ HoldsOK(r)' /\ ErrorOK(r)'
    BY <1>5 DEF PlaceOK, HoldsOK, ErrorOK, Creation, Storing, Committing, CatalogOps
  <2>3. Now(r)' = seen
    BY <1>1, <1>2, <1>5 DEF Now, Circumstances, InPortfolio
  <2>4. SeenOK(r)'
    BY <1>1, <1>4, <1>5, <2>3 DEF RequestOK, SeenOK, Working
  <2>5. QED
    BY <2>1, <2>2, <2>4 DEF RequestOK
<1>9. QED
  BY <1>6, <1>7, <1>8 DEF IInv

LEMMA CreateStep ==
    ASSUME IInv, NEW r \in Requests, NEW u \in Users, NEW m \in Members, NEW plan \in Plans,
           NEW start \in StartDates, NEW explicit \in ExplicitEnds \cup {None},
           NEW override \in BOOLEAN, NEW reason \in BOOLEAN,
           CreateEnrollment(r, u, m, plan, start, explicit, override, reason)
    PROVE  IInv'
<1> PICK request : request = [NoRequest EXCEPT !.op = "create", !.actor = u, !.member = m,
                                !.plan = plan, !.start = start, !.explicit = explicit,
                                !.override = override, !.reason = reason]
  OBVIOUS
<1>1. Arrive(r, request, "member")
  BY DEF CreateEnrollment
<1>2. start \in Dates
  BY DatesAssumption DEF Dates, Valid
<1>3. request \in Request
  BY <1>2 DEF NoRequest, Request, Operations
<1>4. /\ request.op = "create" /\ request.actor = u /\ request.member = m
      /\ request.plan = plan /\ request.start = start /\ request.policy = None
  BY DEF NoRequest
<1>5. QED
  BY <1>1, <1>2, <1>3, <1>4, ArriveSafe

\* A row that a page showed.
LEMMA ShownRow ==
    ASSUME TypeOK, NEW p \in Policies, Issued(p)
    PROVE  /\ policy[p].member \in Members /\ PlanOf(p) \in Plans /\ policy[p].end \in Dates
           /\ policy[p].version \in Versions
BY IssuedRows, TermsAssumption DEF Row, PlanOf

LEMMA RenewStep ==
    ASSUME IInv, NEW r \in Requests, NEW u \in Users, NEW p \in Policies,
           RenewEnrollment(r, u, p)
    PROVE  IInv'
<1> PICK request : request = [NoRequest EXCEPT !.op = "renew", !.actor = u, !.policy = p,
                                !.member = policy[p].member, !.plan = PlanOf(p),
                                !.version = policy[p].version, !.start = policy[p].end]
  OBVIOUS
<1>1. Arrive(r, request, "lockPolicy") /\ Issued(p) /\ TypeOK
  BY DEF RenewEnrollment, IInv
<1>2. /\ policy[p].member \in Members /\ PlanOf(p) \in Plans /\ policy[p].end \in Dates
      /\ policy[p].version \in Versions /\ VersionTerms[policy[p].version].plan = PlanOf(p)
  BY <1>1, ShownRow DEF PlanOf
<1>3. request \in Request
  BY <1>2 DEF NoRequest, Request, Operations
<1>4. /\ request.op = "renew" /\ request.actor = u /\ request.member = policy[p].member
      /\ request.plan = PlanOf(p) /\ request.start = policy[p].end /\ request.policy = p
      /\ request.version = policy[p].version /\ ~request.override
  BY DEF NoRequest
<1>5. QED
  BY <1>1, <1>2, <1>3, <1>4, ArriveSafe

LEMMA TransitionStep ==
    ASSUME IInv, NEW r \in Requests, NEW u \in Users, NEW p \in Policies,
           NEW status \in Statuses, TransitionEnrollment(r, u, p, status)
    PROVE  IInv'
<1> PICK request : request = [NoRequest EXCEPT !.op = "transition", !.actor = u, !.policy = p,
                                !.member = policy[p].member, !.target = status]
  OBVIOUS
<1>1. Arrive(r, request, "lockPolicy") /\ Issued(p) /\ TypeOK
  BY DEF TransitionEnrollment, IInv
<1>2. policy[p].member \in Members
  BY <1>1, ShownRow
<1>3. request \in Request
  BY <1>2 DEF NoRequest, Request, Operations
<1>4. /\ request.op = "transition" /\ request.actor = u /\ request.member = policy[p].member
      /\ request.policy = p /\ request.target = status
  BY DEF NoRequest
<1>5. QED
  BY <1>1, <1>2, <1>3, <1>4, ArriveSafe

LEMMA BeneficiaryStep ==
    ASSUME IInv, NEW r \in Requests, NEW u \in Users, NEW p \in Policies,
           AddBeneficiary(r, u, p)
    PROVE  IInv'
<1> PICK request : request = [NoRequest EXCEPT !.op = "add_beneficiary", !.actor = u,
                                !.policy = p, !.member = policy[p].member]
  OBVIOUS
<1>1. Arrive(r, request, "beneficiary") /\ Issued(p) /\ TypeOK
  BY DEF AddBeneficiary, IInv
<1>2. policy[p].member \in Members
  BY <1>1, ShownRow
<1>3. request \in Request
  BY <1>2 DEF NoRequest, Request, Operations
<1>4. /\ request.op = "add_beneficiary" /\ request.actor = u
      /\ request.member = policy[p].member /\ request.policy = p
  BY DEF NoRequest
<1>5. QED
  BY <1>1, <1>2, <1>3, <1>4, ArriveSafe

LEMMA CatalogArrival ==
    ASSUME IInv, NEW r \in Requests, NEW v \in Versions, EditCoverage(r, v) \/ EditDraft(r, v)
    PROVE  IInv'
<1>1. VersionTerms[v].plan \in Plans
  BY TermsAssumption
<1>2. CASE EditCoverage(r, v)
  <2> PICK request : request = [NoRequest EXCEPT !.op = "edit_coverage", !.version = v,
                                  !.plan = VersionTerms[v].plan]
    OBVIOUS
  <2>1. Arrive(r, request, "lockVersion") /\ request \in Request
    BY <1>1, <1>2 DEF EditCoverage, NoRequest, Request, CatalogOps
  <2>2. /\ request.op = "edit_coverage" /\ request.version = v
        /\ request.plan = VersionTerms[v].plan
    BY DEF NoRequest
  <2>3. QED
    BY <2>1, <2>2, ArriveSafe DEF Operations
<1>3. CASE EditDraft(r, v)
  <2> PICK request : request = [NoRequest EXCEPT !.op = "edit_draft", !.version = v,
                                  !.plan = VersionTerms[v].plan]
    OBVIOUS
  <2>1. Arrive(r, request, "lockPlan") /\ request \in Request
    BY <1>1, <1>3 DEF EditDraft, NoRequest, Request, CatalogOps
  <2>2. request.op = "edit_draft" /\ request.version = v /\ request.plan = VersionTerms[v].plan
    BY DEF NoRequest
  <2>3. QED
    BY <2>1, <2>2, ArriveSafe DEF Operations
<1>4. QED
  BY <1>2, <1>3

-----------------------------------------------------------------------------
(* What surrounds the requests.                                            *)

\* The rows of plans that are locked, and their versions, stay as they are.
PlansKept ==
    /\ \A plan \in Plans : planLock[plan] # None => (plan \in autoRenew <=> plan \in autoRenew')
    /\ \A v \in Versions : planLock[VersionTerms[v].plan] # None =>
          (v \in published <=> v \in published')

ScopeOK ==
    /\ grants \subseteq Users /\ live \subseteq {"business", "reseller"}
    /\ sameReseller \in BOOLEAN
    /\ open \cup contracted \cup autoRenew \subseteq Plans /\ published \subseteq Versions

LEMMA ScopeSafe == ASSUME IInv, ChangeScope, ScopeOK', PlansKept PROVE IInv'
<1>1. /\ TypeOK
      /\ UNCHANGED <<policy, beneficiaries, policyLock, memberLock, versionLock, planLock, pc, req, reads>>
  BY DEF IInv, ChangeScope, locks
<1>2. \A r \in Requests : witnessed'[r] =
          IF pc[r] \in Working
             THEN witnessed[r] \cup Circumstances(req[r], grants', live', sameReseller',
                                                  open', contracted')
             ELSE witnessed[r]
  BY DEF ChangeScope
<1>3. witnessed' \in [Requests -> SUBSET Facts]
  <2>1. \A q, gr, lv, same, op, con : Circumstances(q, gr, lv, same, op, con) \in SUBSET Facts
    BY DEF Circumstances, Facts
  <2> HIDE DEF Circumstances
  <2>2. \A r \in Requests : witnessed'[r] \in SUBSET Facts
    BY <1>1, <1>2, <2>1 DEF TypeOK
  <2>3. QED
    BY <2>2 DEF ChangeScope
<1>4. TypeOK'
  BY <1>1, <1>3 DEF TypeOK, ScopeOK, Issued
<1>5. ASSUME NEW r \in Requests PROVE RequestOK(r)'
  <2>1. RequestOK(r)
    BY DEF IInv
  <2>2. KindOK(r)' /\ PlaceOK(r)'
    BY <1>1, <2>1 DEF RequestOK, KindOK, PlaceOK, Issued, PlanOf
  <2>3. HoldsOK(r)'
    <3>1. CASE req[r].op = "renew" /\ pc[r] \in {"renewChecks"} \cup Creation
      <4>1. req[r].plan \in Plans /\ planLock[req[r].plan] = r /\ r # None
        BY <2>1, <3>1, RequestsAssumption DEF RequestOK, KindOK, HoldsOK
      <4>2. req[r].plan \in autoRenew <=> req[r].plan \in autoRenew'
        BY <4>1 DEF PlansKept
      <4>3. \A date : Effective(req[r].plan, date)' = Effective(req[r].plan, date)
        BY <1>1, <4>1 DEF PlansKept, Effective, TypeOK, ScopeOK
      <4>4. Latest(Effective(req[r].plan, req[r].start))' = Latest(Effective(req[r].plan, req[r].start))
        <5>1. Effective(req[r].plan, req[r].start)' = Effective(req[r].plan, req[r].start)
          BY <1>1, <4>3
        <5>2. QED
          BY <5>1 DEF Latest
      <4>5. EndDate(r)' = EndDate(r) /\ Renewed(req[r].policy)' = Renewed(req[r].policy)
        BY <1>1 DEF EndDate, CalculatedEnd, Renewed
      <4>6. QED
        BY <1>1, <2>1, <3>1, <4>2, <4>4, <4>5
        DEF RequestOK, HoldsOK, Creation, Storing, Committing
    <3>2. CASE ~(req[r].op = "renew" /\ pc[r] \in {"renewChecks"} \cup Creation)
      <4>1. pc[r] = "renewChecks" => req[r].op = "renew"
        BY <2>1 DEF RequestOK, PlaceOK
      <4>2. EndDate(r)' = EndDate(r)
        BY <1>1 DEF EndDate, CalculatedEnd
      <4>3. QED
        BY <1>1, <2>1, <3>2, <4>1, <4>2 DEF RequestOK, HoldsOK, Creation, Storing, Committing
    <3>3. QED
      BY <3>1, <3>2
  <2>4. SeenOK(r)'
    <3>1. Now(r)' = Circumstances(req[r], grants', live', sameReseller', open', contracted')
      BY <1>1 DEF Now, Circumstances, InPortfolio
    <3>2. witnessed[r] \subseteq witnessed'[r] /\ (pc[r] \in Working => Now(r)' \subseteq witnessed'[r])
      BY <1>2, <3>1
    <3>3. QED
      BY <1>1, <2>1, <3>2 DEF RequestOK, SeenOK
  <2>5. ErrorOK(r)'
    <3>1. pc[r] = "error" => witnessed'[r] = witnessed[r]
      BY <1>2 DEF Working
    <3>2. QED
      BY <1>1, <2>1, <3>1 DEF RequestOK, ErrorOK, CalculatedEnd
  <2>6. QED
    BY <2>2, <2>3, <2>4, <2>5 DEF RequestOK
<1>6. QED
  BY <1>4, <1>5 DEF IInv

LEMMA SurroundingsStep == ASSUME IInv, Surroundings PROVE IInv'
<1>1. ScopeOK /\ TypeOK
  BY DEF IInv, TypeOK, ScopeOK
<1>2. \A set, element : Flip(set, element) \subseteq set \cup {element}
  BY DEF Flip
<1>3. ASSUME NEW u \in Users, GrantOrRevoke(u) PROVE IInv'
  <2>1. ChangeScope /\ ScopeOK' /\ PlansKept
    BY <1>1, <1>2, <1>3 DEF GrantOrRevoke, ScopeOK, PlansKept
  <2>2. QED
    BY <2>1, ScopeSafe
<1>4. ASSUME NEW o \in {"business", "reseller"}, ToggleOrganization(o) PROVE IInv'
  <2>1. ChangeScope /\ ScopeOK' /\ PlansKept
    BY <1>1, <1>2, <1>4 DEF ToggleOrganization, ScopeOK, PlansKept
  <2>2. QED
    BY <2>1, ScopeSafe
<1>5. ASSUME NEW administrators \in SUBSET Users, MoveBusiness(administrators) PROVE IInv'
  <2>1. ChangeScope /\ ScopeOK' /\ PlansKept
    BY <1>1, <1>5 DEF MoveBusiness, ScopeOK, PlansKept
  <2>2. QED
    BY <2>1, ScopeSafe
<1>6. ASSUME NEW plan \in Plans, ToggleOpen(plan) PROVE IInv'
  <2>1. ChangeScope /\ ScopeOK' /\ PlansKept
    BY <1>1, <1>2, <1>6 DEF ToggleOpen, ScopeOK, PlansKept
  <2>2. QED
    BY <2>1, ScopeSafe
<1>7. ASSUME NEW plan \in Plans, ToggleContract(plan) PROVE IInv'
  <2>1. ChangeScope /\ ScopeOK' /\ PlansKept
    BY <1>1, <1>2, <1>7 DEF ToggleContract, ScopeOK, PlansKept
  <2>2. QED
    BY <2>1, ScopeSafe
<1>8. ASSUME NEW plan \in Plans, UpdatePlan(plan) PROVE IInv'
  <2>1. ChangeScope /\ ScopeOK'
    BY <1>1, <1>2, <1>8 DEF UpdatePlan, ScopeOK
  <2>2. PlansKept
    BY <1>8 DEF UpdatePlan, PlansKept, Flip
  <2>3. QED
    BY <2>1, <2>2, ScopeSafe
<1>9. ASSUME NEW v \in Versions, PublishVersion(v) PROVE IInv'
  <2>1. ChangeScope /\ ScopeOK' /\ PlansKept
    BY <1>1, <1>9 DEF PublishVersion, ScopeOK, PlansKept
  <2>2. QED
    BY <2>1, ScopeSafe
<1>10. QED
  BY <1>3, <1>4, <1>5, <1>6, <1>7, <1>8, <1>9 DEF Surroundings

LEMMA Stutter == ASSUME IInv, UNCHANGED vars PROVE IInv'
<1>1. /\ TypeOK
      /\ UNCHANGED <<policy, beneficiaries, policyLock, memberLock, versionLock, planLock, pc, req, reads,
                     witnessed>>
      /\ UNCHANGED <<grants, live, sameReseller, open, contracted, published, autoRenew>>
  BY DEF IInv, vars, locks, scope
<1>2. TypeOK'
  BY <1>1 DEF TypeOK, Issued
<1>3. ASSUME NEW q \in Requests PROVE RequestOK(q)'
  BY <1>1, Kept DEF IInv, Issued, Renewed
<1>4. QED
  BY <1>2, <1>3 DEF IInv

-----------------------------------------------------------------------------
LEMMA StepIInv == ASSUME IInv, [Next]_vars PROVE IInv'
<1>1. ASSUME NEW r \in Requests, Arrival(r) PROVE IInv'
  <2> DEFINE ByUser(u) ==
          \/ \E m \in Members, plan \in Plans, start \in StartDates,
                explicit \in ExplicitEnds \cup {None}, override, reason \in BOOLEAN :
                CreateEnrollment(r, u, m, plan, start, explicit, override, reason)
          \/ \E p \in Policies :
                \/ RenewEnrollment(r, u, p)
                \/ \E status \in Statuses : TransitionEnrollment(r, u, p, status)
                \/ AddBeneficiary(r, u, p)
  <2>1. \/ \E u \in Users : ByUser(u)
        \/ \E v \in Versions : EditCoverage(r, v) \/ EditDraft(r, v)
    BY <1>1 DEF Arrival
  <2>2. ASSUME NEW u \in Users, NEW m \in Members, NEW plan \in Plans, NEW start \in StartDates,
               NEW explicit \in ExplicitEnds \cup {None}, NEW override \in BOOLEAN,
               NEW reason \in BOOLEAN,
               CreateEnrollment(r, u, m, plan, start, explicit, override, reason)
        PROVE  IInv'
    BY <2>2, CreateStep
  <2>3. ASSUME NEW u \in Users, NEW p \in Policies,
               \/ RenewEnrollment(r, u, p)
               \/ \E status \in Statuses : TransitionEnrollment(r, u, p, status)
               \/ AddBeneficiary(r, u, p)
        PROVE  IInv'
    BY <2>3, RenewStep, TransitionStep, BeneficiaryStep
  <2>4. ASSUME NEW u \in Users, ByUser(u) PROVE IInv'
    BY <2>2, <2>3, <2>4
  <2> HIDE DEF ByUser
  <2>5. QED
    BY <2>1, <2>4, CatalogArrival
<1>2. ASSUME NEW r \in Requests, Statement(r) PROVE IInv'
  BY <1>2, LockPolicyStep, LockMemberStep, LockPlanStep, CheckTransitionStep,
     UpdateStatusStep, CheckBeneficiaryStep, InsertBeneficiaryStep, CheckRenewalStep, FindStep,
     FindVersionStep, FindExceptionStep, InsertPolicyStep, ShareStep, CommitPolicyStep,
     LockVersionStep, EndCatalogStep, AbortStep
  DEF Statement
<1>3. QED
  BY <1>1, <1>2, CrashStep, SurroundingsStep, Stutter DEF Next, Quiescent

LEMMA Invariance == Spec => []IInv
<1>1. Init => IInv
  BY InitIInv
<1>2. IInv /\ [Next]_vars => IInv'
  BY StepIInv
<1>3. QED
  BY <1>1, <1>2, PTL DEF Spec

\* The rows, the locks and what every request has read keep their shape, and an
\* issued row always ends after it starts.
THEOREM TypeCorrect == Spec => []TypeOK
<1>1. IInv => TypeOK
  BY DEF IInv
<1>2. QED
  BY <1>1, Invariance, PTL

\* For any number of requests, policies and plans: no request fails on a trigger,
\* but when the business is reassigned meanwhile or the end is after MAXYEAR.
THEOREM SilentBackstops == Spec => []BackstopsStaySilent
<1>1. IInv => BackstopsStaySilent
  BY DEF IInv, RequestOK, ErrorOK, BackstopsStaySilent
<1>2. QED
  BY <1>1, Invariance, PTL

\* Whatever changes around create_enrollment: a Poliza issued without exception
\* met each condition at some instant of its request, and so did every actor.
THEOREM SeenEligibility == Spec => []EligibilityWasSeen
<1>1. IInv => EligibilityWasSeen
  BY DEF IInv, RequestOK, SeenOK, EligibilityWasSeen
<1>2. QED
  BY <1>1, Invariance, PTL

-----------------------------------------------------------------------------
(* Which steps write rows, and the refinement.                             *)

\* Only three statements change rows or evidence.
LEMMA Writers ==
    ASSUME [Next]_vars
    PROVE  \/ UNCHANGED <<policy, audit>>
           \/ \E r \in Requests :
                \/ UpdateStatus(r) /\ pc[r] = "update"
                \/ InsertBeneficiary(r)
                \/ \E p \in Policies : CommitPolicy(r, p)
<1> DEFINE still == UNCHANGED <<policy, audit>>
<1>1. \A r, why : Refuse(r, why) => still
  BY DEF Refuse
<1>2. \A r, read, next : Continue(r, read, next) => still
  BY DEF Continue
<1>3. \A r, request, first : Arrive(r, request, first) => still
  BY DEF Arrive
<1>4. ChangeScope => still
  BY DEF ChangeScope
<1> HIDE DEF still
<1>5. ASSUME NEW r \in Requests, Arrival(r) PROVE still
  BY <1>3, <1>5 DEF Arrival, CreateEnrollment, RenewEnrollment, TransitionEnrollment,
                    AddBeneficiary, EditCoverage, EditDraft
<1>6. ASSUME NEW r \in Requests, Statement(r)
      PROVE  still \/ UpdateStatus(r) \/ InsertBeneficiary(r)
                   \/ \E p \in Policies : CommitPolicy(r, p)
  <2>1. LockPolicy(r) \/ LockMember(r) \/ LockVersion(r) \/ LockPlan(r) => still
    BY DEF LockPolicy, LockMember, LockVersion, LockPlan, still
  <2>2. CheckTransition(r) \/ CheckBeneficiary(r) \/ CheckRenewal(r) => still
    BY <1>1, <1>2 DEF CheckTransition, CheckBeneficiary, CheckRenewal
  <2>3. FindMember(r) \/ FindPlan(r) \/ FindBusiness(r) \/ FindContract(r) => still
    BY <1>1, <1>2 DEF FindMember, FindPlan, FindBusiness, FindContract
  <2>4. FindVersion(r) \/ FindException(r) => still
    BY <1>1, <1>2 DEF FindVersion, FindException
  <2>5. InsertPolicy(r) \/ ShareBusiness(r) \/ ShareMember(r) \/ DeadlockAbort(r) => still
    BY <1>1, <1>2 DEF InsertPolicy, ShareBusiness, ShareMember, DeadlockAbort
  <2>6. EndCatalog(r) => still
    BY DEF EndCatalog, Commit, still
  <2>7. QED
    BY <1>6, <2>1, <2>2, <2>3, <2>4, <2>5, <2>6 DEF Statement
<1>7. Surroundings => still
  BY <1>4 DEF Surroundings, GrantOrRevoke, ToggleOrganization, MoveBusiness, ToggleOpen,
              ToggleContract, UpdatePlan, PublishVersion
<1>8. UNCHANGED vars => still
  BY DEF vars, still
<1>9. \A r : UpdateStatus(r) => pc[r] = "update"
  BY DEF UpdateStatus
<1>10. QED
  BY <1>1, <1>5, <1>6, <1>7, <1>8, <1>9 DEF Next, Quiescent, Crash, still

\* A status is written over an issued row, and its evidence says so.
LEMMA UpdateWrites ==
    ASSUME IInv, NEW r \in Requests, UpdateStatus(r)
    PROVE  /\ policy' = [policy EXCEPT ![req[r].policy].status = req[r].target]
           /\ audit' = audit \cup {[Event(r, "enrollment.transitioned", req[r].policy) EXCEPT
                                      !.from = policy[req[r].policy].status, !.to = req[r].target]}
<1>1. pc[r] = "update"
  BY DEF UpdateStatus
<1>2. QED
  BY <1>1, UpdateFinds DEF UpdateStatus, Commit

\* The terms and the log that Lifecycle sees.
terms == [p \in Policies |-> Term(policy[p])]

log == {[policy |-> e.policy, request |-> e.request, from |-> e.from, to |-> e.to] :
          e \in {f \in audit : f.action = "enrollment.transitioned"}}

\* What Lifecycle sees of a row.
LEMMA TermOf ==
    ASSUME NEW row
    PROVE  /\ Term(row).status = row.status /\ Term(row).holder = row.member
           /\ Term(row).start = row.start /\ Term(row).end = row.end
           /\ Term(row).preceding = row.preceding
           /\ row # NoPolicy => Term(row).product = VersionTerms[row.version].plan
BY DEF Term

\* Evidence of other kinds is not in the log.
LEMMA OtherEvidence ==
    ASSUME NEW events, audit' = audit \cup events,
           \A e \in events : e.action # "enrollment.transitioned"
    PROVE  log' = log
<1>1. {f \in audit' : f.action = "enrollment.transitioned"}
        = {f \in audit : f.action = "enrollment.transitioned"}
  OBVIOUS
<1>2. QED
  BY <1>1 DEF log

LEMMA InitLifecycle == Init => Lifecycle!Init
<1> SUFFICES ASSUME Init PROVE Lifecycle!Init
  OBVIOUS
<1>1. policy \in Starts /\ {f \in audit : f.action = "enrollment.transitioned"} = {}
  BY DEF Init
<1>2. terms \in {[p \in Policies |-> Term(rows[p])] : rows \in Starts}
  BY <1>1 DEF terms
<1>3. log = {}
  BY <1>1 DEF log
<1>4. QED
  BY <1>2, <1>3 DEF Lifecycle!Init, terms, log

\* A transition is a move along an edge, and its evidence is the log's.
LEMMA UpdateMoves ==
    ASSUME IInv, NEW r \in Requests, UpdateStatus(r)
    PROVE  \E p \in Policies : Lifecycle!Move(p)
<1> PICK p : p = req[r].policy
  OBVIOUS
<1> PICK to : to = req[r].target
  OBVIOUS
<1> PICK from : from = policy[p].status
  OBVIOUS
<1>1. /\ TypeOK /\ pc[r] = "update" /\ p \in Policies /\ policy[p] \in Row
      /\ TriggerAllows(from, to) /\ to \in Statuses
      /\ policy' = [policy EXCEPT ![p].status = to]
  BY UpdateFinds, UpdateWrites DEF UpdateStatus, IInv
<1>2. policy \in [Policies -> Row \cup {NoPolicy}]
  BY <1>1 DEF TypeOK
<1>3. policy' = [policy EXCEPT ![p] = policy'[p]]
  BY <1>1, <1>2
<1>4. /\ policy'[p].status = to /\ policy'[p].member = policy[p].member
      /\ policy'[p].version = policy[p].version /\ policy'[p].preceding = policy[p].preceding
      /\ policy'[p].start = policy[p].start /\ policy'[p].end = policy[p].end
      /\ policy'[p] # NoPolicy /\ policy[p] # NoPolicy
  BY <1>1, <1>2 DEF Row, NoPolicy, Statuses
<1>5. Term(policy'[p]) = [Term(policy[p]) EXCEPT !.status = to]
  BY <1>4 DEF Term
<1>6. terms' = [terms EXCEPT ![p].status = to]
  <2>1. \A q \in Policies \ {p} : policy'[q] = policy[q]
    BY <1>2, <1>3
  <2>2. \A q \in Policies : terms'[q] = IF q = p THEN [terms[p] EXCEPT !.status = to] ELSE terms[q]
    BY <1>1, <1>5, <2>1 DEF terms
  <2>3. QED
    BY <1>1, <2>2 DEF terms
<1>7. terms[p].status = from /\ terms'[p].status = to
  BY <1>1, <1>4, TermOf DEF terms
<1>8. log' = log \cup {[policy |-> p, request |-> r, from |-> from, to |-> to]}
  <2> PICK event : event = [Event(r, "enrollment.transitioned", p) EXCEPT !.from = from, !.to = to]
    OBVIOUS
  <2>1. audit' = audit \cup {event}
    BY UpdateWrites
  <2>2. /\ event.action = "enrollment.transitioned" /\ event.policy = p /\ event.request = r
        /\ event.from = from /\ event.to = to
    BY DEF Event
  <2>3. {f \in audit' : f.action = "enrollment.transitioned"}
          = {f \in audit : f.action = "enrollment.transitioned"} \cup {event}
    BY <2>1, <2>2
  <2> PICK old : old = {f \in audit : f.action = "enrollment.transitioned"}
    OBVIOUS
  <2>4. log = {[policy |-> e.policy, request |-> e.request, from |-> e.from, to |-> e.to] :
                  e \in old}
    BY DEF log
  <2>5. log' = {[policy |-> e.policy, request |-> e.request, from |-> e.from, to |-> e.to] :
                  e \in old \cup {event}}
    BY <2>3 DEF log
  <2>6. log' = log \cup {[policy |-> event.policy, request |-> event.request,
                         from |-> event.from, to |-> event.to]}
    BY <2>4, <2>5
  <2>7. QED
    BY <2>2, <2>6
<1>9. <<from, to>> \in Lifecycle!Edges
  BY <1>1 DEF TriggerAllows, Lifecycle!Edges
<1>10. Lifecycle!Move(p)
  BY <1>6, <1>7, <1>8, <1>9 DEF Lifecycle!Move, terms, log
<1>11. QED
  BY <1>1, <1>10

\* A creation issues a term, which continues the one it renews.
LEMMA InsertIssues ==
    ASSUME IInv, NEW r \in Requests, NEW p \in Policies, CommitPolicy(r, p)
    PROVE  Lifecycle!Issue(p)
<1> PICK new : new = NewPolicy(r)
  OBVIOUS
<1>1. /\ TypeOK /\ KindOK(r) /\ HoldsOK(r) /\ pc[r] = "versionKey" /\ pc[r] \in Storing /\ ~Issued(p)
      /\ req[r].op \in {"create", "renew"}
      /\ policy' = [policy EXCEPT ![p] = new] /\ audit' = audit \cup CreationEvents(r, p)
  BY DEF CommitPolicy, Commit, IInv, RequestOK, PlaceOK, Creation, Storing, Committing
<1>2. /\ policy \in [Policies -> Row \cup {NoPolicy}] /\ policy'[p] = new
      /\ \A q \in Policies \ {p} : policy'[q] = policy[q]
  BY <1>1 DEF TypeOK
<1>3. /\ new \in Row /\ new # NoPolicy /\ new.status = "pending_payment"
      /\ new.member = req[r].member /\ VersionTerms[new.version].plan = req[r].plan
      /\ new.start = req[r].start /\ new.preceding = req[r].policy
      /\ req[r].plan \in Plans /\ Before(new.start, new.end)
      /\ ~(req[r].policy # None /\ Renewed(req[r].policy))
  <2>1. Before(req[r].start, EndDate(r)) /\ (req[r].op = "renew" => ~Renewed(req[r].policy))
    BY <1>1 DEF HoldsOK, Committing
  <2>2. req[r].op = "create" => req[r].policy = None
    BY <1>1 DEF KindOK
  <2>3. QED
    BY <1>1, <2>1, <2>2, NewRow DEF NoPolicy, KindOK
<1>4. /\ Term(new).status = "pending_payment" /\ Term(new).holder = req[r].member
      /\ Term(new).product = req[r].plan /\ Term(new).preceding = req[r].policy
      /\ Term(new).start = req[r].start /\ Term(new).end = new.end
  BY <1>3, TermOf
<1>5. req[r].member \in Members
  BY <1>3 DEF Row
<1>6. terms' = [terms EXCEPT ![p] = Term(new)] /\ terms'[p] = Term(new)
  BY <1>2 DEF terms
<1>7. ~Lifecycle!Issued(p)
  BY <1>1, TermOf DEF Lifecycle!Issued, Issued
<1>8. ASSUME req[r].policy # None
      PROVE  /\ Lifecycle!Issued(req[r].policy) /\ ~Lifecycle!Renewed(req[r].policy)
             /\ terms[req[r].policy].holder = req[r].member
             /\ terms[req[r].policy].product = req[r].plan
             /\ terms[req[r].policy].end = req[r].start
  <2>1. /\ req[r].policy \in Policies /\ Issued(req[r].policy)
        /\ policy[req[r].policy].member = req[r].member
        /\ policy[req[r].policy].end = req[r].start /\ PlanOf(req[r].policy) = req[r].plan
    BY <1>1, <1>8 DEF KindOK
  <2>2. policy[req[r].policy] # NoPolicy
    BY <2>1 DEF Issued, NoPolicy
  <2>3. ~Renewed(req[r].policy)
    BY <1>3, <1>8
  <2>4. QED
    BY <2>1, <2>2, <2>3, TermOf
    DEF terms, Lifecycle!Issued, Lifecycle!Renewed, Issued, Renewed, PlanOf
<1>9. log' = log
  <2>1. \A e \in CreationEvents(r, p) : e.action # "enrollment.transitioned"
    BY DEF CreationEvents, Event
  <2>2. QED
    BY <1>1, <2>1, OtherEvidence
<1>10. QED
  BY <1>3, <1>4, <1>5, <1>6, <1>7, <1>8, <1>9 DEF Lifecycle!Issue, terms, log

LEMMA StepLifecycle == IInv /\ [Next]_vars => [Lifecycle!Next]_<<terms, log>>
<1> SUFFICES ASSUME IInv, [Next]_vars
             PROVE  Lifecycle!Next \/ UNCHANGED <<terms, log>>
  OBVIOUS
<1>1. CASE UNCHANGED <<policy, audit>>
  BY <1>1 DEF terms, log
<1>2. ASSUME NEW r \in Requests, UpdateStatus(r) PROVE Lifecycle!Next
  BY <1>2, UpdateMoves DEF Lifecycle!Next
<1>3. ASSUME NEW r \in Requests, InsertBeneficiary(r) PROVE UNCHANGED <<terms, log>>
  <2> PICK events : events = {Event(r, "enrollment.beneficiary_added", req[r].policy)}
    OBVIOUS
  <2>1. policy' = policy /\ audit' = audit \cup events
    BY <1>3 DEF InsertBeneficiary, Commit
  <2>2. \A e \in events : e.action # "enrollment.transitioned"
    BY DEF Event
  <2>3. log' = log
    BY <2>1, <2>2, OtherEvidence
  <2>4. QED
    BY <2>1, <2>3 DEF terms
<1>4. ASSUME NEW r \in Requests, NEW p \in Policies, CommitPolicy(r, p) PROVE Lifecycle!Next
  BY <1>4, InsertIssues DEF Lifecycle!Next
<1>5. QED
  BY <1>1, <1>2, <1>3, <1>4, Writers

\* For any number of requests, members, plans and keys, the rows and the evidence
\* of transitions behave as the abstract lifecycle: terms fixed when issued, one
\* renewal without a gap, statuses along the edges, each with its evidence.
THEOREM Refinement == Spec => ImplementsLifecycle
<1>1. Init => Lifecycle!Init
  BY InitLifecycle
<1>2. IInv /\ [Next]_vars => [Lifecycle!Next]_<<terms, log>>
  BY StepLifecycle
<1>3. QED
  BY <1>1, <1>2, Invariance, PTL DEF Spec, ImplementsLifecycle, Lifecycle!Spec, terms, log

-----------------------------------------------------------------------------
(* Progress.  That requests are answered rests on two facts: nothing can    *)
(* keep a request busy for ever, and requests never all wait.               *)

\* Statements a request has ahead of it, the one it runs next included, at most.
AheadAt(op, statement) ==
    CASE statement = "lockPolicy" -> 15
      [] statement = "lockMember" -> 14
      [] statement = "lockVersion" -> IF op = "edit_draft" THEN 2 ELSE 13
      [] statement = "lockPlan" -> 12
      [] statement = "renewChecks" -> 11
      [] statement = "member" -> 10
      [] statement = "plan" -> 9
      [] statement = "business" -> 8
      [] statement = "contract" -> 7
      [] statement = "version" -> 6
      [] statement = "exception" -> 5
      [] statement = "insert" -> 4
      [] statement = "businessKey" -> 3
      [] statement \in {"memberKey", "transitionChecks", "beneficiary"} -> 2
      [] statement \in {"versionKey", "update", "addBeneficiary", "catalog"} -> 1
      [] OTHER -> 0

Ahead(r) == AheadAt(req[r].op, pc[r])

\* Every statement brings its request closer to an answer, and nothing that
\* other requests or the surroundings do takes a request further from it or
\* reopens one that was answered: no request has more than fifteen statements.
StatementsRunOut ==
    [][\A r \in Requests :
          /\ Statement(r) \/ Crash(r) => Ahead(r)' < Ahead(r)
          /\ pc[r] # "idle" => Ahead(r)' < Ahead(r) \/ pc'[r] = pc[r]
          /\ pc[r] \in Answered => pc'[r] = pc[r]]_vars

\* Statements that only read.
Reading(a, b) ==
    \/ a = "transitionChecks" /\ b = "update"
    \/ a = "beneficiary" /\ b = "addBeneficiary"
    \/ a = "renewChecks" /\ b = "member"
    \/ a = "member" /\ b = "plan"
    \/ a = "plan" /\ b \in {"business", "exception"}
    \/ a = "business" /\ b \in {"contract", "exception"}
    \/ a = "contract" /\ b \in {"version", "exception"}
    \/ a = "version" /\ b \in {"insert", "exception"}
    \/ a = "exception" /\ b = "insert"
    \/ a = "insert" /\ b = "businessKey"
    \/ a = "businessKey" /\ b = "memberKey"
    \/ a = "memberKey" /\ b = "versionKey"

Locking(r) == LockPolicy(r) \/ LockMember(r) \/ LockVersion(r) \/ LockPlan(r)

\* The statements that end with COMMIT.
Committers == {"versionKey", "update", "addBeneficiary", "catalog"}

\* What a statement does to its request and to the locks: it locks a row, reads
\* and goes on, or ends the transaction.
LEMMA StatementEffect ==
    ASSUME IInv, NEW r \in Requests, Statement(r) \/ Crash(r)
    PROVE  /\ req' = req /\ pc[r] \in Working
           /\ \A q \in Requests \ {r} : pc'[q] = pc[q]
           /\ \/ Locking(r)
              \/ Reading(pc[r], pc'[r]) /\ UNCHANGED locks
              \/ Release(r) /\ pc'[r] \in Answered /\ (pc'[r] = "ok" => pc[r] \in Committers)
<1> DEFINE Effect ==
      /\ req' = req /\ pc[r] \in Working
      /\ \A q \in Requests \ {r} : pc'[q] = pc[q]
      /\ \/ Locking(r)
         \/ Reading(pc[r], pc'[r]) /\ UNCHANGED locks
         \/ Release(r) /\ pc'[r] \in Answered /\ (pc'[r] = "ok" => pc[r] \in Committers)
<1>1. pc \in [Requests -> {"idle"} \cup Working \cup Answered]
  BY DEF IInv, TypeOK
<1>2. ASSUME NEW why \in Answered \ {"ok"}, Refuse(r, why), pc[r] \in Working PROVE Effect
  BY <1>1, <1>2 DEF Refuse
<1>3. ASSUME NEW read, NEW next, Continue(r, read, next), pc[r] \in Working,
             Reading(pc[r], next)
      PROVE  Effect
  BY <1>1, <1>3 DEF Continue
<1>4. ASSUME NEW newPolicy, NEW newBeneficiaries, NEW events, pc[r] \in Committers,
             Commit(r, newPolicy, newBeneficiaries, events)
      PROVE  Effect
  BY <1>1, <1>4 DEF Commit, Answered, Committers, Working
<1> HIDE DEF Effect
<1>5. ASSUME Locking(r) PROVE Effect
  BY <1>1, <1>5 DEF Locking, LockPolicy, LockMember, LockVersion, LockPlan, Working, Effect
<1>6. ASSUME CheckTransition(r) PROVE Effect
  BY <1>2, <1>3, <1>6 DEF CheckTransition, Working, Answered, Reading
<1>7. ASSUME UpdateStatus(r) PROVE Effect
  BY <1>2, <1>4, <1>7 DEF UpdateStatus, Working, Answered, Committers
<1>8. ASSUME CheckBeneficiary(r) PROVE Effect
  BY <1>2, <1>3, <1>8 DEF CheckBeneficiary, Working, Answered, Reading
<1>9. ASSUME InsertBeneficiary(r) \/ EndCatalog(r) PROVE Effect
  BY <1>4, <1>9 DEF InsertBeneficiary, EndCatalog, Committers
<1>10. ASSUME CheckRenewal(r) PROVE Effect
  BY <1>2, <1>3, <1>10 DEF CheckRenewal, Working, Answered, Reading
<1>11. ASSUME FindMember(r) PROVE Effect
  BY <1>2, <1>3, <1>11 DEF FindMember, Working, Answered, Reading
<1>12. ASSUME FindPlan(r) \/ FindBusiness(r) \/ FindContract(r) PROVE Effect
  BY <1>3, <1>12 DEF FindPlan, FindBusiness, FindContract, Working, Reading
<1>13. ASSUME FindVersion(r) PROVE Effect
  BY <1>3, <1>13 DEF FindVersion, Working, Reading
<1>14. ASSUME FindException(r) PROVE Effect
  BY <1>2, <1>3, <1>14 DEF FindException, Working, Answered, Reading
<1>15. ASSUME InsertPolicy(r) PROVE Effect
  <2>1. InsertRefusal(r) \in {"none", "invalid", "error"}
    BY DEF InsertRefusal
  <2>2. QED
    BY <1>2, <1>3, <1>15, <2>1 DEF InsertPolicy, Working, Answered, Reading
<1>16. ASSUME ShareBusiness(r) \/ ShareMember(r) PROVE Effect
  BY <1>3, <1>16 DEF ShareBusiness, ShareMember, Working, Reading
<1>17. ASSUME NEW p \in Policies, CommitPolicy(r, p) PROVE Effect
  BY <1>4, <1>17 DEF CommitPolicy, Committers
<1>18. ASSUME Crash(r) \/ DeadlockAbort(r) PROVE Effect
  <2>1. pc[r] \in Working
    BY <1>18, CycleWorks DEF Crash, DeadlockAbort
  <2>2. QED
    BY <1>2, <1>18, <2>1 DEF Crash, DeadlockAbort, Answered
<1>19. Effect
  BY <1>5, <1>6, <1>7, <1>8, <1>9, <1>10, <1>11, <1>12, <1>13, <1>14, <1>15, <1>16, <1>17, <1>18
  DEF Statement, Locking
<1>20. QED
  BY <1>19 DEF Effect

\* Where a request may begin.
Begins(request, first) ==
    /\ first \in {"member", "lockPolicy", "beneficiary", "lockVersion", "lockPlan"}
    /\ first = "member" => request.op = "create"
    /\ first = "lockVersion" => request.op = "edit_coverage"
    /\ first = "lockPlan" => request.op = "edit_draft"
    /\ request.op \in {"create", "renew"} => KeysLeft

\* A request arrives at the first statement of its operation.
LEMMA ArrivalEffect ==
    ASSUME IInv, NEW r \in Requests, Arrival(r)
    PROVE  /\ UNCHANGED <<locks, policy>> /\ pc[r] = "idle"
           /\ Begins(req'[r], pc'[r])
           /\ \A q \in Requests \ {r} : pc'[q] = pc[q] /\ req'[q] = req[q]
<1>1. DOMAIN pc = Requests /\ DOMAIN req = Requests
  BY DEF IInv, TypeOK
<1>2. ASSUME NEW request, NEW first, Arrive(r, request, first), Begins(request, first)
      PROVE  /\ UNCHANGED <<locks, policy>> /\ pc[r] = "idle"
             /\ Begins(req'[r], pc'[r])
             /\ \A q \in Requests \ {r} : pc'[q] = pc[q] /\ req'[q] = req[q]
  <2>1. req'[r] = request /\ pc'[r] = first
    BY <1>1, <1>2 DEF Arrive
  <2>2. QED
    BY <1>1, <1>2, <2>1 DEF Arrive
<1>3. ASSUME NEW u, NEW m, NEW plan, NEW start, NEW explicit, NEW override, NEW reason,
             CreateEnrollment(r, u, m, plan, start, explicit, override, reason)
      PROVE  \E request : Arrive(r, request, "member") /\ Begins(request, "member")
  <2> DEFINE request == [NoRequest EXCEPT !.op = "create", !.actor = u, !.member = m,
                           !.plan = plan, !.start = start, !.explicit = explicit,
                           !.override = override, !.reason = reason]
  <2>1. Arrive(r, request, "member") /\ KeysLeft
    BY <1>3 DEF CreateEnrollment
  <2>2. request.op = "create"
    BY DEF NoRequest
  <2> HIDE DEF request
  <2>3. QED
    BY <2>1, <2>2 DEF Begins
<1>4. ASSUME NEW u, NEW p, RenewEnrollment(r, u, p)
      PROVE  \E request : Arrive(r, request, "lockPolicy") /\ Begins(request, "lockPolicy")
  BY <1>4 DEF RenewEnrollment, Begins
<1>5. ASSUME NEW u, NEW p, NEW status, TransitionEnrollment(r, u, p, status)
      PROVE  \E request : Arrive(r, request, "lockPolicy") /\ Begins(request, "lockPolicy")
  <2> DEFINE request == [NoRequest EXCEPT !.op = "transition", !.actor = u, !.policy = p,
                           !.member = policy[p].member, !.target = status]
  <2>1. Arrive(r, request, "lockPolicy")
    BY <1>5 DEF TransitionEnrollment
  <2>2. request.op = "transition"
    BY DEF NoRequest
  <2> HIDE DEF request
  <2>3. QED
    BY <2>1, <2>2 DEF Begins
<1>6. ASSUME NEW u, NEW p, AddBeneficiary(r, u, p)
      PROVE  \E request : Arrive(r, request, "beneficiary") /\ Begins(request, "beneficiary")
  <2> DEFINE request == [NoRequest EXCEPT !.op = "add_beneficiary", !.actor = u,
                           !.policy = p, !.member = policy[p].member]
  <2>1. Arrive(r, request, "beneficiary")
    BY <1>6 DEF AddBeneficiary
  <2>2. request.op = "add_beneficiary"
    BY DEF NoRequest
  <2> HIDE DEF request
  <2>3. QED
    BY <2>1, <2>2 DEF Begins
<1>7. ASSUME NEW v, EditCoverage(r, v)
      PROVE  \E request : Arrive(r, request, "lockVersion") /\ Begins(request, "lockVersion")
  <2> DEFINE request == [NoRequest EXCEPT !.op = "edit_coverage", !.version = v,
                           !.plan = VersionTerms[v].plan]
  <2>1. Arrive(r, request, "lockVersion")
    BY <1>7 DEF EditCoverage
  <2>2. request.op = "edit_coverage"
    BY DEF NoRequest
  <2> HIDE DEF request
  <2>3. QED
    BY <2>1, <2>2 DEF Begins
<1>8. ASSUME NEW v, EditDraft(r, v)
      PROVE  \E request : Arrive(r, request, "lockPlan") /\ Begins(request, "lockPlan")
  <2> DEFINE request == [NoRequest EXCEPT !.op = "edit_draft", !.version = v,
                           !.plan = VersionTerms[v].plan]
  <2>1. Arrive(r, request, "lockPlan")
    BY <1>8 DEF EditDraft
  <2>2. request.op = "edit_draft"
    BY DEF NoRequest
  <2> HIDE DEF request
  <2>3. QED
    BY <2>1, <2>2 DEF Begins
<1>9. \E request, first : Arrive(r, request, first) /\ Begins(request, first)
  <2>1. CASE \E u \in Users, m \in Members, plan \in Plans, start \in StartDates,
                explicit \in ExplicitEnds \cup {None}, override, reason \in BOOLEAN :
                CreateEnrollment(r, u, m, plan, start, explicit, override, reason)
    BY <1>3, <2>1
  <2>2. CASE \E u \in Users, p \in Policies : RenewEnrollment(r, u, p)
    BY <1>4, <2>2
  <2>3. CASE \E u \in Users, p \in Policies, status \in Statuses :
                TransitionEnrollment(r, u, p, status)
    BY <1>5, <2>3
  <2>4. CASE \E u \in Users, p \in Policies : AddBeneficiary(r, u, p)
    BY <1>6, <2>4
  <2>5. CASE \E v \in Versions : EditCoverage(r, v) \/ EditDraft(r, v)
    BY <1>7, <1>8, <2>5
  <2>6. QED
    BY <2>1, <2>2, <2>3, <2>4, <2>5 DEF Arrival
<1>10. QED
  BY <1>2, <1>9

LEMMA ReadingDescends ==
    ASSUME NEW op, NEW a, NEW b, Reading(a, b)
    PROVE  AheadAt(op, b) < AheadAt(op, a)
BY DEF Reading, AheadAt

LEMMA StatementDescends ==
    ASSUME IInv, NEW r \in Requests, Statement(r) \/ Crash(r)
    PROVE  Ahead(r)' < Ahead(r)
<1>1. pc \in [Requests -> {"idle"} \cup Working \cup Answered] /\ PlaceOK(r) /\ req' = req
  BY StatementEffect DEF IInv, TypeOK, RequestOK
<1>2. CASE LockPolicy(r)
  BY <1>1, <1>2 DEF LockPolicy, AfterLock, Ahead, AheadAt
<1>3. CASE LockMember(r)
  BY <1>1, <1>3 DEF LockMember, AfterLock, Ahead, AheadAt, PlaceOK
<1>4. CASE LockVersion(r)
  BY <1>1, <1>4 DEF LockVersion, AfterLock, Ahead, AheadAt
<1>5. CASE LockPlan(r)
  BY <1>1, <1>5 DEF LockPlan, AfterLock, Ahead, AheadAt
<1>6. CASE Reading(pc[r], pc'[r])
  BY <1>1, <1>6, ReadingDescends DEF Ahead
<1>7. CASE pc'[r] \in Answered
  <2>1. Ahead(r)' = 0
    BY <1>7 DEF Ahead, AheadAt, Answered
  <2>2. pc[r] \in Working
    BY StatementEffect
  <2>3. Ahead(r) > 0
    BY <2>2 DEF Ahead, AheadAt, Working
  <2>4. QED
    BY <2>1, <2>3
<1>8. QED
  BY <1>2, <1>3, <1>4, <1>5, <1>6, <1>7, StatementEffect DEF Locking

LEMMA SurroundingsAlone ==
    ASSUME Surroundings \/ Quiescent \/ UNCHANGED vars
    PROVE  UNCHANGED <<policy, locks, pc, req>>
BY DEF Surroundings, GrantOrRevoke, ToggleOrganization, MoveBusiness, ToggleOpen,
   ToggleContract, UpdatePlan, PublishVersion, ChangeScope, Quiescent, vars

\* A request is done with the COMMIT of one of four statements.
LEMMA WhoCommits ==
    ASSUME IInv, [Next]_vars, NEW r \in Requests, pc[r] # "ok", pc'[r] = "ok"
    PROVE  pc[r] \in Committers
<1>1. ~(Surroundings \/ Quiescent \/ UNCHANGED vars)
  BY SurroundingsAlone
<1>2. PICK q \in Requests : Arrival(q) \/ Statement(q) \/ Crash(q)
  BY <1>1 DEF Next
<1>3. q = r
  BY <1>2, ArrivalEffect, StatementEffect
<1>4. ~Arrival(r)
  BY ArrivalEffect DEF Begins
<1>5. CASE Locking(r)
  <2>1. pc \in [Requests -> {"idle"} \cup Working \cup Answered]
    BY DEF IInv, TypeOK
  <2>2. QED
    BY <1>5, <2>1 DEF Locking, LockPolicy, LockMember, LockVersion, LockPlan, AfterLock
<1>6. QED
  BY <1>2, <1>3, <1>4, <1>5, StatementEffect DEF Reading

\* A renewal commits with the flag and the version its plan has at that moment,
\* for any publications and updates around renew_enrollment.
THEOREM CurrentRenewals == Spec => RenewalsAreCurrent
<1> DEFINE current ==
      \A r \in Requests :
          req[r].op = "renew" /\ pc[r] # "ok" /\ pc'[r] = "ok" =>
              /\ req[r].plan \in autoRenew
              /\ reads[r].version = Latest(Effective(req[r].plan, req[r].start))
<1>1. ASSUME IInv, [Next]_vars, NEW r \in Requests,
             req[r].op = "renew", pc[r] # "ok", pc'[r] = "ok"
      PROVE  /\ req[r].plan \in autoRenew
             /\ reads[r].version = Latest(Effective(req[r].plan, req[r].start))
  <2>1. PlaceOK(r) /\ HoldsOK(r)
    BY <1>1 DEF IInv, RequestOK
  <2>2. pc[r] \in Committers
    BY <1>1, WhoCommits
  <2>3. pc[r] = "versionKey"
    BY <1>1, <2>1, <2>2 DEF PlaceOK, CatalogOps, Committers
  <2>4. QED
    BY <1>1, <2>1, <2>3 DEF HoldsOK, Storing, Committing, Creation
<1>2. IInv /\ [Next]_vars => [current]_vars
  BY <1>1
<1>3. Spec => [][current]_vars
  BY <1>2, Invariance, PTL DEF Spec
<1>4. QED
  BY <1>3 DEF RenewalsAreCurrent

\* No request can be kept busy for ever.
THEOREM AnswersApproach == Spec => StatementsRunOut
<1>1. IInv /\ [Next]_vars =>
        [\A r \in Requests :
            /\ Statement(r) \/ Crash(r) => Ahead(r)' < Ahead(r)
            /\ pc[r] # "idle" => Ahead(r)' < Ahead(r) \/ pc'[r] = pc[r]
            /\ pc[r] \in Answered => pc'[r] = pc[r]]_vars
  <2> SUFFICES ASSUME IInv, [Next]_vars, NEW r \in Requests
               PROVE  /\ Statement(r) \/ Crash(r) => Ahead(r)' < Ahead(r)
                      /\ pc[r] # "idle" => Ahead(r)' < Ahead(r) \/ pc'[r] = pc[r]
                      /\ pc[r] \in Answered => pc'[r] = pc[r]
    OBVIOUS
  <2>1. Statement(r) \/ Crash(r) => Ahead(r)' < Ahead(r) /\ pc[r] \in Working
    BY StatementDescends, StatementEffect
  <2>2. Arrival(r) => pc[r] = "idle"
    BY ArrivalEffect
  <2>3. ASSUME NEW q \in Requests, q # r, Arrival(q) \/ Statement(q) \/ Crash(q)
        PROVE  pc'[r] = pc[r]
    BY <2>3, ArrivalEffect, StatementEffect
  <2>4. CASE Surroundings \/ Quiescent \/ UNCHANGED vars
    BY <2>1, <2>4, SurroundingsAlone
  <2>5. CASE \E q \in Requests \ {r} : Arrival(q) \/ Statement(q) \/ Crash(q)
    BY <2>1, <2>3, <2>5
  <2>6. CASE Arrival(r) \/ Statement(r) \/ Crash(r)
    BY <2>1, <2>2, <2>6 DEF Working, Answered
  <2>7. QED
    BY <2>4, <2>5, <2>6 DEF Next
<1>2. QED
  BY <1>1, Invariance, PTL DEF Spec, StatementsRunOut

-----------------------------------------------------------------------------
(* Who holds which lock, exactly.  A renewal or a transition takes the row  *)
(* of the enrollment, then the member's; renewals and coverage edits take   *)
(* the version, then the plan; edits of drafts the plan, then the version.  *)

\* Where a renewal holds all it locked.
Renewal == {"renewChecks"} \cup Creation

HasPlan(r) ==
    \/ req[r].op = "renew" /\ pc[r] \in Renewal
    \/ req[r].op = "edit_coverage" /\ pc[r] = "catalog"
    \/ req[r].op = "edit_draft" /\ pc[r] \in {"lockVersion", "catalog"}

HasVersion(r) ==
    \/ req[r].op = "renew" /\ pc[r] \in {"lockPlan"} \cup Renewal
    \/ req[r].op = "edit_coverage" /\ pc[r] \in {"lockPlan", "catalog"}
    \/ req[r].op = "edit_draft" /\ pc[r] = "catalog"

HasMember(r) ==
    \/ req[r].op = "transition" /\ pc[r] \in {"transitionChecks", "update"}
    \/ req[r].op = "renew" /\ pc[r] \in {"lockVersion", "lockPlan"} \cup Renewal

HasPolicy(r) == pc[r] = "lockMember" \/ HasMember(r)

Owned(r) ==
    /\ \A p \in Policies : policyLock[p] = r <=> HasPolicy(r) /\ req[r].policy = p
    /\ \A m \in Members : memberLock[m] = r <=> HasMember(r) /\ req[r].member = m
    /\ \A v \in Versions : versionLock[v] = r <=> HasVersion(r) /\ req[r].version = v
    /\ \A p \in Plans : planLock[p] = r <=> HasPlan(r) /\ req[r].plan = p

OwnedInv == \A r \in Requests : Owned(r)

\* Who has locked nothing.
Empty(r) == ~HasPolicy(r) /\ ~HasMember(r) /\ ~HasVersion(r) /\ ~HasPlan(r)

LEMMA InitOwned == Init => OwnedInv
BY RequestsAssumption DEF Init, OwnedInv, Owned, HasPolicy, HasMember, HasVersion, HasPlan,
   NoRequest

LEMMA OwnedKept ==
    ASSUME NEW r, Owned(r), UNCHANGED locks, HasPolicy(r)' = HasPolicy(r),
           HasMember(r)' = HasMember(r), HasVersion(r)' = HasVersion(r), HasPlan(r)' = HasPlan(r),
           req'[r] = req[r]
    PROVE  Owned(r)'
BY DEF Owned, locks

\* A lock that is taken or released is nobody else's.
LEMMA OthersOwn ==
    ASSUME TypeOK, NEW r \in Requests, NEW q \in Requests, q # r, Owned(q),
           Locking(r) \/ Release(r),
           pc'[q] = pc[q], req'[q] = req[q]
    PROVE  Owned(q)'
<1>1. /\ \A p \in Policies : policyLock'[p] = q <=> policyLock[p] = q
      /\ \A m \in Members : memberLock'[m] = q <=> memberLock[m] = q
      /\ \A v \in Versions : versionLock'[v] = q <=> versionLock[v] = q
      /\ \A p \in Plans : planLock'[p] = q <=> planLock[p] = q
  <2>1. CASE Release(r)
    BY <2>1, RequestsAssumption DEF Release, TypeOK
  <2>2. CASE LockPolicy(r)
    BY <2>2, NobodyElse, RequestsAssumption DEF LockPolicy, TypeOK
  <2>3. CASE LockMember(r)
    BY <2>3, NobodyElse, RequestsAssumption DEF LockMember, TypeOK
  <2>4. CASE LockVersion(r)
    BY <2>4, NobodyElse, RequestsAssumption DEF LockVersion, TypeOK
  <2>5. CASE LockPlan(r)
    BY <2>5, NobodyElse, RequestsAssumption DEF LockPlan, TypeOK
  <2>6. QED
    BY <2>1, <2>2, <2>3, <2>4, <2>5 DEF Locking
<1>2. /\ HasPolicy(q)' = HasPolicy(q) /\ HasMember(q)' = HasMember(q)
      /\ HasVersion(q)' = HasVersion(q) /\ HasPlan(q)' = HasPlan(q)
  BY DEF HasPolicy, HasMember, HasVersion, HasPlan
<1>3. QED
  BY <1>1, <1>2 DEF Owned

LEMMA OwnOwned ==
    ASSUME IInv, NEW r \in Requests, Owned(r), Statement(r) \/ Crash(r)
    PROVE  Owned(r)'
<1>1. /\ req' = req /\ pc \in [Requests -> {"idle"} \cup Working \cup Answered]
      /\ KindOK(r) /\ PlaceOK(r) /\ TypeOK
  BY StatementEffect DEF IInv, TypeOK, RequestOK
<1>2. CASE LockPolicy(r)
  <2>1. /\ pc[r] = "lockPolicy" /\ pc'[r] = "lockMember"
        /\ policyLock' = [policyLock EXCEPT ![req[r].policy] = r]
        /\ UNCHANGED <<memberLock, versionLock, planLock>>
    BY <1>1, <1>2 DEF LockPolicy, AfterLock
  <2>2. Empty(r)
    BY <2>1 DEF Empty, HasPolicy, HasMember, HasVersion, HasPlan, Renewal, Creation, Storing, Committing
  <2>3. HasPolicy(r)' /\ ~HasMember(r)' /\ ~HasVersion(r)' /\ ~HasPlan(r)'
    BY <2>1 DEF HasPolicy, HasMember, HasVersion, HasPlan, Renewal, Creation, Storing, Committing
  <2>4. req[r].policy \in Policies /\ policyLock \in [Policies -> Requests \cup {None}]
    BY <1>1, <2>1 DEF TypeOK, KindOK, PlaceOK
  <2>5. QED
    BY <1>1, <2>1, <2>2, <2>3, <2>4 DEF Owned, Empty
<1>3. CASE LockMember(r)
  <2>1. /\ pc[r] = "lockMember" /\ req[r].op \in {"renew", "transition"}
        /\ pc'[r] = IF req[r].op = "renew" THEN "lockVersion" ELSE "transitionChecks"
        /\ memberLock' = [memberLock EXCEPT ![req[r].member] = r]
        /\ UNCHANGED <<policyLock, versionLock, planLock>>
    BY <1>1, <1>3 DEF LockMember, AfterLock, PlaceOK
  <2>2. HasPolicy(r) /\ ~HasMember(r) /\ ~HasVersion(r) /\ ~HasPlan(r)
    BY <2>1 DEF HasPolicy, HasMember, HasVersion, HasPlan, Renewal, Creation, Storing, Committing
  <2>3. HasPolicy(r)' /\ HasMember(r)' /\ ~HasVersion(r)' /\ ~HasPlan(r)'
    BY <1>1, <2>1 DEF HasPolicy, HasMember, HasVersion, HasPlan, Renewal, Creation, Storing, Committing
  <2>4. req[r].member \in Members /\ memberLock \in [Members -> Requests \cup {None}]
    BY <1>1, <2>1 DEF TypeOK, KindOK, Operations
  <2>5. QED
    BY <1>1, <2>1, <2>2, <2>3, <2>4 DEF Owned
<1>4. CASE LockVersion(r)
  <2>1. /\ pc[r] = "lockVersion" /\ req[r].op \in {"renew", "edit_coverage", "edit_draft"}
        /\ pc'[r] = IF req[r].op = "edit_draft" THEN "catalog" ELSE "lockPlan"
        /\ versionLock' = [versionLock EXCEPT ![req[r].version] = r]
        /\ UNCHANGED <<policyLock, memberLock, planLock>>
    BY <1>1, <1>4 DEF LockVersion, AfterLock, PlaceOK, CatalogOps
  <2>2. ~HasVersion(r)
    BY <2>1 DEF HasVersion, Renewal, Creation, Storing, Committing
  <2>3. /\ HasVersion(r)' /\ (HasPolicy(r)' <=> HasPolicy(r)) /\ (HasMember(r)' <=> HasMember(r))
        /\ HasPlan(r)' <=> HasPlan(r)
    BY <1>1, <2>1 DEF HasPolicy, HasMember, HasVersion, HasPlan, Renewal, Creation, Storing, Committing
  <2>4. req[r].version \in Versions /\ versionLock \in [Versions -> Requests \cup {None}]
    BY <1>1, <2>1 DEF TypeOK, KindOK, CatalogOps
  <2>5. QED
    BY <1>1, <2>1, <2>2, <2>3, <2>4 DEF Owned
<1>5. CASE LockPlan(r)
  <2>1. /\ pc[r] = "lockPlan" /\ req[r].op \in {"renew", "edit_coverage", "edit_draft"}
        /\ pc'[r] = CASE req[r].op = "renew" -> "renewChecks"
                      [] req[r].op = "edit_draft" -> "lockVersion"
                      [] OTHER -> "catalog"
        /\ planLock' = [planLock EXCEPT ![req[r].plan] = r]
        /\ UNCHANGED <<policyLock, memberLock, versionLock>>
    BY <1>1, <1>5 DEF LockPlan, AfterLock, PlaceOK, CatalogOps
  <2>2. ~HasPlan(r)
    BY <2>1 DEF HasPlan, Renewal, Creation, Storing, Committing
  <2>3. /\ HasPlan(r)' /\ (HasPolicy(r)' <=> HasPolicy(r)) /\ (HasMember(r)' <=> HasMember(r))
        /\ HasVersion(r)' <=> HasVersion(r)
    BY <1>1, <2>1 DEF HasPolicy, HasMember, HasVersion, HasPlan, Renewal, Creation, Storing, Committing
  <2>4. req[r].plan \in Plans /\ planLock \in [Plans -> Requests \cup {None}]
    <3>1. req[r].version \in Versions /\ VersionTerms[req[r].version].plan = req[r].plan
      BY <1>1, <2>1 DEF KindOK, CatalogOps
    <3>2. QED
      BY <1>1, <3>1, TermsAssumption DEF TypeOK
  <2>5. QED
    BY <1>1, <2>1, <2>2, <2>3, <2>4 DEF Owned
<1>6. CASE Reading(pc[r], pc'[r]) /\ UNCHANGED locks
  <2>1. HasPlan(r)' = HasPlan(r)
    BY <1>1, <1>6 DEF Reading, HasPlan, Renewal, Creation, Storing, Committing, PlaceOK
  <2>2. HasVersion(r)' = HasVersion(r)
    BY <1>1, <1>6 DEF Reading, HasVersion, Renewal, Creation, Storing, Committing, PlaceOK
  <2>3. HasMember(r)' = HasMember(r)
    BY <1>1, <1>6 DEF Reading, HasMember, Renewal, Creation, Storing, Committing, PlaceOK
  <2>4. HasPolicy(r)' = HasPolicy(r)
    BY <1>1, <1>6, <2>3 DEF Reading, HasPolicy
  <2>5. QED
    BY <1>1, <1>6, <2>1, <2>2, <2>3, <2>4, OwnedKept
<1>7. CASE Release(r) /\ pc'[r] \in Answered
  <2>1. ~HasPolicy(r)' /\ ~HasMember(r)' /\ ~HasVersion(r)' /\ ~HasPlan(r)'
    BY <1>7 DEF HasPolicy, HasMember, HasVersion, HasPlan, Renewal, Creation, Storing, Committing,
       Answered
  <2>2. /\ \A p \in Policies : policyLock'[p] # r
        /\ \A m \in Members : memberLock'[m] # r
        /\ \A v \in Versions : versionLock'[v] # r
        /\ \A p \in Plans : planLock'[p] # r
    BY <1>7, RequestsAssumption DEF Release
  <2>3. QED
    BY <2>1, <2>2 DEF Owned
<1>8. QED
  BY <1>2, <1>3, <1>4, <1>5, <1>6, <1>7, StatementEffect DEF Locking

LEMMA StepOwned == IInv /\ OwnedInv /\ [Next]_vars => OwnedInv'
<1> SUFFICES ASSUME IInv, OwnedInv, [Next]_vars, NEW q \in Requests
             PROVE  Owned(q)'
  BY DEF OwnedInv
<1>1. Owned(q) /\ TypeOK
  BY DEF OwnedInv, IInv
<1>2. ASSUME pc'[q] = pc[q], req'[q] = req[q], UNCHANGED locks PROVE Owned(q)'
  <2>1. /\ HasPolicy(q)' = HasPolicy(q) /\ HasMember(q)' = HasMember(q)
        /\ HasVersion(q)' = HasVersion(q) /\ HasPlan(q)' = HasPlan(q)
    BY <1>2 DEF HasPolicy, HasMember, HasVersion, HasPlan
  <2>2. QED
    BY <1>1, <1>2, <2>1, OwnedKept
<1>3. CASE Surroundings \/ Quiescent \/ UNCHANGED vars
  BY <1>2, <1>3, SurroundingsAlone
<1>4. CASE Arrival(q)
  <2>1. Empty(q)
    BY <1>4, ArrivalEffect DEF Empty, HasPolicy, HasMember, HasVersion, HasPlan, Renewal, Creation,
       Storing, Committing
  <2>2. Begins(req'[q], pc'[q]) /\ UNCHANGED locks
    BY <1>4, ArrivalEffect
  <2>3. Empty(q)'
    BY <2>2 DEF Empty, Begins, HasPolicy, HasMember, HasVersion, HasPlan, Renewal, Creation,
       Storing, Committing
  <2>4. QED
    BY <1>1, <2>1, <2>2, <2>3 DEF Owned, Empty, locks
<1>5. ASSUME NEW r \in Requests, r # q, Arrival(r) PROVE Owned(q)'
  BY <1>2, <1>5, ArrivalEffect
<1>6. CASE Statement(q) \/ Crash(q)
  BY <1>1, <1>6, OwnOwned
<1>7. ASSUME NEW r \in Requests, r # q, Statement(r) \/ Crash(r) PROVE Owned(q)'
  <2>1. pc'[q] = pc[q] /\ req'[q] = req[q]
    BY <1>7, StatementEffect
  <2>2. Locking(r) \/ Release(r) \/ UNCHANGED locks
    BY <1>7, StatementEffect
  <2>3. QED
    BY <1>1, <1>2, <1>7, <2>1, <2>2, OthersOwn
<1>8. QED
  BY <1>3, <1>4, <1>5, <1>6, <1>7 DEF Next

\* Every request holds exactly the locks its statement says it holds.
THEOREM LocksOwned == Spec => []OwnedInv
BY InitOwned, StepOwned, Invariance, PTL DEF Spec

-----------------------------------------------------------------------------
Arrivals == {r \in Requests : pc[r] # "idle"}

\* Only finitely many requests are about, and a key is left for every insertion
\* under way.
KeysOK ==
    /\ IsFiniteSet(Arrivals)
    /\ Cardinality(Inserting) <= Cardinality(FreeKeys)

\* What the cardinalities are of.
LEMMA KeysFinite ==
    ASSUME IsFiniteSet(Arrivals)
    PROVE  /\ IsFiniteSet(Inserting) /\ Cardinality(Inserting) \in Nat
           /\ IsFiniteSet(FreeKeys) /\ Cardinality(FreeKeys) \in Nat
<1>1. Inserting \subseteq Arrivals /\ FreeKeys \subseteq Policies
  BY DEF Inserting, Arrivals, FreeKeys, Working
<1>2. QED
  BY <1>1, PoliciesAssumption, FS_Subset, FS_CardinalityType

LEMMA InitKeys == Init => KeysOK
<1> SUFFICES ASSUME Init PROVE KeysOK
  OBVIOUS
<1>1. Inserting = {} /\ Arrivals = {}
  BY DEF Init, Inserting, Arrivals, Working
<1>2. QED
  BY <1>1, KeysFinite, FS_EmptySet DEF KeysOK

\* A request that ends leaves the other insertions their keys.
LEMMA FewerInsertions ==
    ASSUME KeysOK, Inserting' \subseteq Inserting, FreeKeys' = FreeKeys, IsFiniteSet(Arrivals)'
    PROVE  KeysOK'
<1>1. /\ Cardinality(Inserting') <= Cardinality(Inserting)
      /\ Cardinality(Inserting') \in Nat /\ Cardinality(Inserting) \in Nat
      /\ Cardinality(FreeKeys) \in Nat
  BY KeysFinite, FS_Subset, FS_CardinalityType DEF KeysOK
<1>2. QED
  BY <1>1 DEF KeysOK

\* An arrival adds one request, and the others are where they were.
LEMMA ArrivalsFinite ==
    ASSUME IInv, KeysOK, [Next]_vars
    PROVE  IsFiniteSet(Arrivals)'
<1>1. ASSUME NEW r \in Requests, Arrival(r) \/ Statement(r) \/ Crash(r)
      PROVE  Arrivals' \subseteq Arrivals \cup {r}
  BY <1>1, ArrivalEffect, StatementEffect DEF Arrivals
<1>2. ASSUME Surroundings \/ Quiescent \/ UNCHANGED vars PROVE Arrivals' = Arrivals
  BY <1>2, SurroundingsAlone DEF Arrivals
<1>3. ASSUME NEW r \in Requests, Arrivals' \subseteq Arrivals \cup {r} PROVE IsFiniteSet(Arrivals)'
  <2>1. IsFiniteSet(Arrivals \cup {r})
    BY FS_AddElement DEF KeysOK
  <2>2. QED
    BY <1>3, <2>1, FS_Subset
<1>4. QED
  BY <1>1, <1>2, <1>3 DEF Next, KeysOK

\* Rows stay issued; only an insertion issues one.
LEMMA IssuedStays ==
    ASSUME IInv, [Next]_vars
    PROVE  \/ FreeKeys' = FreeKeys
           \/ \E r \in Requests, p \in Policies : CommitPolicy(r, p)
<1>1. policy \in [Policies -> Row \cup {NoPolicy}]
  BY DEF IInv, TypeOK
<1>2. ASSUME UNCHANGED policy PROVE FreeKeys' = FreeKeys
  BY <1>2 DEF FreeKeys, Issued
<1>3. ASSUME NEW r \in Requests, UpdateStatus(r) PROVE FreeKeys' = FreeKeys
  <2>1. CASE UNCHANGED policy
    BY <1>2, <2>1
  <2>2. CASE ~UNCHANGED policy
    <3>1. /\ pc[r] = "update"
          /\ policy' = [policy EXCEPT ![req[r].policy].status = req[r].target]
      BY <1>3, <2>2 DEF UpdateStatus, Commit, Refuse
    <3>2. /\ req[r].policy \in Policies /\ Issued(req[r].policy)
          /\ req[r].target \in Statuses
      BY <3>1 DEF IInv, RequestOK, KindOK, PlaceOK
    <3>3. policy[req[r].policy] \in Row
      BY <1>1, <3>2 DEF Issued, NoPolicy
    <3>4. policy'[req[r].policy].status # "absent"
      BY <1>1, <3>1, <3>2, <3>3 DEF Issued, Statuses, Row
    <3>5. \A p \in Policies \ {req[r].policy} : policy'[p] = policy[p]
      BY <1>1, <3>1
    <3>6. \A p \in Policies : Issued(p)' <=> Issued(p)
      BY <3>2, <3>4, <3>5 DEF Issued
    <3>7. QED
      BY <3>6 DEF FreeKeys
  <2>3. QED
    BY <2>1, <2>2
<1>4. ASSUME NEW r \in Requests, InsertBeneficiary(r) PROVE FreeKeys' = FreeKeys
  BY <1>2, <1>4 DEF InsertBeneficiary, Commit
<1>5. QED
  BY <1>2, <1>3, <1>4, Writers

\* An insertion uses up a key and is over.
LEMMA InsertionKeys ==
    ASSUME IInv, KeysOK, NEW r \in Requests, NEW p \in Policies, CommitPolicy(r, p),
           IsFiniteSet(Arrivals)'
    PROVE  KeysOK'
<1>1. /\ pc[r] = "versionKey" /\ ~Issued(p)
      /\ pc' = [pc EXCEPT ![r] = "ok"] /\ req' = req
      /\ policy' = [policy EXCEPT ![p] = NewPolicy(r)]
  BY DEF CommitPolicy, Commit
<1>2. Inserting' = Inserting \ {r} /\ r \in Inserting
  BY <1>1 DEF IInv, TypeOK, RequestOK, PlaceOK, Creation, Storing, Committing, Inserting, Working
<1>3. FreeKeys' = FreeKeys \ {p} /\ p \in FreeKeys
  BY <1>1 DEF IInv, TypeOK, FreeKeys, Issued, NewPolicy
<1>4. IsFiniteSet(FreeKeys) /\ IsFiniteSet(Inserting)
  BY KeysFinite DEF KeysOK
<1>5. /\ Cardinality(Inserting') = Cardinality(Inserting) - 1
      /\ Cardinality(FreeKeys') = Cardinality(FreeKeys) - 1
      /\ Cardinality(Inserting) \in Nat /\ Cardinality(FreeKeys) \in Nat
  BY <1>2, <1>3, <1>4, FS_RemoveElement, FS_CardinalityType
<1>6. QED
  BY <1>5 DEF KeysOK

LEMMA StepKeys == IInv /\ KeysOK /\ [Next]_vars => KeysOK'
<1> SUFFICES ASSUME IInv, KeysOK, [Next]_vars
             PROVE  KeysOK'
  OBVIOUS
<1>1. IsFiniteSet(Arrivals)'
  BY ArrivalsFinite
<1>2. CASE \E r \in Requests, p \in Policies : CommitPolicy(r, p)
  BY <1>1, <1>2, InsertionKeys
<1>3. CASE FreeKeys' = FreeKeys
  <2>1. ASSUME NEW r \in Requests, Arrival(r) PROVE KeysOK'
    <3>1. /\ req'[r].op \in {"create", "renew"} => KeysLeft
          /\ pc[r] = "idle" /\ \A q \in Requests \ {r} : pc'[q] = pc[q] /\ req'[q] = req[q]
      BY <2>1, ArrivalEffect DEF Begins
    <3>2. r \notin Inserting
      BY <3>1 DEF Inserting, Working
    <3>3. CASE Inserting' \subseteq Inserting
      BY <1>1, <1>3, <3>3, FewerInsertions
    <3>4. CASE ~(Inserting' \subseteq Inserting)
      <4>1. Inserting' = Inserting \cup {r} /\ req'[r].op \in {"create", "renew"}
        BY <3>1, <3>2, <3>4 DEF Inserting
      <4>2. /\ Cardinality(Inserting') = Cardinality(Inserting) + 1
            /\ Cardinality(Inserting) \in Nat /\ Cardinality(FreeKeys) \in Nat
        BY <3>2, <4>1, KeysFinite, FS_AddElement DEF KeysOK
      <4>3. QED
        BY <1>1, <1>3, <3>1, <4>1, <4>2 DEF KeysOK, KeysLeft
    <3>5. QED
      BY <3>3, <3>4
  <2>2. ASSUME NEW r \in Requests, Statement(r) \/ Crash(r) PROVE KeysOK'
    <3>1. req' = req /\ pc[r] \in Working /\ \A q \in Requests \ {r} : pc'[q] = pc[q]
      BY <2>2, StatementEffect
    <3>2. Inserting' \subseteq Inserting
      BY <3>1 DEF Inserting
    <3>3. QED
      BY <1>1, <1>3, <3>2, FewerInsertions
  <2>3. CASE Surroundings \/ Quiescent \/ UNCHANGED vars
    <3>1. Inserting' \subseteq Inserting
      BY <2>3, SurroundingsAlone DEF Inserting
    <3>2. QED
      BY <1>1, <1>3, <3>1, FewerInsertions
  <2>4. QED
    BY <2>1, <2>2, <2>3 DEF Next
<1>4. QED
  BY <1>2, <1>3, IssuedStays

THEOREM KeysSuffice == Spec => []KeysOK
BY InitKeys, StepKeys, Invariance, PTL DEF Spec

-----------------------------------------------------------------------------
(* Who waits for whom.                                                     *)

\* A request waits for one that works, and that holds the row it waits for.
LEMMA WaitsFor ==
    ASSUME IInv, OwnedInv, NEW r \in Requests, NEW q \in BlockedBy(r)
    PROVE  /\ q \in Requests /\ q # r /\ pc[q] \in Working
           /\ \/ /\ pc[r] \in {"lockPolicy", "addBeneficiary"}
                 /\ HasPolicy(q) /\ req[q].policy = req[r].policy
              \/ /\ pc[r] \in {"lockMember", "memberKey"}
                 /\ HasMember(q) /\ req[q].member = req[r].member
              \/ /\ pc[r] = "lockMember"
                 /\ pc[q] = "versionKey" /\ req[q].member = req[r].member
              \/ /\ pc[r] = "lockVersion"
                 /\ HasVersion(q) /\ req[q].version = req[r].version
              \/ /\ pc[r] = "versionKey"
                 /\ HasVersion(q) /\ req[q].version = reads[r].version
              \/ /\ pc[r] = "lockPlan"
                 /\ HasPlan(q) /\ req[q].plan = req[r].plan
<1>1. q # r /\ q # None
  BY DEF BlockedBy
<1>2. TypeOK /\ KindOK(r) /\ PlaceOK(r) /\ HoldsOK(r)
  BY DEF IInv, RequestOK
<1>3. \A p \in Requests : Owned(p)
  BY DEF OwnedInv
<1>4. /\ pc[q] = "lockMember" \/ HasMember(q) \/ HasVersion(q) \/ HasPlan(q) => pc[q] \in Working
      /\ HasPolicy(q) => pc[q] = "lockMember" \/ HasMember(q)
  BY DEF HasPolicy, HasMember, HasVersion, HasPlan, Renewal, Creation, Storing, Committing, Working
<1>5. CASE pc[r] \in {"lockPolicy", "addBeneficiary"}
  <2>1. policyLock[req[r].policy] = q
    BY <1>1, <1>5 DEF BlockedBy
  <2>2. req[r].policy \in Policies
    BY <1>2, <1>5 DEF KindOK, PlaceOK
  <2>3. q \in Requests
    BY <1>1, <1>2, <2>1, <2>2 DEF TypeOK
  <2>4. HasPolicy(q) /\ req[q].policy = req[r].policy
    BY <1>3, <2>1, <2>2, <2>3 DEF Owned
  <2>5. QED
    BY <1>1, <1>4, <1>5, <2>3, <2>4
<1>6. CASE pc[r] \in {"lockMember", "memberKey"}
  <2>1. \/ memberLock[req[r].member] = q
        \/ pc[r] = "lockMember" /\ q \in KeySharers(req[r].member)
    BY <1>1, <1>6 DEF BlockedBy
  <2>2. req[r].member \in Members
    BY <1>2, <1>6 DEF KindOK, PlaceOK, Creation, Storing, Committing, Operations
  <2>3. CASE memberLock[req[r].member] = q
    <3>1. q \in Requests
      BY <1>1, <1>2, <2>2, <2>3 DEF TypeOK
    <3>2. HasMember(q) /\ req[q].member = req[r].member
      BY <1>3, <2>2, <2>3, <3>1 DEF Owned
    <3>3. QED
      BY <1>1, <1>4, <1>6, <3>1, <3>2
  <2>4. CASE pc[r] = "lockMember" /\ q \in KeySharers(req[r].member)
    BY <1>1, <2>4 DEF KeySharers, Working
  <2>5. QED
    BY <2>1, <2>3, <2>4
<1>7. CASE pc[r] \in {"lockVersion", "versionKey"}
  <2> PICK v : v = IF pc[r] = "lockVersion" THEN req[r].version ELSE reads[r].version
    OBVIOUS
  <2>1. versionLock[v] = q
    BY <1>1, <1>7 DEF BlockedBy
  <2>2. v \in Versions
    BY <1>2, <1>7 DEF KindOK, PlaceOK, HoldsOK, Storing, Committing
  <2>3. q \in Requests
    BY <1>1, <1>2, <2>1, <2>2 DEF TypeOK
  <2>4. HasVersion(q) /\ req[q].version = v
    BY <1>3, <2>1, <2>2, <2>3 DEF Owned
  <2>5. QED
    BY <1>1, <1>4, <1>7, <2>3, <2>4
<1>8. CASE pc[r] = "lockPlan"
  <2>1. planLock[req[r].plan] = q
    BY <1>1, <1>8 DEF BlockedBy
  <2>2. req[r].plan \in Plans
    <3>1. req[r].version \in Versions /\ VersionTerms[req[r].version].plan = req[r].plan
      BY <1>2, <1>8 DEF KindOK, PlaceOK
    <3>2. QED
      BY <3>1, TermsAssumption
  <2>3. q \in Requests
    BY <1>1, <1>2, <2>1, <2>2 DEF TypeOK
  <2>4. HasPlan(q) /\ req[q].plan = req[r].plan
    BY <1>3, <2>1, <2>2, <2>3 DEF Owned
  <2>5. QED
    BY <1>1, <1>4, <1>8, <2>3, <2>4
<1>9. QED
  BY <1>5, <1>6, <1>7, <1>8 DEF BlockedBy

\* Who works but is not ready waits for another.
LEMMA NotReady ==
    ASSUME IInv, OwnedInv, KeysOK, NEW r \in Requests, pc[r] \in Working, ~Ready(r)
    PROVE  \E q \in Requests : q # r /\ pc[q] \in Working /\ q \in BlockedBy(r)
<1>1. pc[r] = "versionKey" => FreeKeys # {}
  <2>1. SUFFICES ASSUME pc[r] = "versionKey", FreeKeys = {} PROVE FALSE
    OBVIOUS
  <2>2. r \in Inserting
    BY <2>1 DEF IInv, RequestOK, PlaceOK, Creation, Storing, Committing, Inserting, Working
  <2>3. IsFiniteSet(Inserting) /\ Cardinality(Inserting) \in Nat /\ Cardinality(Inserting) <= 0
    BY <2>1, KeysFinite, FS_EmptySet DEF KeysOK
  <2>4. QED
    BY <2>2, <2>3, FS_EmptySet
<1>2. PICK q : q \in BlockedBy(r)
  BY <1>1 DEF Ready
<1>3. QED
  BY <1>2, WaitsFor

\* Every nonempty collection of finite sets has a smallest one.
LEMMA SmallestSet ==
    ASSUME NEW W, IsFiniteSet(W), NEW F, F \subseteq SUBSET W, F # {}
    PROVE  \E T \in F : \A U \in F : U \subseteq T => U = T
<1>1. IsWellFoundedOn(StrictSubsetOrdering(W), SUBSET W)
  BY FS_StrictSubsetOrderingWellFounded, FS_FiniteSubsetsOfFinite
<1>2. PICK T \in F : \A U \in F : <<U, T>> \notin StrictSubsetOrdering(W)
  BY <1>1, WFMin
<1>3. \A U \in F : ~(U \subseteq T /\ U # T)
  BY <1>2 DEF StrictSubsetOrdering
<1>4. QED
  BY <1>3

\* For any number of requests, members, versions and plans: were nobody ready, the
\* smallest set of requests that wait for each other would be a cycle, and
\* PostgreSQL breaks it.
THEOREM SomebodyAlwaysReady == Spec => []SomebodyIsReady
<1>1. IInv /\ OwnedInv /\ KeysOK => SomebodyIsReady
  <2> SUFFICES ASSUME IInv, OwnedInv, KeysOK, NEW first \in Requests, pc[first] \in Working,
                      \A r \in Requests : ~Ready(r)
               PROVE  FALSE
    BY DEF SomebodyIsReady
  <2> DEFINE W == {r \in Requests : pc[r] \in Working}
             F == {T \in SUBSET W : T # {} /\ Waits(T)}
  <2>1. ASSUME NEW r \in W PROVE \E q \in W : q \in BlockedBy(r)
    BY NotReady
  <2>2. IsFiniteSet(W)
    <3>1. W \subseteq Arrivals
      BY DEF Arrivals, Working
    <3>2. QED
      BY <3>1, FS_Subset DEF KeysOK
  <2>3. W \in F
    BY <2>1 DEF Waits
  <2> HIDE DEF W
  <2>4. PICK T \in F : \A U \in F : U \subseteq T => U = T
    <3>1. F \subseteq SUBSET W /\ F # {}
      BY <2>3
    <3> HIDE DEF F
    <3>2. QED
      BY <2>2, <3>1, SmallestSet
  <2>5. T \subseteq W /\ T # {} /\ Waits(T)
    OBVIOUS
  <2>6. Cycle(T)
    <3>1. ASSUME NEW U \in SUBSET T, U \notin {{}, T} PROVE ~Waits(U)
      BY <2>4, <2>5, <3>1
    <3>2. QED
      BY <2>5, <3>1 DEF Cycle
  <2>7. T \subseteq Requests /\ \A r \in T : pc[r] \in Working
    BY <2>5 DEF W
  <2>8. QED
    BY <2>5, <2>6, <2>7 DEF Ready
<1>2. QED
  BY <1>1, Invariance, LocksOwned, KeysSuffice, PTL

(* What the cycles are.                                                    *)

\* Each member of a cycle is all that one of the others waits for in it.
LEMMA CycleLinks ==
    ASSUME NEW S, Cycle(S), NEW x \in S
    PROVE  /\ \E y \in S : x \in BlockedBy(y)
           /\ \E z \in S : z \in BlockedBy(x)
<1>1. Waits(S) /\ \A T \in SUBSET S : T \notin {{}, S} => ~Waits(T)
  BY DEF Cycle
<1>2. PICK z \in S : z \in BlockedBy(x)
  BY <1>1 DEF Waits
<1>3. z # x
  BY <1>2 DEF BlockedBy
<1>4. ~Waits(S \ {x})
  BY <1>1, <1>2, <1>3
<1>5. PICK y \in S \ {x} : BlockedBy(y) \cap (S \ {x}) = {}
  BY <1>4 DEF Waits
<1>6. x \in BlockedBy(y)
  BY <1>1, <1>5 DEF Waits
<1>7. QED
  BY <1>2, <1>6

\* Who waits in a cycle with a plan in hand.
Planned(r) ==
    \/ pc[r] = "versionKey" /\ req[r].op = "renew"
    \/ pc[r] = "lockVersion" /\ req[r].op = "edit_draft"

\* And who waits for a plan with a version in hand.
Versioned(r) == pc[r] = "lockPlan" /\ req[r].op \in {"renew", "edit_coverage"}

\* Members and enrollments are locked first, so who waits for one of them holds
\* nothing that is waited for in a cycle; only plans and versions cross.
LEMMA CycleMembers ==
    ASSUME IInv, OwnedInv, NEW S \in SUBSET Requests, Cycle(S), NEW x \in S
    PROVE  Planned(x) \/ Versioned(x)
<1>1. ASSUME NEW r \in S
      PROVE  /\ pc[r] \in {"lockPolicy", "addBeneficiary", "lockMember", "memberKey",
                            "lockVersion", "versionKey", "lockPlan"}
             /\ PlaceOK(r) /\ Owned(r) /\ KindOK(r)
             /\ \E y \in S : y # r /\ r \in BlockedBy(y)
             /\ \E z \in S : z # r /\ z \in BlockedBy(r)
  BY CycleLinks, WaitsFor DEF IInv, RequestOK, OwnedInv
<1>2. ASSUME NEW r \in S, pc[r] \in {"lockPolicy", "addBeneficiary"} PROVE FALSE
  <2>1. Empty(r)
    BY <1>2 DEF Empty, HasPolicy, HasMember, HasVersion, HasPlan, Renewal, Creation, Storing, Committing
  <2>2. QED
    BY <1>1, <1>2, <2>1, WaitsFor DEF Empty
<1>3. ASSUME NEW r \in S, pc[r] = "lockMember" PROVE FALSE
  <2>1. ~HasMember(r) /\ ~HasVersion(r) /\ ~HasPlan(r)
    BY <1>3 DEF HasMember, HasVersion, HasPlan, Renewal, Creation, Storing, Committing
  <2>2. PICK y \in S : r \in BlockedBy(y)
    BY <1>1
  <2>3. pc[y] \in {"lockPolicy", "addBeneficiary"}
    BY <1>3, <2>1, <2>2, WaitsFor
  <2>4. QED
    BY <1>2, <2>3
<1>4. ASSUME NEW r \in S, pc[r] = "memberKey" PROVE FALSE
  <2>1. req[r].op \in {"create", "renew"}
    BY <1>1, <1>4 DEF PlaceOK, Creation, Storing, Committing
  <2>2. CASE req[r].op = "create"
    <3>1. Empty(r)
      BY <1>4, <2>2 DEF Empty, HasPolicy, HasMember, HasVersion, HasPlan
    <3>2. QED
      BY <1>1, <1>4, <3>1, WaitsFor DEF Empty
  <2>3. CASE req[r].op = "renew"
    <3>1. HasMember(r)
      BY <1>4, <2>3 DEF HasMember, Renewal, Creation, Storing, Committing
    <3>2. PICK z \in S : z # r /\ z \in BlockedBy(r)
      BY <1>1
    <3>3. HasMember(z) /\ req[z].member = req[r].member
      BY <1>4, <3>2, WaitsFor
    <3>4. req[r].member \in Members
      BY <1>1, <1>4, <2>3 DEF KindOK, Operations
    <3>5. QED
      BY <1>1, <3>1, <3>2, <3>3, <3>4 DEF Owned
  <2>4. QED
    BY <2>1, <2>2, <2>3
<1>5. ASSUME NEW r \in S, pc[r] = "versionKey" PROVE req[r].op = "renew"
  <2>1. SUFFICES ASSUME req[r].op # "renew" PROVE FALSE
    OBVIOUS
  <2>2. Empty(r)
    BY <1>1, <1>5, <2>1
    DEF PlaceOK, Empty, HasPolicy, HasMember, HasVersion, HasPlan, Creation, Storing, Committing
  <2>3. PICK y \in S : r \in BlockedBy(y)
    BY <1>1
  <2>4. pc[y] = "lockMember"
    BY <2>2, <2>3, WaitsFor DEF Empty
  <2>5. QED
    BY <1>3, <2>4
<1>6. ASSUME NEW r \in S, pc[r] = "lockVersion" PROVE req[r].op = "edit_draft"
  <2>1. SUFFICES ASSUME req[r].op # "edit_draft" PROVE FALSE
    OBVIOUS
  <2>2. ~HasVersion(r) /\ ~HasPlan(r)
    BY <1>6, <2>1 DEF HasVersion, HasPlan, Renewal, Creation, Storing, Committing
  <2>3. PICK y \in S : r \in BlockedBy(y)
    BY <1>1
  <2>4. pc[y] \in {"lockPolicy", "addBeneficiary", "lockMember", "memberKey"}
    BY <1>6, <2>2, <2>3, WaitsFor
  <2>5. QED
    BY <1>2, <1>3, <1>4, <2>4
<1>7. ASSUME NEW r \in S, pc[r] = "lockPlan" PROVE req[r].op \in {"renew", "edit_coverage"}
  <2>1. SUFFICES ASSUME req[r].op = "edit_draft" PROVE FALSE
    BY <1>1, <1>7 DEF PlaceOK, CatalogOps
  <2>2. Empty(r)
    BY <1>7, <2>1 DEF Empty, HasPolicy, HasMember, HasVersion, HasPlan
  <2>3. QED
    BY <1>1, <1>7, <2>2, WaitsFor DEF Empty
<1>8. QED
  BY <1>1, <1>2, <1>3, <1>4, <1>5, <1>6, <1>7 DEF Planned, Versioned

\* Who waits for a version with its plan in hand, waits for one without the plan.
LEMMA PlannedBlocker ==
    ASSUME IInv, OwnedInv, NEW S \in SUBSET Requests, Cycle(S), NEW a \in S, NEW b \in S,
           Planned(a), b \in BlockedBy(a)
    PROVE  /\ Versioned(b) /\ HasPlan(a) /\ HasVersion(b)
           /\ req[a].plan = req[b].plan /\ req[a].plan \in Plans /\ req[b].version \in Versions
<1> PICK v : v = IF pc[a] = "lockVersion" THEN req[a].version ELSE reads[a].version
  OBVIOUS
<1>1. \A r \in Requests : Owned(r) /\ KindOK(r) /\ PlaceOK(r) /\ HoldsOK(r)
  BY DEF OwnedInv, IInv, RequestOK
<1>2. HasVersion(b) /\ req[b].version = v /\ b # a
  BY WaitsFor DEF Planned
<1>3. HasPlan(a)
  BY DEF Planned, HasPlan, Renewal, Creation, Storing, Committing
<1>4. v \in Versions /\ VersionTerms[v].plan = req[a].plan
  BY <1>1 DEF Planned, KindOK, HoldsOK, CatalogOps, Storing, Committing
<1>5. req[a].plan \in Plans
  BY <1>4, TermsAssumption
<1>6. req[b].op \in {"renew"} \cup CatalogOps
  BY <1>2 DEF HasVersion, CatalogOps
<1>7. req[b].plan = req[a].plan
  BY <1>1, <1>2, <1>4, <1>6 DEF KindOK
<1>8. ~Planned(b)
  <2>1. Planned(b) => HasPlan(b)
    BY DEF Planned, HasPlan, Renewal, Creation, Storing, Committing
  <2>2. QED
    BY <1>1, <1>2, <1>3, <1>5, <1>7, <2>1 DEF Owned
<1>9. QED
  BY <1>2, <1>3, <1>4, <1>5, <1>7, <1>8, CycleMembers

\* For any number of requests, members, versions and plans: a deadlock is of two
\* requests over one plan, one of which holds the plan and the other the version.
THEOREM DeadlockShape == Spec => []DeadlocksCrossOnePlan
<1>1. IInv /\ OwnedInv => DeadlocksCrossOnePlan
  <2> SUFFICES ASSUME IInv, OwnedInv, NEW S \in SUBSET Requests, Cycle(S)
               PROVE  \E a, b \in S :
                         /\ S = {a, b}
                         /\ Planned(a) /\ Versioned(b)
                         /\ planLock[req[b].plan] = a /\ versionLock[req[b].version] = b
                         /\ req[a].plan = req[b].plan
                         /\ req[a].op = "renew" => req[a].version # req[b].version
    BY DEF DeadlocksCrossOnePlan, Planned, Versioned
  <2>1. \A r \in Requests : Owned(r) /\ KindOK(r)
    BY DEF OwnedInv, IInv, RequestOK
  <2>2. PICK a \in S : Planned(a)
    <3>1. PICK x \in S : TRUE
      BY DEF Cycle
    <3>2. CASE Versioned(x)
      <4>1. PICK z \in S : z \in BlockedBy(x)
        BY CycleLinks
      <4>2. HasPlan(z)
        BY <3>2, <4>1, WaitsFor DEF Versioned
      <4>3. ~Versioned(z)
        BY <4>2 DEF Versioned, HasPlan, Renewal, Creation, Storing, Committing
      <4>4. QED
        BY <4>3, CycleMembers
    <3>3. QED
      BY <3>2, CycleMembers
  <2>3. PICK b \in S : b \in BlockedBy(a)
    BY CycleLinks
  <2>4. /\ Versioned(b) /\ HasPlan(a) /\ HasVersion(b)
        /\ req[a].plan = req[b].plan /\ req[a].plan \in Plans /\ req[b].version \in Versions
    BY <2>2, <2>3, PlannedBlocker
  <2>5. planLock[req[b].plan] = a /\ versionLock[req[b].version] = b
    BY <2>1, <2>4 DEF Owned
  <2>6. a # b
    BY <2>3, WaitsFor
  <2>7. a \in BlockedBy(b)
    BY <2>4, <2>5, <2>6, RequestsAssumption DEF Versioned, BlockedBy
  <2>8. S = {a, b}
    <3>1. Waits({a, b})
      BY <2>3, <2>7 DEF Waits
    <3>2. QED
      BY <3>1 DEF Cycle
  <2>9. ASSUME req[a].op = "renew" PROVE req[a].version # req[b].version
    <3>1. HasVersion(a)
      BY <2>2, <2>9 DEF Planned, HasVersion, Renewal, Creation, Storing, Committing
    <3>2. QED
      BY <2>1, <2>4, <2>6, <3>1 DEF Owned
  <2>10. QED
    BY <2>2, <2>4, <2>5, <2>8, <2>9
<1>2. QED
  BY <1>1, Invariance, LocksOwned, PTL

-----------------------------------------------------------------------------
(* add_calendar_months, and chains of renewals of any length with any      *)
(* durations (RenewalChain).  A date is placed by the number of its month  *)
(* since year 0; adding months adds to that number.                        *)

MonthNumber(date) == 12 * date.year + date.month - 1

LEMMA Lengths ==
    ASSUME NEW year \in Int, NEW month \in 1..12
    PROVE  MonthLength(year, month) \in 28..31
  BY DEF MonthLength

LEMMA MonthNumberDetermines ==
    ASSUME NEW a, NEW b, Valid(a), Valid(b), MonthNumber(a) = MonthNumber(b)
    PROVE  a.year = b.year /\ a.month = b.month
<1> DEFINE ay == a.year
           am == a.month
           by == b.year
           bm == b.month
<1>1. ay \in Int /\ am \in 1..12 /\ by \in Int /\ bm \in 1..12
  BY DEF Valid
<1>2. 12 * ay + am - 1 = 12 * by + bm - 1
  BY DEF MonthNumber
<1> HIDE DEF ay, am, by, bm
<1>3. ay = by /\ am = bm
  BY <1>1, <1>2
<1>4. QED
  BY <1>3 DEF ay, am, by, bm

LEMMA Division ==
    ASSUME NEW k \in Nat
    PROVE  /\ k \div 12 \in Nat /\ k % 12 \in 0..11
           /\ 12 * (k \div 12) + (k % 12) = k
  OBVIOUS

LEMMA SumOfMonths ==
    ASSUME NEW date, Valid(date), NEW n \in Nat
    PROVE  LET sum == AddCalendarMonths(date, n) IN
             /\ sum \in [year : Int, month : 1..12, day : 1..31]
             /\ MonthNumber(sum) = MonthNumber(date) + n
             /\ sum.day = IF date.day <= MonthLength(sum.year, sum.month)
                             THEN date.day ELSE MonthLength(sum.year, sum.month)
<1> DEFINE index == date.month - 1 + n
           year == date.year + index \div 12
           month == (index % 12) + 1
           length == MonthLength(year, month)
           day == IF date.day <= length THEN date.day ELSE length
<1>1. date.year \in Int /\ date.month \in 1..12 /\ date.day \in 1..31 /\ index \in Nat
  BY DEF Valid
<1>2. year \in Int /\ month \in 1..12 /\ 12 * year + month - 1 = 12 * date.year + index
  <2>1. index \div 12 \in Nat /\ index % 12 \in 0..11
        /\ 12 * (index \div 12) + (index % 12) = index
    <3> HIDE DEF index
    <3> QED
      BY <1>1, Division
  <2>2. \A q \in Nat, r \in 0..11, i \in Nat, y \in Int : 12 * q + r = i =>
           /\ y + q \in Int /\ r + 1 \in 1..12
           /\ 12 * (y + q) + (r + 1) - 1 = 12 * y + i
    OBVIOUS
  <2> HIDE DEF index
  <2>3. QED
    BY <1>1, <2>1, <2>2
<1>3. length \in 28..31
  BY <1>2, Lengths
<1>4. day \in 1..31
  BY <1>1, <1>3
<1>5. AddCalendarMonths(date, n) = [year |-> year, month |-> month, day |-> day]
  BY DEF AddCalendarMonths
<1> HIDE DEF year, month, day
<1>6. QED
  BY <1>1, <1>2, <1>4, <1>5 DEF MonthNumber, day, length

\* The end of a term is a date of the calendar (add_calendar_months never
\* passes date() a day the month lacks).
THEOREM SumIsValid ==
    ASSUME NEW date, Valid(date), NEW n \in Nat
    PROVE  Valid(AddCalendarMonths(date, n))
<1> DEFINE sum == AddCalendarMonths(date, n)
<1>1. sum \in [year : Int, month : 1..12, day : 1..31]
  BY SumOfMonths
<1>2. MonthLength(sum.year, sum.month) \in 28..31
  BY <1>1, Lengths
<1>3. sum.day <= MonthLength(sum.year, sum.month)
  <2>1. date.day \in 1..31
    BY DEF Valid
  <2>2. QED
    BY <1>2, <2>1, SumOfMonths
<1>4. QED
  BY <1>1, <1>3 DEF Valid

\* A term of at least one month ends after it starts, so ck_enrollment_effective_dates
\* and the check of create_enrollment never refuse a calculated end.
THEOREM SumIsLater ==
    ASSUME NEW date, Valid(date), NEW n \in Nat \ {0}
    PROVE  Before(date, AddCalendarMonths(date, n))
<1> DEFINE sum == AddCalendarMonths(date, n)
<1>1. /\ sum \in [year : Int, month : 1..12, day : 1..31]
      /\ MonthNumber(sum) = MonthNumber(date) + n
  BY SumOfMonths
<1>2. date \in [year : Int, month : 1..12, day : 1..31]
  BY DEF Valid
<1> HIDE DEF sum
<1>3. QED
  BY <1>1, <1>2 DEF Before, MonthNumber, sum

-----------------------------------------------------------------------------
\* What renewing preserves: the month is where one Póliza would end, and the
\* day has only been cut to the lengths of months.
ChainIInv ==
    /\ ChainTypeOK
    /\ MonthNumber(lastEnd) = MonthNumber(origin) + months
    /\ lastEnd.day <= origin.day
    /\ origin.day <= 28 => lastEnd.day = origin.day
    /\ origin.day > 28 => lastEnd.day >= 28

\* A step from a date of the chain keeps what ChainIInv says of days.
LEMMA DaysCut ==
    ASSUME NEW date, Valid(date), NEW n \in Nat
    PROVE  LET sum == AddCalendarMonths(date, n) IN
             /\ sum.day <= date.day
             /\ date.day <= 28 => sum.day = date.day
             /\ date.day >= 28 => sum.day >= 28
<1> DEFINE sum == AddCalendarMonths(date, n)
<1>1. sum \in [year : Int, month : 1..12, day : 1..31] /\ date.day \in 1..31
  BY SumOfMonths DEF Valid
<1>2. MonthLength(sum.year, sum.month) \in 28..31
  BY <1>1, Lengths
<1>3. QED
  BY <1>1, <1>2, SumOfMonths

LEMMA InitChain == ChainInit => ChainIInv
<1> SUFFICES ASSUME NEW date \in FirstStarts, NEW duration \in Durations,
                    origin = date, lastStart = date,
                    lastEnd = AddCalendarMonths(date, duration), months = duration
             PROVE  ChainIInv
  BY DEF ChainInit
<1>1. Valid(date) /\ duration \in Nat \ {0} /\ duration \in 1..MaxMonths
  BY FirstStartsAssumption, DurationsAssumption
<1>2. Valid(lastEnd) /\ Before(lastStart, lastEnd)
  BY <1>1, SumIsValid, SumIsLater
<1>3. MonthNumber(lastEnd) = MonthNumber(origin) + months
  BY <1>1, SumOfMonths
<1>4. /\ lastEnd.day <= origin.day
      /\ origin.day <= 28 => lastEnd.day = origin.day
      /\ origin.day >= 28 => lastEnd.day >= 28
  BY <1>1, DaysCut
<1>5. origin.day \in 1..31
  BY <1>1 DEF Valid
<1>6. QED
  BY <1>1, <1>2, <1>3, <1>4, <1>5 DEF ChainIInv, ChainTypeOK

LEMMA StepChain == ChainIInv /\ [ChainNext]_chainVars => ChainIInv'
<1> SUFFICES ASSUME ChainIInv, [ChainNext]_chainVars
             PROVE  ChainIInv'
  OBVIOUS
<1>1. CASE UNCHANGED chainVars
  BY <1>1 DEF chainVars, ChainIInv, ChainTypeOK, MonthNumber, Valid, Before
<1>2. ASSUME NEW duration \in Durations, Renew(duration)
      PROVE  ChainIInv'
  <2>1. /\ lastStart' = lastEnd /\ lastEnd' = AddCalendarMonths(lastEnd, duration)
        /\ months' = months + duration /\ origin' = origin
        /\ months + duration <= MaxMonths
    BY <1>2 DEF Renew
  <2>2. Valid(origin) /\ Valid(lastEnd) /\ months \in 1..MaxMonths /\ duration \in Nat \ {0}
    BY DurationsAssumption DEF ChainIInv, ChainTypeOK
  <2>3. Valid(lastEnd') /\ Valid(lastStart') /\ Valid(origin') /\ Before(lastStart', lastEnd')
    BY <2>1, <2>2, SumIsValid, SumIsLater
  <2>4. months' \in 1..MaxMonths
    BY <2>1, <2>2, DurationsAssumption
  <2>5. MonthNumber(lastEnd') = MonthNumber(lastEnd) + duration
    BY <2>1, <2>2, SumOfMonths
  <2>6. MonthNumber(lastEnd) \in Int /\ MonthNumber(origin) \in Int
    BY <2>2 DEF MonthNumber, Valid
  <2>7. MonthNumber(lastEnd') = MonthNumber(origin') + months'
    BY <2>1, <2>2, <2>5, <2>6 DEF ChainIInv
  <2>8. /\ lastEnd'.day <= lastEnd.day
        /\ lastEnd.day <= 28 => lastEnd'.day = lastEnd.day
        /\ lastEnd.day >= 28 => lastEnd'.day >= 28
    BY <2>1, <2>2, DaysCut
  <2>9. lastEnd.day \in Int /\ origin.day \in Int /\ lastEnd'.day \in Int
    BY <2>2, <2>3 DEF Valid
  <2>10. QED
    BY <2>1, <2>3, <2>4, <2>7, <2>8, <2>9 DEF ChainIInv, ChainTypeOK, MonthNumber, Valid, Before
<1>3. QED
  BY <1>1, <1>2 DEF ChainNext

THEOREM ChainInvariance == ChainSpec => []ChainIInv
  BY InitChain, StepChain, PTL DEF ChainSpec

\* Every term of every chain lasts at least a day and ends on a calendar date.
THEOREM TermsAreValid == ChainSpec => []ChainTypeOK
<1>1. ChainIInv => ChainTypeOK
  BY DEF ChainIInv
<1>2. QED
  BY <1>1, ChainInvariance, PTL

\* A chain of renewals, of any length, ends in the month that one Póliza of the
\* same total length ends in, at most three days early, and on the same day when
\* it starts on day 28 or before.
THEOREM DriftBound == ChainSpec => []DriftIsBounded
<1>1. ChainIInv => DriftIsBounded
  <2> SUFFICES ASSUME ChainIInv PROVE DriftIsBounded
    OBVIOUS
  <2> DEFINE single == AddCalendarMonths(origin, months)
  <2>1. Valid(origin) /\ Valid(lastEnd) /\ months \in Nat
    BY DEF ChainIInv, ChainTypeOK
  <2>2. Valid(single) /\ MonthNumber(single) = MonthNumber(origin) + months
    BY <2>1, SumOfMonths, SumIsValid
  <2>3. single.year = lastEnd.year /\ single.month = lastEnd.month
    <3> HIDE DEF single
    <3> QED
      BY <2>1, <2>2, MonthNumberDetermines DEF ChainIInv
  <2>4. single.day = IF origin.day <= MonthLength(single.year, single.month)
                        THEN origin.day ELSE MonthLength(single.year, single.month)
    BY <2>1, SumOfMonths
  <2>5. /\ lastEnd.day <= MonthLength(lastEnd.year, lastEnd.month)
        /\ lastEnd.day \in 1..31 /\ origin.day \in 1..31
        /\ MonthLength(lastEnd.year, lastEnd.month) \in 28..31
    BY <2>1, Lengths DEF Valid
  <2>6. lastEnd.day <= single.day /\ single.day - lastEnd.day <= 3
    <3> HIDE DEF single
    <3> QED
      BY <2>3, <2>4, <2>5 DEF ChainIInv
  <2>7. origin.day <= 28 => lastEnd.day = single.day
    BY <2>1, <2>4, DaysCut DEF ChainIInv
  <2>8. QED
    BY <2>3, <2>6, <2>7 DEF DriftIsBounded
<1>2. QED
  BY <1>1, ChainInvariance, PTL

-----------------------------------------------------------------------------
(* add_calendar_months against single steps through the months.  Stepped is *)
(* recursive: what it computes is proved for the least number of steps that *)
(* could be an exception.                                                   *)

\* Every nonempty set of naturals has a least element.
LEMMA LeastNatural ==
    ASSUME NEW T \in SUBSET Nat, T # {}
    PROVE  \E n \in T : \A m \in T : n <= m
<1>1. PICK n \in T : \A m \in T : <<m, n>> \notin OpToRel(<, Nat)
  BY NatLessThanWellFounded, WFMin
<1>2. \A m \in T : ~(m < n)
  BY <1>1 DEF OpToRel
<1>3. QED
  BY <1>2


\* A year and a month, n months later.
Later(date, n) ==
    LET index == date.month - 1 + n
    IN  [year |-> date.year + index \div 12, month |-> (index % 12) + 1, day |-> date.day]

\* Updates of a date, a field at a time.
LEMMA DateUpdates ==
    ASSUME NEW date, NEW y, NEW m, NEW d, NEW value,
           date = [year |-> y, month |-> m, day |-> d]
    PROVE  /\ [date EXCEPT !.year = value] = [year |-> value, month |-> m, day |-> d]
           /\ [date EXCEPT !.month = value] = [year |-> y, month |-> value, day |-> d]
           /\ [date EXCEPT !.day = value] = [year |-> y, month |-> m, day |-> value]
<1>1. /\ DOMAIN date = {"year", "month", "day"}
      /\ date = [field \in {"year", "month", "day"} |-> date[field]]
      /\ date.year = y /\ date.month = m /\ date.day = d
  OBVIOUS
<1>2. [date EXCEPT !.year = value] = [year |-> value, month |-> m, day |-> d]
  BY ONLY <1>1
<1>3. [date EXCEPT !.month = value] = [year |-> y, month |-> value, day |-> d]
  BY ONLY <1>1
<1>4. [date EXCEPT !.day = value] = [year |-> y, month |-> m, day |-> value]
  BY ONLY <1>1
<1>5. QED
  BY <1>2, <1>3, <1>4

LEMMA NextMonth ==
    ASSUME NEW y \in Int, NEW m \in 1..12, NEW d
    PROVE  MonthAfter([year |-> y, month |-> m, day |-> d]) =
             IF m = 12 THEN [year |-> y + 1, month |-> 1, day |-> d]
                       ELSE [year |-> y, month |-> m + 1, day |-> d]
<1> DEFINE date == [year |-> y, month |-> m, day |-> d]
<1>1. date.year = y /\ date.month = m
  OBVIOUS
<1>2. MonthAfter(date) = IF m = 12 THEN [[date EXCEPT !.year = y + 1] EXCEPT !.month = 1]
                                   ELSE [date EXCEPT !.month = m + 1]
  <2> HIDE DEF date
  <2>1. QED
    BY <1>1 DEF MonthAfter
<1>3. [date EXCEPT !.year = y + 1] = [year |-> y + 1, month |-> m, day |-> d]
  BY DateUpdates
<1>4. [[date EXCEPT !.year = y + 1] EXCEPT !.month = 1] = [year |-> y + 1, month |-> 1, day |-> d]
  <2> DEFINE other == [date EXCEPT !.year = y + 1]
  <2> HIDE DEF other
  <2>1. other = [year |-> y + 1, month |-> m, day |-> d]
    BY <1>3 DEF other
  <2>2. [other EXCEPT !.month = 1] = [year |-> y + 1, month |-> 1, day |-> d]
    BY <2>1, DateUpdates
  <2>3. QED
    BY <2>2 DEF other
<1>5. [date EXCEPT !.month = m + 1] = [year |-> y, month |-> m + 1, day |-> d]
  BY DateUpdates
<1>6. QED
  BY <1>2, <1>4, <1>5

LEMMA NextIndex ==
    ASSUME NEW i \in Nat
    PROVE  /\ i \div 12 \in Nat /\ i % 12 \in 0..11
           /\ IF (i % 12) + 1 = 12
                 THEN (i + 1) \div 12 = i \div 12 + 1 /\ (i + 1) % 12 = 0
                 ELSE (i + 1) \div 12 = i \div 12 /\ (i + 1) % 12 = (i % 12) + 1
  OBVIOUS

LEMMA LaterSteps ==
    ASSUME NEW date \in [year : Int, month : 1..12, day : 1..31], NEW k \in Nat
    PROVE  /\ Later(date, 0) = date
           /\ Later(date, k + 1) = MonthAfter(Later(date, k))
<1>1. PICK y \in Int, m \in 1..12, d \in 1..31 : date = [year |-> y, month |-> m, day |-> d]
  OBVIOUS
<1>2. date.year = y /\ date.month = m /\ date.day = d
  BY <1>1
<1>3. Later(date, 0) = date
  <2>1. (m - 1 + 0) \div 12 = 0 /\ (m - 1 + 0) % 12 = m - 1
    OBVIOUS
  <2>2. QED
    BY <1>1, <1>2, <2>1 DEF Later
<1>4. PICK i \in Nat : i = m - 1 + k
  OBVIOUS
<1> DEFINE year == y + i \div 12
           month == (i % 12) + 1
<1>5. year \in Int /\ month \in 1..12
  BY <1>4, NextIndex
<1>6. Later(date, k) = [year |-> year, month |-> month, day |-> d]
  BY <1>2, <1>4 DEF Later
<1>7. Later(date, k + 1) = [year |-> y + (i + 1) \div 12, month |-> ((i + 1) % 12) + 1, day |-> d]
  <2>1. m - 1 + (k + 1) = i + 1
    BY <1>4
  <2>2. QED
    BY <1>2, <2>1 DEF Later
<1>8. Later(date, k + 1) = IF month = 12 THEN [year |-> year + 1, month |-> 1, day |-> d]
                                         ELSE [year |-> year, month |-> month + 1, day |-> d]
  <2>1. y + (i + 1) \div 12 = IF month = 12 THEN year + 1 ELSE year
    BY NextIndex
  <2>2. ((i + 1) % 12) + 1 = IF month = 12 THEN 1 ELSE month + 1
    BY NextIndex
  <2>3. QED
    BY <1>7, <2>1, <2>2, Zenon
<1> HIDE DEF year, month
<1>9. QED
  BY <1>3, <1>5, <1>6, <1>8, NextMonth

LEMMA SteppedIsLater ==
    ASSUME NEW date \in [year : Int, month : 1..12, day : 1..31], NEW n \in Nat
    PROVE  Stepped(date, n) = Later(date, n)
<1> DEFINE Def(f) == [k \in 0..n |-> IF k = 0 THEN date ELSE MonthAfter(f[k - 1])]
           step == CHOOSE f : f = Def(f)
<1>1. Stepped(date, n) = step[n]
  BY DEF Stepped
<1>2. step = Def(step)
  <2> DEFINE g == [k \in 0..n |-> Later(date, k)]
  <2>1. ASSUME NEW k \in 0..n
        PROVE  g[k] = IF k = 0 THEN date ELSE MonthAfter(g[k - 1])
    <3>1. CASE k = 0
      BY <3>1, LaterSteps
    <3>2. CASE k # 0
      <4>1. k - 1 \in Nat /\ k - 1 \in 0..n /\ (k - 1) + 1 = k
        BY <3>2
      <4>2. Later(date, k) = MonthAfter(Later(date, k - 1))
        BY <4>1, LaterSteps
      <4>3. QED
        BY <3>2, <4>1, <4>2
    <3>3. QED
      BY <3>1, <3>2
  <2>2. g = Def(g)
    BY <2>1
  <2>3. QED
    BY <2>2
<1>3. \A k \in 0..n : step[k] = Later(date, k)
  <2> DEFINE T == {k \in 0..n : step[k] # Later(date, k)}
  <2>1. SUFFICES ASSUME T # {} PROVE FALSE
    OBVIOUS
  <2>2. PICK k \in T : \A m \in T : k <= m
    <3>1. T \in SUBSET Nat
      OBVIOUS
    <3> HIDE DEF T
    <3>2. QED
      BY <2>1, <3>1, LeastNatural
  <2>3. k # 0
    BY <1>2, LaterSteps
  <2>4. step[k - 1] = Later(date, k - 1)
    BY <2>2, <2>3
  <2>5. step[k] = MonthAfter(step[k - 1])
    BY <1>2, <2>3
  <2>6. k - 1 \in Nat /\ (k - 1) + 1 = k
    BY <2>3
  <2>7. Later(date, k) = MonthAfter(Later(date, k - 1))
    BY <2>6, LaterSteps
  <2>8. step[k] # Later(date, k)
    BY <2>2
  <2> HIDE DEF step
  <2>9. QED
    BY <2>4, <2>5, <2>7, <2>8
<1>4. QED
  BY <1>1, <1>3

\* The latest valid day of a month that is not after a day.
LEMMA LatestValid ==
    ASSUME NEW date, Valid(date), NEW n \in Nat
    PROVE  Reference(date, n) = AddCalendarMonths(date, n)
<1> DEFINE i == date.month - 1 + n
           y == date.year + i \div 12
           m == (i % 12) + 1
           length == MonthLength(y, m)
           target == Stepped(date, n)
           On(k) == [year |-> y, month |-> m, day |-> k]
           sum == AddCalendarMonths(date, n)
<1>1. /\ date \in [year : Int, month : 1..12, day : 1..31]
      /\ date.year \in Int /\ date.month \in 1..12 /\ date.day \in 1..31
  BY DEF Valid
<1>2. i \in Nat /\ y \in Int /\ m \in 1..12
  <2>1. i \in Nat
    BY <1>1
  <2>2. QED
    BY <1>1, <2>1, NextIndex
<1>3. length \in 28..31
  BY <1>2 DEF MonthLength
<1>4. target = On(date.day)
  BY <1>1, SteppedIsLater DEF Later
<1>5. sum = On(IF date.day <= length THEN date.day ELSE length)
  BY DEF AddCalendarMonths
<1> HIDE DEF i, y, m, length, sum
<1>6. \A k : [target EXCEPT !.day = k] = On(k)
  <2> HIDE DEF target
  <2> QED
    BY <1>4, DateUpdates
<1>7. \A k \in 1..31 : On(k).day = k /\ (Valid(On(k)) <=> k <= length)
  BY <1>2 DEF Valid, length
<1> DEFINE Fits(d) == Valid(d) /\ \A k \in (d.day + 1)..date.day : ~Valid([target EXCEPT !.day = k])
           Days == {[target EXCEPT !.day = k] : k \in 1..date.day}
<1>8. Reference(date, n) = CHOOSE d \in Days : Fits(d)
  BY DEF Reference
<1>9. \A d : d \in Days <=> \E k \in 1..date.day : d = On(k)
  BY <1>6
<1>10. \A k \in 1..date.day : Fits(On(k)) <=> k <= length /\ \A j \in (k + 1)..date.day : j > length
  <2> SUFFICES ASSUME NEW k \in 1..date.day
               PROVE  Fits(On(k)) <=> k <= length /\ \A j \in (k + 1)..date.day : j > length
    OBVIOUS
  <2>1. k \in 1..31 /\ \A j \in (k + 1)..date.day : j \in 1..31
    BY <1>1
  <2>2. On(k).day = k /\ (Valid(On(k)) <=> k <= length)
    BY <1>7, <2>1
  <2>3. \A j \in (k + 1)..date.day : Valid([target EXCEPT !.day = j]) <=> j <= length
    BY <1>6, <1>7, <2>1
  <2> HIDE DEF target, On
  <2>4. Fits(On(k)) <=> /\ Valid(On(k))
                        /\ \A j \in (k + 1)..date.day : ~Valid([target EXCEPT !.day = j])
    BY <2>2, Zenon
  <2> HIDE DEF Fits
  <2>5. \A j \in (k + 1)..date.day : j <= length <=> ~(j > length)
    BY <1>1, <1>3, <2>1
  <2>6. QED
    BY <2>2, <2>3, <2>4, <2>5
<1>11. \A k \in 1..date.day : Fits(On(k)) <=> On(k) = sum
  <2> SUFFICES ASSUME NEW k \in 1..date.day PROVE Fits(On(k)) <=> On(k) = sum
    OBVIOUS
  <2>1. On(k) = sum <=> k = IF date.day <= length THEN date.day ELSE length
    <3>1. On(k).day = k
      OBVIOUS
    <3>2. sum.day = IF date.day <= length THEN date.day ELSE length
      BY <1>5
    <3>3. QED
      BY <1>5, <3>1, <3>2, Zenon
  <2>2. (k <= length /\ \A j \in (k + 1)..date.day : j > length)
           <=> k = IF date.day <= length THEN date.day ELSE length
    BY <1>1, <1>3
  <2> HIDE DEF Fits, On
  <2>3. QED
    BY <1>10, <2>1, <2>2
<1>12. sum \in Days /\ Fits(sum)
  <2>1. PICK k \in 1..date.day : k = IF date.day <= length THEN date.day ELSE length
    BY <1>1, <1>3
  <2>2. sum = On(k)
    BY <1>5, <2>1
  <2> HIDE DEF Fits, Days, On
  <2>3. QED
    BY <1>9, <1>11, <2>2
<1>13. \A d \in Days : Fits(d) => d = sum
  <2> HIDE DEF Fits, Days, On
  <2> QED
    BY <1>9, <1>11
<1> HIDE DEF Fits, Days
<1>14. QED
  BY <1>8, <1>12, <1>13 DEF sum

\* For every duration, however long, add_calendar_months is the month that single
\* steps lead to, and the latest day of it that is not after the day of the start.
THEOREM SteppingAgrees == ChainSpec => []MatchesStepping
<1>1. ChainIInv => MatchesStepping
  BY DurationsAssumption, LatestValid DEF ChainIInv, ChainTypeOK, MatchesStepping
<1>2. QED
  BY <1>1, ChainInvariance, PTL
=============================================================================
