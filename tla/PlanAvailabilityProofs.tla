---------------------- MODULE PlanAvailabilityProofs ----------------------
(***************************************************************************)
(* Safety of PlanAvailability for every set of requests, plans and         *)
(* businesses.  The inductive invariant IInv says what a request knows and *)
(* which row it has locked at each statement; what it read under the lock  *)
(* is still so when it commits, because only the holder writes the row.    *)
(* SeenInv says what it has seen of the businesses it names; HoldersInv, at *)
(* the end, that who holds a lock is on its way to releasing it.           *)
(***************************************************************************)
EXTENDS PlanAvailability, TLAPS

SetSteps == {"clean", "narrow", "count", "delete", "read", "insert"}

UnderPlanLock == {"checks", "count", "delete", "read", "insert", "commit"}

PlanSteps == {"view", "unseen", "select", "lockPlan", "refused"}
                \cup SetSteps \cup UnderPlanLock

BusinessSteps == {"load", "update", "save"}

\* Which operation runs which statement, and on which row.
Flow(r) ==
    /\ pc[r] \in PlanSteps =>
          req[r].op \in {"set_availability", "edit_plan"} /\ req[r].plan \in Plans
    /\ pc[r] \in SetSteps => req[r].op = "set_availability"
    /\ pc[r] \in BusinessSteps =>
          /\ req[r].op \in {"save_business", "delete_business"}
          /\ req[r].plan = None
          /\ req[r].business \in Businesses
          /\ req[r].op = "save_business" => req[r].reseller \in Resellers

\* A request has been refused only in the steps that say so, and has businesses
\* to insert only when they were to be selected.
Progress(r) ==
    /\ pc[r] = "refused" => reads[r].refusal \in {"denied", "invalid"}
    /\ pc[r] \in {"idle"} \cup (Working \ {"refused"}) => reads[r].refusal = "none"
    /\ pc[r] \in {"idle"} \cup (Working \ {"insert", "commit"}) => reads[r].chosen = {}
    /\ pc[r] = "idle" => reads[r].ids = {}
    /\ pc[r] = "read" \/ reads[r].chosen # {} => req[r].mode = "selected_businesses"

\* The plan is locked, its price is the one that was read, and what was deleted
\* is all that is selected.
PlanHeld(r) ==
    /\ pc[r] \in UnderPlanLock =>
          /\ planLock[req[r].plan] = r
          /\ reads[r].price = price[req[r].plan]
    /\ pc[r] \in {"read", "insert"}
          \/ (pc[r] = "commit" /\ req[r].op = "set_availability") =>
              reads[r].doomed = offer[req[r].plan].selected

\* The business is locked; a move leaves no plan that has selected it behind.
BusinessHeld(r) ==
    pc[r] = "save" =>
        /\ businessLock[req[r].business] = r
        /\ req[r].op = "save_business" => ~OwnerConflicts(req[r].business, req[r].reseller)

RequestOK(r) == Flow(r) /\ Progress(r) /\ PlanHeld(r) /\ BusinessHeld(r)

\* The evidence of one request: exactly this, and with it what
\* EvidenceMatchesOutcome says of the request.
EvidenceOf(r) ==
    Told(r) = IF pc[r] = "ok" THEN {SuccessAction(r)}
              ELSE IF RefusalRecorded(r) THEN {"plan.rejected"} ELSE {}

IInv ==
    /\ TypeOK
    /\ AvailabilityIsOneRequests
    /\ \A r \in Requests : EvidenceOf(r)
    /\ \A r \in Requests : RequestOK(r)

LEMMA EvidenceIsOfEach ==
    ASSUME \A r \in Requests : EvidenceOf(r)
    PROVE  EvidenceMatchesOutcome
BY DEF EvidenceMatchesOutcome, EvidenceOf, RefusalRecorded

-----------------------------------------------------------------------------
\* Plans are offered to everybody, or to businesses of their own reseller.
LEMMA InitIInv == Init => IInv
<1> SUFFICES ASSUME Init PROVE IInv
  OBVIOUS
<1> PICK S \in Offered :
        offer = [p \in Plans |->
             [mode |-> IF S = {} THEN "all_businesses" ELSE "selected_businesses",
              selected |-> {[business |-> b, by |-> None] : b \in S}, by |-> None]]
  BY DEF Init
<1>1. S \subseteq Businesses
  BY OfferedAssumption
<1>2. offer \in [Plans -> Offer]
  BY <1>1 DEF Offer, Modes, Selection
<1>3. NoRequest \in Request
  BY DEF NoRequest, Request, Modes
<1>4. NoReads \in Reads
  BY DEF NoReads, Reads
<1>5. business \in [Businesses -> BusinessRow]
  BY RowsAssumption DEF Init, BusinessRow
<1>6. admins \subseteq Users \X Resellers
  BY RowsAssumption DEF Init
<1>7. \A r \in Requests : /\ reads[r].chosen = {} /\ reads[r].ids = {}
                          /\ reads[r].refusal = "none"
  BY DEF Init, NoReads
<1>8. TypeOK
  BY <1>2, <1>3, <1>4, <1>5, <1>6, <1>7, BoundsAssumption DEF Init, TypeOK
<1>9. AvailabilityIsOneRequests
  BY DEF AvailabilityIsOneRequests
<1>10. \A r \in Requests : EvidenceOf(r)
  BY DEF Init, EvidenceOf, Told, RefusalRecorded
<1>11. \A r \in Requests : RequestOK(r)
  BY <1>7 DEF Init, RequestOK, Flow, Progress, PlanHeld, BusinessHeld, SetSteps,
              UnderPlanLock, PlanSteps, BusinessSteps
<1>12. QED
  BY <1>8, <1>9, <1>10, <1>11 DEF IInv

\* What a request knows survives the steps of the others, which leave the rows
\* it has locked alone and select no business that it is moving.
LEMMA Undisturbed ==
    ASSUME TypeOK, NEW q \in Requests, RequestOK(q),
           pc'[q] = pc[q], req'[q] = req[q], reads'[q] = reads[q],
           \A p \in Plans : planLock[p] = q =>
              planLock'[p] = q /\ price'[p] = price[p] /\ offer'[p] = offer[p],
           \A b \in Businesses : businessLock[b] = q =>
              businessLock'[b] = q /\ business'[b] = business[b],
           \A b \in Businesses, p \in Plans :
              businessLock[b] = q /\ req[q].op = "save_business" /\ b \in Selected(p)'
                 => b \in Selected(p)
    PROVE  RequestOK(q)'
<1>1. Flow(q)' /\ Progress(q)'
  BY DEF RequestOK, Flow, Progress
<1>2. PlanHeld(q)'
  <2>1. pc[q] \in UnderPlanLock => req[q].plan \in Plans /\ planLock[req[q].plan] = q
    BY DEF RequestOK, Flow, PlanHeld, PlanSteps
  <2>2. QED
    BY <2>1 DEF RequestOK, PlanHeld, UnderPlanLock
<1>3. BusinessHeld(q)'
  <2>1. pc[q] = "save" =>
           req[q].business \in Businesses /\ businessLock[req[q].business] = q
    BY DEF RequestOK, Flow, BusinessHeld, BusinessSteps
  <2>2. QED
    BY <2>1 DEF RequestOK, BusinessHeld, OwnerConflicts
<1>4. QED
  BY <1>1, <1>2, <1>3 DEF RequestOK

\* So is the evidence of a request that another one's step says nothing about.
LEMMA EvidenceKept ==
    ASSUME NEW q \in Requests, EvidenceOf(q),
           pc'[q] = pc[q], req'[q] = req[q], reads'[q] = reads[q], Told(q)' = Told(q)
    PROVE  EvidenceOf(q)'
BY DEF EvidenceOf, SuccessAction, BusinessAction, RefusalRecorded

\* A step of r that writes no row.
LEMMA NoWrites ==
    ASSUME IInv, NEW r \in Requests, TypeOK', UNCHANGED rows,
           RequestOK(r)', EvidenceOf(r)',
           \A q \in Requests \ {r} :
              /\ pc'[q] = pc[q] /\ req'[q] = req[q] /\ reads'[q] = reads[q]
              /\ Told(q)' = Told(q)
              /\ \A p \in Plans : planLock[p] = q => planLock'[p] = q
              /\ \A b \in Businesses : businessLock[b] = q => businessLock'[b] = q
    PROVE  IInv'
<1>1. ASSUME NEW q \in Requests \ {r} PROVE RequestOK(q)' /\ EvidenceOf(q)'
  <2>1. EvidenceOf(q)'
    BY EvidenceKept DEF IInv
  <2>2. \A p \in Plans : Selected(p)' = Selected(p)
    BY DEF Selected, rows
  <2>3. RequestOK(q)'
    BY <2>2, Undisturbed DEF IInv, rows
  <2>4. QED
    BY <2>1, <2>3
<1>2. AvailabilityIsOneRequests'
  BY DEF IInv, AvailabilityIsOneRequests, rows
<1>3. QED
  BY <1>1, <1>2 DEF IInv

-----------------------------------------------------------------------------
\* The steps of which statements are made.

\* Ending a transaction frees the request's own locks and no other.
LEMMA ReleaseKeeps ==
    ASSUME TypeOK, NEW r \in Requests, Release(r)
    PROVE  /\ planLock' \in [Plans -> Requests \cup {None}]
           /\ businessLock' \in [Businesses -> Requests \cup {None}]
           /\ \A q \in Requests \ {r} :
                 /\ \A p \in Plans : planLock[p] = q => planLock'[p] = q
                 /\ \A b \in Businesses : businessLock[b] = q => businessLock'[b] = q
BY DEF TypeOK, Release

\* A statement that only reads.
LEMMA ContinueSafe ==
    ASSUME IInv, NEW r \in Requests, pc[r] \in Working \ {"refused"},
           NEW next \in Working \ {"refused"}, NEW read \in Reads, Continue(r, next, read),
           read.chosen \subseteq read.ids, read.ids \subseteq req[r].asked,
           RequestOK(r)'
    PROVE  IInv'
<1> USE DEF Continue
<1>1. TypeOK
  BY DEF IInv
<1>2. TypeOK'
  <2>1. pc' \in [Requests -> {"idle"} \cup Working \cup Answered]
        /\ reads' \in [Requests -> Reads]
    BY <1>1 DEF TypeOK
  <2>2. \A q \in Requests : reads'[q].chosen \subseteq reads'[q].ids
                            /\ reads'[q].ids \subseteq req'[q].asked
    BY <1>1 DEF TypeOK
  <2>3. QED
    BY <1>1, <2>1, <2>2 DEF TypeOK, rows, locks, scope
<1>3. EvidenceOf(r)'
  <2>1. Told(r) = {}
    BY DEF IInv, EvidenceOf, RefusalRecorded, Working
  <2>2. pc'[r] = next /\ Told(r)' = Told(r)
    BY <1>1 DEF TypeOK, Told
  <2>3. QED
    BY <2>1, <2>2 DEF EvidenceOf, RefusalRecorded, Working
<1>4. QED
  <2>1. \A q \in Requests \ {r} :
           /\ pc'[q] = pc[q] /\ req'[q] = req[q] /\ reads'[q] = reads[q]
           /\ Told(q)' = Told(q)
           /\ \A p \in Plans : planLock[p] = q => planLock'[p] = q
           /\ \A b \in Businesses : businessLock[b] = q => businessLock'[b] = q
    BY <1>1 DEF TypeOK, Told, locks
  <2>2. QED
    BY <1>2, <1>3, <2>1, NoWrites

\* A statement after which the request is answered, or refused.
LEMMA EndSafe ==
    ASSUME IInv, NEW r \in Requests, pc[r] \in Working,
           NEW next \in (Answered \ {"ok"}) \cup {"refused"},
           NEW refusal \in {"none", "denied", "invalid"}, End(r, next, refusal),
           next \in {"denied", "invalid"} => refusal = "none",
           next = "denied" => req[r].plan = None,
           next = "refused" => pc[r] \in PlanSteps \ {"insert", "commit"} /\ refusal # "none"
    PROVE  IInv'
<1> USE DEF End
<1>1. TypeOK
  BY DEF IInv
<1>2. /\ pc'[r] = next /\ req'[r] = req[r]
      /\ reads'[r] = [reads[r] EXCEPT !.refusal = refusal]
      /\ reads[r] \in Reads
  BY <1>1 DEF TypeOK
<1>3. /\ reads'[r] \in Reads /\ reads'[r].refusal = refusal
      /\ reads'[r].chosen = reads[r].chosen /\ reads'[r].ids = reads[r].ids
  BY <1>2 DEF Reads
<1>4. TypeOK'
  <2>1. pc' \in [Requests -> {"idle"} \cup Working \cup Answered]
    BY <1>1 DEF TypeOK, Working, Answered
  <2>2. reads' \in [Requests -> Reads]
    BY <1>1, <1>3 DEF TypeOK
  <2>3. \A q \in Requests : reads'[q].chosen \subseteq reads'[q].ids
                            /\ reads'[q].ids \subseteq req'[q].asked
    BY <1>1, <1>3 DEF TypeOK
  <2>4. QED
    BY <1>1, <2>1, <2>2, <2>3, ReleaseKeeps DEF TypeOK, rows, scope
<1>5. EvidenceOf(r)'
  <2>1. Told(r) = {}
    BY DEF IInv, EvidenceOf, RefusalRecorded, Working
  <2>2. Told(r)' = Told(r)
    BY DEF Told
  <2>3. QED
    BY <1>2, <1>3, <2>1, <2>2 DEF EvidenceOf, RefusalRecorded, Answered
<1>6. RequestOK(r)'
  <2>1. Progress(r)'
    BY <1>2, <1>3 DEF IInv, RequestOK, Progress, Working, Answered
  <2>2. Flow(r)'
    BY <1>2 DEF IInv, RequestOK, Flow, PlanSteps, SetSteps, UnderPlanLock, BusinessSteps,
                Answered
  <2>3. PlanHeld(r)' /\ BusinessHeld(r)'
    BY <1>2 DEF PlanHeld, BusinessHeld, UnderPlanLock, Answered
  <2>4. QED
    BY <2>1, <2>2, <2>3 DEF RequestOK
<1>7. QED
  <2>1. \A q \in Requests \ {r} :
           /\ pc'[q] = pc[q] /\ req'[q] = req[q] /\ reads'[q] = reads[q]
           /\ Told(q)' = Told(q)
    BY <1>1 DEF TypeOK, Told
  <2>2. QED
    BY <1>1, <1>4, <1>5, <1>6, <2>1, ReleaseKeeps, NoWrites

-----------------------------------------------------------------------------
\* The statements that only read.

LEMMA ViewPlanStep == ASSUME IInv, NEW r \in Requests, ViewPlan(r) PROVE IInv'
<1> PICK next \in {"unseen", "clean", "select"} :
        /\ Continue(r, next, reads[r])
        /\ next = "clean" => req[r].op = "set_availability"
  BY DEF ViewPlan
<1>1. /\ pc'[r] = next /\ UNCHANGED <<rows, req>> /\ reads'[r] = reads[r]
      /\ reads[r] \in Reads
  BY DEF Continue, IInv, TypeOK
<1>2. RequestOK(r)'
  BY <1>1 DEF ViewPlan, IInv, RequestOK, Flow, Progress, PlanHeld, BusinessHeld, SetSteps,
              UnderPlanLock, PlanSteps, BusinessSteps, Working
<1>3. QED
  BY <1>1, <1>2, ContinueSafe DEF ViewPlan, IInv, TypeOK, Working

LEMMA CleanFormStep == ASSUME IInv, NEW r \in Requests, CleanForm(r) PROVE IInv'
<1>1. CASE Continue(r, "narrow", reads[r])
  <2>1. /\ pc'[r] = "narrow" /\ UNCHANGED <<rows, req>> /\ reads'[r] = reads[r]
        /\ reads[r] \in Reads
    BY <1>1 DEF Continue, IInv, TypeOK
  <2>2. RequestOK(r)'
    BY <2>1 DEF CleanForm, IInv, RequestOK, Flow, Progress, PlanHeld, BusinessHeld, SetSteps,
                UnderPlanLock, PlanSteps, BusinessSteps, Working
  <2>3. QED
    BY <1>1, <2>1, <2>2, ContinueSafe DEF CleanForm, IInv, TypeOK, Working
<1>2. CASE End(r, "invalid", "none")
  BY <1>2, EndSafe DEF CleanForm, Working, Answered
<1>3. QED
  BY <1>1, <1>2 DEF CleanForm

LEMMA NarrowChoiceStep == ASSUME IInv, NEW r \in Requests, NarrowChoice(r) PROVE IInv'
<1> DEFINE ids == req[r].asked \cap Eligible(req[r].plan)
           read == [reads[r] EXCEPT !.ids = ids]
<1>1. /\ pc[r] = "narrow" /\ Continue(r, "select", read)
      /\ reads[r] \in Reads /\ req[r] \in Request
  BY DEF NarrowChoice, IInv, TypeOK
<1>2. ids \in SUBSET Businesses
  BY DEF Eligible
<1>3. /\ read \in Reads /\ read.ids = ids
      /\ read.chosen = reads[r].chosen /\ read.refusal = reads[r].refusal
  <2> HIDE DEF ids
  <2> QED
    BY <1>1, <1>2 DEF Reads
<1>4. reads[r].chosen = {} /\ ids \subseteq req[r].asked
  BY <1>1 DEF IInv, RequestOK, Progress, Working
<1> HIDE DEF ids, read
<1>5. pc'[r] = "select" /\ UNCHANGED <<rows, req>> /\ reads'[r] = read
  BY <1>1 DEF Continue, IInv, TypeOK
<1>6. RequestOK(r)'
  BY <1>1, <1>3, <1>4, <1>5 DEF IInv, RequestOK, Flow, Progress, PlanHeld, BusinessHeld,
       SetSteps, UnderPlanLock, PlanSteps, BusinessSteps, Working
<1>7. QED
  BY <1>1, <1>3, <1>4, <1>6, ContinueSafe DEF Working

LEMMA SelectEditablePlanStep ==
    ASSUME IInv, NEW r \in Requests, SelectEditablePlan(r) PROVE IInv'
<1> DEFINE p == req[r].plan
           read == [reads[r] EXCEPT !.provider = p \in supplied, !.price = price[p]]
<1>1. /\ pc[r] = "select" /\ reads[r] \in Reads
      /\ reads[r].chosen \subseteq reads[r].ids /\ reads[r].ids \subseteq req[r].asked
      /\ p \in Plans /\ price[p] \in Requests \cup {None}
  BY DEF SelectEditablePlan, IInv, TypeOK, RequestOK, Flow, PlanSteps
<1>2. CASE Continue(r, "lockPlan", read)
  <2>1. /\ read \in Reads /\ read.ids = reads[r].ids
        /\ read.chosen = reads[r].chosen /\ read.refusal = reads[r].refusal
    <3> DEFINE provided == p \in supplied
               paid == price[p]
    <3>1. provided \in BOOLEAN /\ paid \in Requests \cup {None}
      BY <1>1
    <3>2. read = [reads[r] EXCEPT !.provider = provided, !.price = paid]
      OBVIOUS
    <3> HIDE DEF provided, paid, read
    <3>3. QED
      BY <1>1, <3>1, <3>2 DEF Reads
  <2> HIDE DEF read
  <2>2. pc'[r] = "lockPlan" /\ UNCHANGED <<rows, req>> /\ reads'[r] = read
    BY <1>2, <2>1 DEF Continue, IInv, TypeOK
  <2>3. RequestOK(r)'
    BY <1>1, <2>1, <2>2 DEF IInv, RequestOK, Flow, Progress, PlanHeld, BusinessHeld,
         SetSteps, UnderPlanLock, PlanSteps, BusinessSteps, Working
  <2>4. QED
    BY <1>1, <1>2, <2>1, <2>3, ContinueSafe DEF Working
<1>3. CASE Refuse(r, "denied")
  BY <1>1, <1>3, EndSafe DEF Refuse, PlanSteps, Working
<1>4. QED
  BY <1>2, <1>3 DEF SelectEditablePlan

LEMMA CheckEditablePlanStep ==
    ASSUME IInv, NEW r \in Requests, CheckEditablePlan(r) PROVE IInv'
<1>1. /\ pc[r] = "checks" /\ reads[r] \in Reads
      /\ reads[r].chosen \subseteq reads[r].ids /\ reads[r].ids \subseteq req[r].asked
  BY DEF CheckEditablePlan, IInv, TypeOK
<1>2. ASSUME NEW next \in {"commit", "count"}, Continue(r, next, reads[r]),
             next = "commit" <=> req[r].op = "edit_plan"
      PROVE  IInv'
  <2>1. pc'[r] = next /\ UNCHANGED <<rows, req, planLock>> /\ reads'[r] = reads[r]
    BY <1>2 DEF Continue, IInv, TypeOK, locks
  <2>2. RequestOK(r)'
    BY <1>1, <1>2, <2>1 DEF IInv, RequestOK, Flow, Progress, PlanHeld, BusinessHeld, rows,
         SetSteps, UnderPlanLock, PlanSteps, BusinessSteps, Working
  <2>3. QED
    BY <1>1, <1>2, <2>2, ContinueSafe DEF Working
<1>3. ASSUME NEW why \in {"denied", "invalid"}, Refuse(r, why) PROVE IInv'
  BY <1>1, <1>3, EndSafe DEF Refuse, PlanSteps, UnderPlanLock, Working
<1>4. QED
  BY <1>2, <1>3 DEF CheckEditablePlan

LEMMA CountBusinessesStep ==
    ASSUME IInv, NEW r \in Requests, CountBusinesses(r) PROVE IInv'
<1>1. /\ pc[r] = "count" /\ reads[r] \in Reads
      /\ reads[r].chosen \subseteq reads[r].ids /\ reads[r].ids \subseteq req[r].asked
  BY DEF CountBusinesses, IInv, TypeOK
<1>2. CASE Continue(r, "delete", reads[r])
  <2>1. pc'[r] = "delete" /\ UNCHANGED <<rows, req, planLock>> /\ reads'[r] = reads[r]
    BY <1>2 DEF Continue, IInv, TypeOK, locks
  <2>2. RequestOK(r)'
    BY <1>1, <2>1 DEF IInv, RequestOK, Flow, Progress, PlanHeld, BusinessHeld, rows,
         SetSteps, UnderPlanLock, PlanSteps, BusinessSteps, Working
  <2>3. QED
    BY <1>1, <1>2, <2>2, ContinueSafe DEF Working
<1>3. CASE Refuse(r, "invalid")
  BY <1>1, <1>3, EndSafe DEF Refuse, PlanSteps, UnderPlanLock, Working
<1>4. QED
  BY <1>2, <1>3 DEF CountBusinesses

\* What is to be deleted is all that is selected, for the plan is locked.
LEMMA DeleteSelectionsStep ==
    ASSUME IInv, NEW r \in Requests, DeleteSelections(r) PROVE IInv'
<1> DEFINE doomed == offer[req[r].plan].selected
           read == [reads[r] EXCEPT !.doomed = doomed]
<1> PICK next \in {"read", "commit"} :
        /\ Continue(r, next, read)
        /\ next = "read" <=> req[r].mode = "selected_businesses"
  BY DEF DeleteSelections, Deleted
<1>1. /\ pc[r] = "delete" /\ reads[r] \in Reads
      /\ reads[r].chosen \subseteq reads[r].ids /\ reads[r].ids \subseteq req[r].asked
      /\ req[r].plan \in Plans /\ doomed \in SUBSET Selection
  BY DEF DeleteSelections, Deleted, IInv, TypeOK, RequestOK, Flow, PlanSteps, SetSteps, Offer
<1>2. /\ read \in Reads /\ read.ids = reads[r].ids /\ read.doomed = doomed
      /\ read.chosen = reads[r].chosen /\ read.refusal = reads[r].refusal
      /\ read.price = reads[r].price
  <2> HIDE DEF doomed
  <2> QED
    BY <1>1 DEF Reads
<1> HIDE DEF read
<1>3. pc'[r] = next /\ UNCHANGED <<rows, req, planLock>> /\ reads'[r] = read
  BY DEF Continue, IInv, TypeOK, locks
<1>4. RequestOK(r)'
  BY <1>1, <1>2, <1>3 DEF IInv, RequestOK, Flow, Progress, PlanHeld, BusinessHeld, rows,
       SetSteps, UnderPlanLock, PlanSteps, BusinessSteps, Working
<1>5. QED
  BY <1>1, <1>2, <1>4, ContinueSafe DEF Working

LEMMA ReadBusinessesStep ==
    ASSUME IInv, NEW r \in Requests, ReadBusinesses(r) PROVE IInv'
<1> DEFINE chosen == reads[r].ids \cap Eligible(req[r].plan)
           read == [reads[r] EXCEPT !.chosen = chosen]
<1>1. /\ pc[r] = "read" /\ Continue(r, "insert", read) /\ reads[r] \in Reads
      /\ reads[r].ids \subseteq req[r].asked
  BY DEF ReadBusinesses, IInv, TypeOK
<1>2. chosen \in SUBSET Businesses /\ chosen \subseteq reads[r].ids
  BY DEF Eligible
<1>3. /\ read \in Reads /\ read.ids = reads[r].ids /\ read.doomed = reads[r].doomed
      /\ read.chosen = chosen /\ read.refusal = reads[r].refusal
      /\ read.price = reads[r].price
  <2> HIDE DEF chosen
  <2> QED
    BY <1>1, <1>2 DEF Reads
<1> HIDE DEF chosen, read
<1>4. pc'[r] = "insert" /\ UNCHANGED <<rows, req, planLock>> /\ reads'[r] = read
  BY <1>1 DEF Continue, IInv, TypeOK, locks
<1>5. RequestOK(r)'
  BY <1>1, <1>3, <1>4 DEF IInv, RequestOK, Flow, Progress, PlanHeld, BusinessHeld, rows,
       SetSteps, UnderPlanLock, PlanSteps, BusinessSteps, Working
<1>6. QED
  BY <1>1, <1>2, <1>3, <1>5, ContinueSafe DEF Working

LEMMA InsertSelectionsStep ==
    ASSUME IInv, NEW r \in Requests, InsertSelections(r) PROVE IInv'
<1>1. /\ pc[r] = "insert" /\ reads[r] \in Reads
      /\ reads[r].chosen \subseteq reads[r].ids /\ reads[r].ids \subseteq req[r].asked
  BY DEF InsertSelections, IInv, TypeOK
<1>2. CASE Continue(r, "commit", reads[r])
  <2>1. pc'[r] = "commit" /\ UNCHANGED <<rows, req, planLock>> /\ reads'[r] = reads[r]
    BY <1>2 DEF Continue, IInv, TypeOK, locks
  <2>2. RequestOK(r)'
    BY <1>1, <2>1 DEF IInv, RequestOK, Flow, Progress, PlanHeld, BusinessHeld, rows,
         SetSteps, UnderPlanLock, PlanSteps, BusinessSteps, Working
  <2>3. QED
    BY <1>1, <1>2, <2>2, ContinueSafe DEF Working
<1>3. CASE End(r, "error", "none")
  BY <1>1, <1>3, EndSafe DEF Working, Answered
<1>4. QED
  BY <1>2, <1>3 DEF InsertSelections

LEMMA LoadBusinessStep ==
    ASSUME IInv, NEW r \in Requests, LoadBusiness(r) PROVE IInv'
<1> DEFINE row == business[req[r].business]
           read == [reads[r] EXCEPT !.row = row]
<1>1. /\ pc[r] = "load" /\ reads[r] \in Reads
      /\ reads[r].chosen \subseteq reads[r].ids /\ reads[r].ids \subseteq req[r].asked
      /\ req[r].plan = None /\ row \in BusinessRow
  BY DEF LoadBusiness, IInv, TypeOK, RequestOK, Flow, BusinessSteps
<1>2. CASE Continue(r, "update", read)
  <2>1. row \in [reseller : Resellers \cup {None}, active : BOOLEAN, deleted : BOOLEAN]
    <3> HIDE DEF row
    <3> QED
      BY <1>1 DEF BusinessRow
  <2>2. /\ read \in Reads /\ read.ids = reads[r].ids
        /\ read.chosen = reads[r].chosen /\ read.refusal = reads[r].refusal
    <3> HIDE DEF row
    <3> QED
      BY <1>1, <2>1 DEF Reads
  <2> HIDE DEF read
  <2>3. pc'[r] = "update" /\ UNCHANGED <<rows, req>> /\ reads'[r] = read
    BY <1>2 DEF Continue, IInv, TypeOK
  <2>4. RequestOK(r)'
    BY <1>1, <2>2, <2>3 DEF IInv, RequestOK, Flow, Progress, PlanHeld, BusinessHeld,
         SetSteps, UnderPlanLock, PlanSteps, BusinessSteps, Working
  <2>5. QED
    BY <1>1, <1>2, <2>2, <2>4, ContinueSafe DEF Working
<1>3. CASE End(r, "denied", "none")
  BY <1>1, <1>3, EndSafe DEF Working, Answered
<1>4. QED
  BY <1>2, <1>3 DEF LoadBusiness

LEMMA CrashStep == ASSUME IInv, NEW r \in Requests, Crash(r) PROVE IInv'
<1>1. reads[r].refusal \in {"none", "denied", "invalid"}
  BY DEF IInv, TypeOK, Reads
<1>2. QED
  BY <1>1, EndSafe DEF Crash, Working, Answered

-----------------------------------------------------------------------------
\* The statements that lock a row.

LEMMA LockPlanStep == ASSUME IInv, NEW r \in Requests, LockPlan(r) PROVE IInv'
<1> USE DEF LockPlan
<1> DEFINE p == req[r].plan
           paid == price[p]
           read == [reads[r] EXCEPT !.price = paid]
<1>1. TypeOK
  BY DEF IInv
<1>2. /\ p \in Plans /\ reads[r] \in Reads /\ paid \in Requests \cup {None}
      /\ reads'[r] = read /\ pc'[r] = "checks"
  BY <1>1 DEF IInv, TypeOK, RequestOK, Flow, PlanSteps
<1>3. /\ read \in Reads /\ read.ids = reads[r].ids /\ read.chosen = reads[r].chosen
      /\ read.refusal = reads[r].refusal /\ read.price = paid
  <2> HIDE DEF paid
  <2> QED
    BY <1>2 DEF Reads
<1>4. planLock'[p] = r /\ planLock' \in [Plans -> Requests \cup {None}]
  BY <1>1, <1>2 DEF TypeOK
<1> HIDE DEF read
<1>5. TypeOK'
  <2>1. pc' \in [Requests -> {"idle"} \cup Working \cup Answered]
    BY <1>1 DEF TypeOK, Working
  <2>2. reads' \in [Requests -> Reads]
    BY <1>1, <1>2, <1>3 DEF TypeOK, read
  <2>3. \A q \in Requests : reads'[q].chosen \subseteq reads'[q].ids
                            /\ reads'[q].ids \subseteq req'[q].asked
    BY <1>1, <1>2, <1>3 DEF TypeOK
  <2>4. QED
    BY <1>1, <1>4, <2>1, <2>2, <2>3 DEF TypeOK, rows, scope
<1>6. RequestOK(r)'
  BY <1>2, <1>3, <1>4 DEF IInv, RequestOK, Flow, Progress, PlanHeld, BusinessHeld, rows,
       SetSteps, UnderPlanLock, PlanSteps, BusinessSteps, Working
<1>7. EvidenceOf(r)'
  BY <1>2 DEF IInv, EvidenceOf, Told, RefusalRecorded
<1>8. \A q \in Requests \ {r} :
         /\ pc'[q] = pc[q] /\ req'[q] = req[q] /\ reads'[q] = reads[q]
         /\ Told(q)' = Told(q)
         /\ \A a \in Plans : planLock[a] = q => planLock'[a] = q
         /\ \A b \in Businesses : businessLock[b] = q => businessLock'[b] = q
  BY <1>1, NoneAssumption DEF TypeOK, Told
<1>9. QED
  BY <1>5, <1>6, <1>7, <1>8, NoWrites

\* The trigger lets a business go only when no plan that has selected it stays.
LEMMA UpdateBusinessStep ==
    ASSUME IInv, NEW r \in Requests, UpdateBusiness(r) PROVE IInv'
<1> DEFINE b == req[r].business
<1>1. TypeOK /\ pc[r] = "update" /\ b \in Businesses /\ req[r].plan = None
  BY DEF UpdateBusiness, IInv, RequestOK, Flow, BusinessSteps
<1>2. CASE End(r, "error", "none")
  BY <1>1, <1>2, EndSafe DEF Working, Answered
<1>3. CASE ~End(r, "error", "none")
  <2>1. /\ businessLock[b] = None
        /\ businessLock' = [businessLock EXCEPT ![b] = r]
        /\ pc' = [pc EXCEPT ![r] = "save"]
        /\ UNCHANGED <<rows, audit, planLock, req, reads, scope, witnessed>>
        /\ req[r].op = "save_business" => ~OwnerConflicts(b, req[r].reseller)
    BY <1>3 DEF UpdateBusiness
  <2>2. pc'[r] = "save" /\ businessLock'[b] = r
    BY <1>1, <2>1 DEF TypeOK
  <2>3. TypeOK'
    BY <1>1, <2>1 DEF TypeOK, rows, scope, Working
  <2>4. req[r].op = "save_business" => ~OwnerConflicts(b, req[r].reseller)'
    BY <2>1 DEF OwnerConflicts, Selected, rows
  <2>5. RequestOK(r)'
    BY <1>1, <2>1, <2>2, <2>4 DEF IInv, RequestOK, Flow, Progress, PlanHeld, BusinessHeld,
         SetSteps, UnderPlanLock, PlanSteps, BusinessSteps, Working
  <2>6. EvidenceOf(r)'
    BY <1>1, <2>1, <2>2 DEF IInv, EvidenceOf, Told, RefusalRecorded
  <2>7. \A q \in Requests \ {r} :
           /\ pc'[q] = pc[q] /\ req'[q] = req[q] /\ reads'[q] = reads[q]
           /\ Told(q)' = Told(q)
           /\ \A p \in Plans : planLock[p] = q => planLock'[p] = q
           /\ \A a \in Businesses : businessLock[a] = q => businessLock'[a] = q
    BY <1>1, <2>1, NoneAssumption DEF TypeOK, Told
  <2>8. QED
    BY <2>1, <2>3, <2>5, <2>6, <2>7, NoWrites
<1>4. QED
  BY <1>2, <1>3

-----------------------------------------------------------------------------
\* The statements that write.

Actions == {"plan.updated", "plan.availability_updated", "plan.rejected",
            "organization.updated", "organization.reactivated",
            "organization.deactivated", "organization.soft_deleted"}

\* An audit event tells of the request that recorded it, and of no other.
LEMMA Recorded ==
    ASSUME TypeOK, NEW r \in Requests, NEW action \in Actions,
           audit' = audit \cup {Event(r, action)}
    PROVE  /\ audit' \subseteq AuditEvents
           /\ Told(r)' = Told(r) \cup {action}
           /\ \A q \in Requests \ {r} : Told(q)' = Told(q)
<1> DEFINE event == Event(r, action)
<1>1. req[r] \in Request
  BY DEF TypeOK
<1>2. event \in AuditEvents /\ event.request = r /\ event.action = action
  BY <1>1 DEF Event, AuditEvents, Actions, Request
<1> HIDE DEF event
<1>3. audit' = audit \cup {event}
  BY DEF event
<1>4. QED
  BY <1>2, <1>3 DEF TypeOK, Told

LEMMA RejectRequestStep ==
    ASSUME IInv, NEW r \in Requests, RejectRequest(r) PROVE IInv'
<1> USE DEF RejectRequest
<1>1. /\ TypeOK /\ pc[r] = "unseen" /\ pc'[r] = "denied" /\ req[r].plan \in Plans
      /\ reads[r].refusal = "none" /\ Told(r) = {}
  BY DEF IInv, TypeOK, RequestOK, Flow, Progress, PlanSteps, Working, EvidenceOf,
         RefusalRecorded
<1>2. /\ audit' \subseteq AuditEvents /\ Told(r)' = {"plan.rejected"}
      /\ \A q \in Requests \ {r} : Told(q)' = Told(q)
  BY <1>1, Recorded DEF Actions
<1>3. TypeOK'
  BY <1>1, <1>2 DEF TypeOK, rows, locks, scope, Answered
<1>4. EvidenceOf(r)'
  BY <1>1, <1>2, NoneAssumption DEF EvidenceOf, RefusalRecorded
<1>5. RequestOK(r)'
  BY <1>1 DEF IInv, RequestOK, Flow, Progress, PlanHeld, BusinessHeld, SetSteps,
              UnderPlanLock, PlanSteps, BusinessSteps, Working
<1>6. QED
  BY <1>1, <1>2, <1>3, <1>4, <1>5, NoWrites DEF TypeOK, locks

LEMMA RecordRefusalStep ==
    ASSUME IInv, NEW r \in Requests, RecordRefusal(r) PROVE IInv'
<1> USE DEF RecordRefusal
<1>1. /\ TypeOK /\ pc[r] = "refused" /\ pc'[r] = reads[r].refusal
      /\ reads[r].refusal \in {"denied", "invalid"} /\ Told(r) = {}
  BY DEF IInv, TypeOK, RequestOK, Progress, EvidenceOf, RefusalRecorded
<1>2. /\ audit' \subseteq AuditEvents
      /\ Told(r)' = IF req[r].op = "edit_plan" THEN {"plan.rejected"} ELSE {}
      /\ \A q \in Requests \ {r} : Told(q)' = Told(q)
  <2>1. CASE req[r].op = "edit_plan"
    BY <1>1, <2>1, Recorded DEF Actions
  <2>2. CASE req[r].op # "edit_plan"
    BY <1>1, <2>2 DEF TypeOK, Told
  <2>3. QED
    BY <2>1, <2>2
<1>3. TypeOK'
  BY <1>1, <1>2 DEF TypeOK, rows, locks, scope, Answered
<1>4. EvidenceOf(r)'
  BY <1>1, <1>2 DEF EvidenceOf, RefusalRecorded
<1>5. RequestOK(r)'
  BY <1>1 DEF IInv, RequestOK, Flow, Progress, PlanHeld, BusinessHeld, SetSteps,
              UnderPlanLock, PlanSteps, BusinessSteps, Working
<1>6. QED
  BY <1>1, <1>2, <1>3, <1>4, <1>5, NoWrites DEF TypeOK, locks

\* A commit keeps what is known of it and the others when it writes only rows
\* that it has locked, and selects no business that is being moved.
LEMMA CommitSafe ==
    ASSUME IInv, NEW r \in Requests, pc[r] \in {"commit", "save"},
           pc' = [pc EXCEPT ![r] = "ok"], Release(r), UNCHANGED <<req, reads, scope>>,
           NEW action \in Actions, action = SuccessAction(r),
           audit' = audit \cup {Event(r, action)},
           business' \in [Businesses -> BusinessRow], offer' \in [Plans -> Offer],
           price' \in [Plans -> Requests \cup {None}],
           witnessed' \in [Requests -> SUBSET (Businesses \X BusinessRow)],
           AvailabilityIsOneRequests',
           \A p \in Plans : planLock[p] # r => price'[p] = price[p] /\ offer'[p] = offer[p],
           \A b \in Businesses : businessLock[b] # r => business'[b] = business[b],
           \A b \in Businesses, p \in Plans : KeyLocked(b) /\ b \in Selected(p)'
              => b \in Selected(p)
    PROVE  IInv'
<1>1. TypeOK /\ pc'[r] = "ok" /\ Told(r) = {}
  BY DEF IInv, TypeOK, EvidenceOf, RefusalRecorded
<1>2. /\ audit' \subseteq AuditEvents /\ Told(r)' = {action}
      /\ \A q \in Requests \ {r} : Told(q)' = Told(q)
  BY <1>1, Recorded
<1>3. TypeOK'
  <2>1. pc' \in [Requests -> {"idle"} \cup Working \cup Answered]
    BY <1>1 DEF TypeOK, Answered
  <2>2. /\ planLock' \in [Plans -> Requests \cup {None}]
        /\ businessLock' \in [Businesses -> Requests \cup {None}]
    BY <1>1, ReleaseKeeps
  <2>3. QED
    BY <1>1, <1>2, <2>1, <2>2 DEF TypeOK, scope
<1>4. EvidenceOf(r)'
  BY <1>1, <1>2 DEF EvidenceOf, SuccessAction, BusinessAction
<1>5. RequestOK(r)'
  BY <1>1 DEF IInv, RequestOK, Flow, Progress, PlanHeld, BusinessHeld, SetSteps,
              UnderPlanLock, PlanSteps, BusinessSteps, Working
<1>6. ASSUME NEW q \in Requests \ {r} PROVE RequestOK(q)' /\ EvidenceOf(q)'
  <2>1. pc'[q] = pc[q] /\ req'[q] = req[q] /\ reads'[q] = reads[q]
    BY <1>1 DEF TypeOK
  <2>2. EvidenceOf(q)'
    BY <1>2, <2>1, EvidenceKept DEF IInv
  <2>3. \A p \in Plans : planLock[p] = q =>
           planLock'[p] = q /\ price'[p] = price[p] /\ offer'[p] = offer[p]
    BY <1>1, ReleaseKeeps
  <2>4. \A b \in Businesses : businessLock[b] = q =>
           businessLock'[b] = q /\ business'[b] = business[b]
    BY <1>1, ReleaseKeeps
  <2>5. \A b \in Businesses, p \in Plans :
           businessLock[b] = q /\ req[q].op = "save_business" /\ b \in Selected(p)'
              => b \in Selected(p)
    BY NoneAssumption DEF KeyLocked
  <2>6. RequestOK(q)'
    BY <1>1, <2>1, <2>3, <2>4, <2>5, Undisturbed DEF IInv
  <2>7. QED
    BY <2>2, <2>6
<1>7. QED
  BY <1>4, <1>5, <1>6, <1>3 DEF IInv

\* Only a platform operator's edit changes what was read under the lock.
LEMMA CommitEditStep ==
    ASSUME IInv, NEW r \in Requests, CommitEdit(r)
    PROVE  /\ IInv'
           /\ \A p \in Plans : price'[p] # price[p] =>
                 /\ pc[r] = "commit" /\ pc'[r] = "ok"
                 /\ req[r].actor \in Superusers
                 /\ price'[p] = r
<1> USE DEF CommitEdit
<1> DEFINE p == req[r].plan
           paid == IF req[r].actor \in Superusers THEN r ELSE reads[r].price
<1>1. /\ TypeOK /\ p \in Plans /\ planLock[p] = r /\ reads[r].price = price[p]
      /\ price' = [price EXCEPT ![p] = paid]
  BY DEF IInv, RequestOK, Flow, PlanHeld, PlanSteps, UnderPlanLock
<1>2. paid \in Requests \cup {None}
  BY <1>1 DEF TypeOK
<1> HIDE DEF p, paid
<1>3. SuccessAction(r) = "plan.updated" /\ "plan.updated" \in Actions
  BY DEF SuccessAction, Actions
<1>4. /\ price' \in [Plans -> Requests \cup {None}]
      /\ business' \in [Businesses -> BusinessRow] /\ offer' \in [Plans -> Offer]
      /\ witnessed' \in [Requests -> SUBSET (Businesses \X BusinessRow)]
  BY <1>1, <1>2 DEF TypeOK
<1>5. AvailabilityIsOneRequests'
  BY DEF IInv, AvailabilityIsOneRequests
<1>6. \A a \in Plans : planLock[a] # r => price'[a] = price[a]
  BY <1>1 DEF TypeOK
<1>7. \A a \in Plans : Selected(a)' = Selected(a)
  BY DEF Selected
<1>8. IInv'
  BY <1>3, <1>4, <1>5, <1>6, <1>7, CommitSafe
<1>9. QED
  BY <1>1, <1>8 DEF TypeOK, paid

\* Nothing is left of what was selected, and what is inserted is this request's.
LEMMA CommitAvailabilityStep ==
    ASSUME IInv, NEW r \in Requests, CommitAvailability(r) PROVE IInv'
<1> USE DEF CommitAvailability
<1> DEFINE p == req[r].plan
           chosen == reads[r].chosen
           inserted == {[business |-> b, by |-> r] : b \in chosen}
           new == [mode |-> req[r].mode, by |-> r, selected |-> inserted]
<1>1. /\ TypeOK /\ p \in Plans /\ planLock[p] = r
      /\ reads[r].doomed = offer[p].selected
      /\ chosen # {} => req[r].mode = "selected_businesses"
      /\ chosen \subseteq Businesses /\ req[r].mode \in Modes
  BY DEF IInv, TypeOK, RequestOK, Flow, Progress, PlanHeld, PlanSteps, UnderPlanLock, Reads,
         Request
<1>2. offer' = [offer EXCEPT ![p] =
        [mode |-> req[r].mode, by |-> r,
         selected |-> (offer[p].selected \ reads[r].doomed) \cup inserted]]
  BY <1>1 DEF TypeOK
<1>3. (offer[p].selected \ reads[r].doomed) \cup inserted = inserted
  BY <1>1
<1>4. offer' = [offer EXCEPT ![p] = new]
  BY <1>2, <1>3
<1>5. new \in Offer
  BY <1>1 DEF Offer, Selection
<1>6. \A s \in new.selected : s.by = new.by /\ new.mode = "selected_businesses"
  BY <1>1
<1>7. \A s \in new.selected : s.business \in chosen
  OBVIOUS
<1> HIDE DEF p, chosen, inserted, new
<1>8. offer'[p] = new /\ \A a \in Plans \ {p} : offer'[a] = offer[a]
  BY <1>1, <1>4 DEF TypeOK
<1>9. /\ SuccessAction(r) = "plan.availability_updated"
      /\ "plan.availability_updated" \in Actions
  BY DEF SuccessAction, Actions
<1>10. /\ offer' \in [Plans -> Offer]
       /\ business' \in [Businesses -> BusinessRow]
       /\ price' \in [Plans -> Requests \cup {None}]
       /\ witnessed' \in [Requests -> SUBSET (Businesses \X BusinessRow)]
  <2>1. offer' \in [Plans -> Offer]
    <3> HIDE DEF CommitAvailability
    <3> QED
      BY <1>1, <1>4, <1>5 DEF TypeOK
  <2>2. QED
    BY <1>1, <2>1 DEF TypeOK
<1>11. AvailabilityIsOneRequests'
  BY <1>6, <1>8 DEF IInv, AvailabilityIsOneRequests
<1>12. \A a \in Plans : planLock[a] # r => offer'[a] = offer[a]
  BY <1>1, <1>8
<1>13. \A b \in Businesses, a \in Plans : KeyLocked(b) /\ b \in Selected(a)'
          => b \in Selected(a)
  <2> SUFFICES ASSUME NEW b \in Businesses, NEW a \in Plans, KeyLocked(b),
                      b \in Selected(a)'
               PROVE  b \in Selected(a)
    OBVIOUS
  <2>1. b \notin chosen
    BY DEF chosen
  <2>2. CASE a = p
    BY <1>7, <1>8, <2>1, <2>2 DEF Selected
  <2>3. CASE a # p
    BY <1>8, <2>3 DEF Selected
  <2>4. QED
    BY <2>2, <2>3
<1>14. QED
  BY <1>9, <1>10, <1>11, <1>12, <1>13, CommitSafe

\* A business keeps the reseller of every plan that has selected it.
LEMMA CommitBusinessStep ==
    ASSUME IInv, NEW r \in Requests, CommitBusiness(r)
    PROVE  /\ IInv'
           /\ \A p \in Plans : \A s \in offer[p].selected :
                 business[s.business].reseller = Owner[p]
                     => business'[s.business].reseller = Owner[p]
<1> USE DEF CommitBusiness
<1> DEFINE b == req[r].business
           saved == Saved(r)
<1>1. /\ TypeOK /\ b \in Businesses /\ businessLock[b] = r
      /\ business[b] \in BusinessRow /\ req[r] \in Request /\ reads[r] \in Reads
      /\ req[r].op \in {"save_business", "delete_business"}
      /\ req[r].op = "save_business" =>
            req[r].reseller \in Resellers /\ ~OwnerConflicts(b, req[r].reseller)
  BY DEF IInv, TypeOK, RequestOK, Flow, BusinessHeld, BusinessSteps
<1>2. /\ saved \in BusinessRow
      /\ saved.reseller = IF req[r].op = "save_business" THEN req[r].reseller
                                                         ELSE business[b].reseller
  <2> HIDE DEF b
  <2>1. CASE req[r].op = "save_business"
    <3>1. req[r].active \in BOOLEAN /\ reads[r].row.deleted \in BOOLEAN
      BY <1>1 DEF Request, Reads
    <3>2. saved = [reseller |-> req[r].reseller, active |-> req[r].active,
                   deleted |-> reads[r].row.deleted]
      BY <2>1 DEF Saved
    <3>3. QED
      BY <1>1, <2>1, <3>1, <3>2 DEF BusinessRow
  <2>2. CASE req[r].op # "save_business"
    <3>1. saved = [business[b] EXCEPT !.active = FALSE, !.deleted = TRUE]
      BY <2>2 DEF Saved, b
    <3>2. QED
      BY <1>1, <2>2, <3>1 DEF BusinessRow
  <2>3. QED
    BY <2>1, <2>2
<1>3. business' = [business EXCEPT ![b] = saved]
  OBVIOUS
<1> HIDE DEF b, saved
<1>4. business'[b] = saved /\ \A a \in Businesses \ {b} : business'[a] = business[a]
  BY <1>1, <1>3 DEF TypeOK
<1>5. BusinessAction(r) \in Actions /\ SuccessAction(r) = BusinessAction(r)
  BY <1>1 DEF BusinessAction, SuccessAction, Actions
<1>6. witnessed' \in [Requests -> SUBSET (Businesses \X BusinessRow)]
  <2>1. <<b, saved>> \in Businesses \X BusinessRow
    BY <1>1, <1>2
  <2>2. witnessed' = [q \in Requests |->
           IF pc[q] \in Working /\ b \in req[q].asked
              THEN witnessed[q] \cup {<<b, saved>>} ELSE witnessed[q]]
    BY DEF b, saved
  <2>3. QED
    BY <1>1, <2>1, <2>2 DEF TypeOK
<1>7. /\ business' \in [Businesses -> BusinessRow] /\ offer' \in [Plans -> Offer]
      /\ price' \in [Plans -> Requests \cup {None}]
  BY <1>1, <1>2, <1>3 DEF TypeOK
<1>8. AvailabilityIsOneRequests'
  BY DEF IInv, AvailabilityIsOneRequests
<1>9. \A a \in Plans : Selected(a)' = Selected(a)
  BY DEF Selected
<1>10. IInv'
  BY <1>1, <1>4, <1>5, <1>6, <1>7, <1>8, <1>9, CommitSafe
<1>11. ASSUME NEW p \in Plans, NEW s \in offer[p].selected,
              business[s.business].reseller = Owner[p]
       PROVE  business'[s.business].reseller = Owner[p]
  <2>1. s.business \in Businesses
    BY <1>1 DEF TypeOK, Offer, Selection
  <2>2. CASE s.business = b
    <3>1. b \in Selected(p)
      BY <2>2 DEF Selected
    <3>2. saved.reseller = Owner[p]
      BY <1>1, <1>2, <1>11, <2>2, <3>1 DEF OwnerConflicts
    <3>3. QED
      BY <1>4, <2>2, <3>2
  <2>3. CASE s.business # b
    BY <1>4, <1>11, <2>1, <2>3
  <2>4. QED
    BY <2>2, <2>3
<1>12. QED
  BY <1>10, <1>11

-----------------------------------------------------------------------------
\* Requests arrive; the platform changes around them.

LEMMA ArriveSafe ==
    ASSUME IInv, NEW r \in Requests, NEW request \in Request,
           NEW first \in {"view", "load"}, Arrive(r, request, first),
           first = "view" => /\ request.op \in {"set_availability", "edit_plan"}
                             /\ request.plan \in Plans,
           first = "load" => /\ request.op \in {"save_business", "delete_business"}
                             /\ request.plan = None
                             /\ request.business \in Businesses
                             /\ request.op = "save_business"
                                   => request.reseller \in Resellers
    PROVE  IInv'
<1> USE DEF Arrive
<1>1. /\ TypeOK /\ pc[r] = "idle" /\ pc'[r] = first /\ req'[r] = request
      /\ reads[r].refusal = "none" /\ reads[r].chosen = {} /\ reads[r].ids = {}
      /\ Told(r) = {}
  BY DEF IInv, TypeOK, RequestOK, Progress, EvidenceOf, RefusalRecorded
<1>2. TypeOK'
  <2>1. /\ pc' \in [Requests -> {"idle"} \cup Working \cup Answered]
        /\ req' \in [Requests -> Request]
    BY <1>1 DEF TypeOK, Working
  <2>2. \A q \in Requests : reads'[q].chosen \subseteq reads'[q].ids
                            /\ reads'[q].ids \subseteq req'[q].asked
    BY <1>1 DEF TypeOK
  <2>3. witnessed' \in [Requests -> SUBSET (Businesses \X BusinessRow)]
    BY <1>1 DEF TypeOK, Request
  <2>4. QED
    BY <1>1, <2>1, <2>2, <2>3 DEF TypeOK, rows, locks, scope
<1>3. EvidenceOf(r)'
  <2>1. Told(r)' = Told(r)
    BY DEF Told
  <2>2. QED
    BY <1>1, <2>1 DEF EvidenceOf, RefusalRecorded
<1>4. RequestOK(r)'
  BY <1>1 DEF RequestOK, Flow, Progress, PlanHeld, BusinessHeld, SetSteps, UnderPlanLock,
              PlanSteps, BusinessSteps
<1>5. QED
  <2>1. \A q \in Requests \ {r} :
           /\ pc'[q] = pc[q] /\ req'[q] = req[q] /\ reads'[q] = reads[q]
           /\ Told(q)' = Told(q)
           /\ \A p \in Plans : planLock[p] = q => planLock'[p] = q
           /\ \A b \in Businesses : businessLock[b] = q => businessLock'[b] = q
    BY <1>1 DEF TypeOK, Told, locks
  <2>2. QED
    BY <1>2, <1>3, <1>4, <2>1, NoWrites

LEMMA ArrivalStep == ASSUME IInv, NEW r \in Requests, Arrival(r) PROVE IInv'
<1>1. ASSUME NEW u \in Users, NEW p \in Plans, NEW mode \in Modes, NEW asked \in Choices,
             SetAvailability(r, u, p, mode, asked)
      PROVE  IInv'
  <2> DEFINE request == [NoRequest EXCEPT !.op = "set_availability", !.actor = u,
                           !.plan = p, !.mode = mode, !.asked = asked]
  <2>1. request \in Request
    BY BoundsAssumption DEF NoRequest, Request, Operations, Modes
  <2>2. /\ request.op = "set_availability" /\ request.plan = p
        /\ Arrive(r, request, "view")
    BY <1>1 DEF NoRequest, SetAvailability
  <2> HIDE DEF request
  <2>3. QED
    BY <2>1, <2>2, ArriveSafe
<1>2. ASSUME NEW u \in Users, NEW p \in Plans, NEW priced \in BOOLEAN,
             EditPlan(r, u, p, priced)
      PROVE  IInv'
  <2> DEFINE request == [NoRequest EXCEPT !.op = "edit_plan", !.actor = u, !.plan = p,
                                          !.priced = priced]
  <2>1. request \in Request
    BY DEF NoRequest, Request, Operations, Modes
  <2>2. request.op = "edit_plan" /\ request.plan = p /\ Arrive(r, request, "view")
    BY <1>2 DEF NoRequest, EditPlan
  <2> HIDE DEF request
  <2>3. QED
    BY <2>1, <2>2, ArriveSafe
<1>3. ASSUME NEW u \in Users, NEW b \in Businesses, NEW reseller \in Resellers,
             NEW active \in BOOLEAN, SaveBusiness(r, u, b, reseller, active)
      PROVE  IInv'
  <2> DEFINE request == [NoRequest EXCEPT !.op = "save_business", !.actor = u,
                    !.business = b, !.reseller = reseller, !.active = active]
  <2>1. request \in Request
    BY DEF NoRequest, Request, Operations, Modes
  <2>2. /\ request.op = "save_business" /\ request.plan = None
        /\ request.business = b /\ request.reseller = reseller
        /\ Arrive(r, request, "load")
    BY <1>3 DEF NoRequest, SaveBusiness
  <2> HIDE DEF request
  <2>3. QED
    BY <2>1, <2>2, ArriveSafe
<1>4. ASSUME NEW u \in Users, NEW b \in Businesses, DeleteBusiness(r, u, b)
      PROVE  IInv'
  <2> DEFINE request == [NoRequest EXCEPT !.op = "delete_business", !.actor = u,
                                          !.business = b]
  <2>1. request \in Request
    BY DEF NoRequest, Request, Operations, Modes
  <2>2. /\ request.op = "delete_business" /\ request.plan = None
        /\ request.business = b
        /\ Arrive(r, request, "load")
    BY <1>4 DEF NoRequest, DeleteBusiness
  <2> HIDE DEF request
  <2>3. QED
    BY <2>1, <2>2, ArriveSafe
<1>5. QED
  BY <1>1, <1>2, <1>3, <1>4 DEF Arrival

\* Whatever changes around the requests, they know what they have read.
LEMMA PlatformStep == ASSUME IInv, Platform PROVE IInv'
<1>1. /\ UNCHANGED <<rows, audit, locks, pc, req, reads, witnessed>>
      /\ changes < MaxChanges /\ changes' = changes + 1
  BY DEF Platform, GrantOrRevoke, ToggleReseller, ToggleProvider, ChangeScope
<1>2. /\ admins' \subseteq Users \X Resellers /\ liveResellers' \subseteq Resellers
      /\ supplied' \subseteq Plans
  <2>1. \A p \in Plans : Owner[p] \in Resellers
    BY RowsAssumption
  <2>2. /\ admins \subseteq Users \X Resellers /\ liveResellers \subseteq Resellers
        /\ supplied \subseteq Plans
    BY DEF IInv, TypeOK
  <2>3. CASE \E p \in Plans, u \in Users \ Superusers : GrantOrRevoke(u, Owner[p])
    BY <2>1, <2>2, <2>3 DEF GrantOrRevoke, Flip
  <2>4. CASE \E p \in Plans : ToggleReseller(Owner[p])
    BY <2>1, <2>2, <2>4 DEF ToggleReseller, Flip
  <2>5. CASE \E p \in Plans : ToggleProvider(p)
    BY <2>2, <2>5 DEF ToggleProvider, Flip
  <2>6. QED
    BY <2>3, <2>4, <2>5 DEF Platform
<1>3. TypeOK'
  BY <1>1, <1>2, BoundsAssumption DEF IInv, TypeOK, rows, locks
<1>4. AvailabilityIsOneRequests'
  BY <1>1 DEF IInv, AvailabilityIsOneRequests, rows
<1>5. ASSUME NEW q \in Requests PROVE RequestOK(q)' /\ EvidenceOf(q)'
  <2>1. EvidenceOf(q)'
    BY <1>1, EvidenceKept DEF IInv, Told
  <2>2. RequestOK(q)'
    <3>1. UNCHANGED <<business, offer, price, planLock, businessLock, pc, req, reads>>
      BY <1>1 DEF rows, locks
    <3>2. QED
      BY <3>1, Undisturbed DEF IInv, Selected
  <2>3. QED
    BY <2>1, <2>2
<1>6. QED
  BY <1>3, <1>4, <1>5 DEF IInv

\* A step that changes nothing.
LEMMA Stutter == ASSUME IInv, UNCHANGED vars PROVE IInv'
<1>1. UNCHANGED <<business, offer, price, audit, planLock, businessLock, pc, req, reads,
                  admins, liveResellers, supplied, changes, witnessed>>
  BY DEF vars, rows, locks, scope
<1>2. TypeOK' /\ AvailabilityIsOneRequests'
  BY <1>1 DEF IInv, TypeOK, AvailabilityIsOneRequests
<1>3. ASSUME NEW q \in Requests PROVE RequestOK(q)' /\ EvidenceOf(q)'
  <2>1. EvidenceOf(q)'
    BY <1>1, EvidenceKept DEF IInv, Told
  <2>2. RequestOK(q)'
    BY <1>1, Undisturbed DEF IInv, Selected
  <2>3. QED
    BY <2>1, <2>2
<1>4. QED
  BY <1>2, <1>3 DEF IInv

LEMMA StepIInv == IInv /\ [Next]_vars => IInv'
<1> SUFFICES ASSUME IInv, [Next]_vars PROVE IInv'
  OBVIOUS
<1>1. ASSUME NEW r \in Requests, Statement(r) PROVE IInv'
  BY <1>1, ViewPlanStep, RejectRequestStep, CleanFormStep, NarrowChoiceStep,
     SelectEditablePlanStep, LockPlanStep, CheckEditablePlanStep, CommitEditStep,
     CountBusinessesStep, DeleteSelectionsStep, ReadBusinessesStep, InsertSelectionsStep,
     CommitAvailabilityStep, RecordRefusalStep, LoadBusinessStep, UpdateBusinessStep,
     CommitBusinessStep
  DEF Statement
<1>2. QED
  BY <1>1, ArrivalStep, CrashStep, PlatformStep, Stutter DEF Next, Quiescent

\* Prices are written by edits of plans, businesses from their own page.
LEMMA OnlyCommitsWrite ==
    ASSUME [Next]_vars
    PROVE  /\ UNCHANGED price \/ \E r \in Requests : CommitEdit(r)
           /\ UNCHANGED business \/ \E r \in Requests : CommitBusiness(r)
<1>1. ASSUME NEW r \in Requests, Arrival(r) PROVE UNCHANGED <<price, business>>
  <2>1. ASSUME NEW request, NEW first, Arrive(r, request, first)
        PROVE  UNCHANGED <<price, business>>
    BY <2>1 DEF Arrive, rows
  <2>2. QED
    BY <1>1, <2>1 DEF Arrival, SetAvailability, EditPlan, SaveBusiness, DeleteBusiness
<1>2. ASSUME NEW r \in Requests, Statement(r), ~CommitEdit(r), ~CommitBusiness(r)
      PROVE  UNCHANGED <<price, business>>
  BY <1>2 DEF Statement, ViewPlan, RejectRequest, CleanForm, NarrowChoice,
       SelectEditablePlan, LockPlan, CheckEditablePlan, CountBusinesses, DeleteSelections,
       Deleted, ReadBusinesses, InsertSelections, CommitAvailability, RecordRefusal,
       LoadBusiness, UpdateBusiness, Continue, Refuse, End, rows
<1>3. ASSUME NEW r \in Requests, CommitEdit(r) PROVE UNCHANGED business
  BY <1>3 DEF CommitEdit
<1>4. ASSUME NEW r \in Requests, CommitBusiness(r) PROVE UNCHANGED price
  BY <1>4 DEF CommitBusiness
<1>5. ASSUME NEW r \in Requests, Crash(r) PROVE UNCHANGED <<price, business>>
  BY <1>5 DEF Crash, End, rows
<1>6. Platform => UNCHANGED <<price, business>>
  <2>1. Platform => UNCHANGED rows
    BY DEF Platform, GrantOrRevoke, ToggleReseller, ToggleProvider, ChangeScope
  <2>2. UNCHANGED rows => UNCHANGED <<price, business>>
    BY DEF rows
  <2>3. QED
    BY <2>1, <2>2
<1>7. UNCHANGED vars => UNCHANGED <<price, business>>
  BY DEF vars, rows
<1>8. QED
  BY <1>1, <1>2, <1>3, <1>4, <1>5, <1>6, <1>7 DEF Next, Quiescent

-----------------------------------------------------------------------------
(* The theorems.                                                           *)

THEOREM Invariance == Spec => []IInv
  BY InitIInv, StepIInv, PTL DEF Spec

\* Rows, requests, what they read, locks and evidence keep their types, and no
\* form passes on more than was posted.
THEOREM TypeCorrect == Spec => []TypeOK
<1>1. IInv => TypeOK
  BY DEF IInv
<1>2. QED
  BY <1>1, Invariance, PTL

\* set_plan_availability replaces what a plan is offered to as a whole, however
\* many requests set it at once.
THEOREM OneRequestsAnswer == Spec => []AvailabilityIsOneRequests
<1>1. IInv => AvailabilityIsOneRequests
  BY DEF IInv
<1>2. QED
  BY <1>1, Invariance, PTL

\* Success is recorded once, what was rolled back leaves no success behind, and
\* no refusal of the views or of update_plan is lost with its rollback.
THEOREM EvidenceIsExact == Spec => []EvidenceMatchesOutcome
<1>1. IInv => EvidenceMatchesOutcome
  BY EvidenceIsOfEach DEF IInv
<1>2. QED
  BY <1>1, Invariance, PTL

\* Only a platform operator's edit changes a price: every other one writes back
\* what it has read under the plan's lock.
THEOREM PricingPreserved == Spec => ResellersPreservePricing
<1>1. ASSUME IInv, [Next]_vars
      PROVE  [\A p \in Plans : price'[p] # price[p] =>
                \E r \in Requests : /\ pc[r] = "commit" /\ pc'[r] = "ok"
                                    /\ req[r].actor \in Superusers
                                    /\ price'[p] = r]_vars
  <2>1. CASE \E r \in Requests : CommitEdit(r)
    BY <1>1, <2>1, CommitEditStep
  <2>2. CASE UNCHANGED price
    BY <2>2
  <2>3. QED
    BY <1>1, <2>1, <2>2, OnlyCommitsWrite
<1>2. QED
  BY <1>1, Invariance, PTL DEF Spec, ResellersPreservePricing

\* A committed move of a business leaves no plan behind that has selected it.
THEOREM NothingStranded == Spec => MovesStrandNothing
<1>1. ASSUME IInv, [Next]_vars
      PROVE  [\A p \in Plans : \A s \in offer[p].selected :
                business[s.business].reseller = Owner[p]
                    => business'[s.business].reseller = Owner[p]]_vars
  <2>1. CASE \E r \in Requests : CommitBusiness(r)
    BY <1>1, <2>1, CommitBusinessStep
  <2>2. CASE UNCHANGED business
    BY <2>2
  <2>3. QED
    BY <1>1, <2>1, <2>2, OnlyCommitsWrite
<1>2. QED
  BY <1>1, Invariance, PTL DEF Spec, MovesStrandNothing

-----------------------------------------------------------------------------
(* What a request has seen of the businesses it asks for: their rows as    *)
(* they are while it runs, and a reason for each one that it has dropped.  *)

Passed == {"select", "lockPlan", "checks", "count", "delete", "read", "insert", "commit"}

OfferedRow(p) == [reseller |-> Owner[p], active |-> TRUE, deleted |-> FALSE]

Explained(r, b, good) ==
    \E row \in BusinessRow :
        <<b, row>> \in witnessed[r] /\ (good <=> row = OfferedRow(req[r].plan))

Seen(r) ==
    req[r].op = "set_availability" =>
        /\ pc[r] \in Working =>
              \A b \in req[r].asked : <<b, business[b]>> \in witnessed[r]
        /\ pc[r] \in Passed =>
              \A b \in req[r].asked \ reads[r].ids : Explained(r, b, FALSE)
        /\ pc[r] \in {"insert", "commit", "ok"} /\ req[r].mode = "selected_businesses" =>
              \A b \in req[r].asked : Explained(r, b, b \in reads[r].chosen)

SeenInv == \A r \in Requests : Seen(r)

\* The filter of form and service, as the row it lets through.
LEMMA EligibleRow ==
    ASSUME TypeOK, NEW b \in Businesses, NEW p \in Plans
    PROVE  b \in Eligible(p) <=> business[b] = OfferedRow(p)
<1>1. PICK reseller \in Resellers, active \in BOOLEAN, deleted \in BOOLEAN :
        business[b] = [reseller |-> reseller, active |-> active, deleted |-> deleted]
  BY DEF TypeOK, BusinessRow
<1>2. business[b] = OfferedRow(p) <=> reseller = Owner[p] /\ active = TRUE /\ deleted = FALSE
  <2>1. /\ business[b].reseller = reseller /\ business[b].active = active
        /\ business[b].deleted = deleted
    BY <1>1
  <2>2. /\ OfferedRow(p).reseller = Owner[p] /\ OfferedRow(p).active = TRUE
        /\ OfferedRow(p).deleted = FALSE
    BY DEF OfferedRow
  <2>3. CASE business[b] = OfferedRow(p)
    BY <2>1, <2>2, <2>3
  <2>4. CASE reseller = Owner[p] /\ active = TRUE /\ deleted = FALSE
    BY <1>1, <2>4 DEF OfferedRow
  <2>5. QED
    BY <2>3, <2>4
<1>3. b \in Eligible(p) <=> reseller = Owner[p] /\ active = TRUE /\ deleted = FALSE
  BY <1>1 DEF Eligible
<1>4. QED
  BY <1>2, <1>3

\* The row a business has now explains whether it passes the filter now.
LEMMA ExplainedNow ==
    ASSUME NEW r \in Requests, IInv, Seen(r), pc[r] \in SetSteps, NEW b \in req[r].asked
    PROVE  Explained(r, b, b \in Eligible(req[r].plan))
<1>1. req[r].op = "set_availability" /\ req[r].plan \in Plans
  BY DEF IInv, RequestOK, Flow, SetSteps, PlanSteps
<1>2. b \in Businesses
  BY DEF IInv, TypeOK, Request
<1>3. <<b, business[b]>> \in witnessed[r]
  BY <1>1 DEF Seen, SetSteps, Working
<1>4. business[b] \in BusinessRow
  BY <1>2 DEF IInv, TypeOK
<1>5. QED
  BY <1>1, <1>2, <1>3, <1>4, EligibleRow DEF IInv, Explained

\* What has been seen stays seen.
LEMMA SeenKept ==
    ASSUME NEW q \in Requests, Seen(q), pc'[q] = pc[q], req'[q] = req[q],
           reads'[q] = reads[q], witnessed[q] \subseteq witnessed'[q],
           \A b \in req[q].asked : pc[q] \in Working /\ business'[b] # business[b] =>
              <<b, business'[b]>> \in witnessed'[q]
    PROVE  Seen(q)'
<1>1. \A b, good : Explained(q, b, good) => Explained(q, b, good)'
  BY DEF Explained
<1>2. CASE req[q].op = "set_availability"
  <2>1. pc'[q] \in Working => \A b \in req'[q].asked : <<b, business'[b]>> \in witnessed'[q]
    BY <1>2 DEF Seen
  <2>2. pc'[q] \in Passed =>
           \A b \in req'[q].asked \ reads'[q].ids : Explained(q, b, FALSE)'
    BY <1>1, <1>2 DEF Seen
  <2>3. pc'[q] \in {"insert", "commit", "ok"} /\ req'[q].mode = "selected_businesses" =>
           \A b \in req'[q].asked : Explained(q, b, b \in reads[q].chosen)'
    BY <1>1, <1>2 DEF Seen
  <2>4. QED
    BY <2>1, <2>2, <2>3 DEF Seen
<1>3. QED
  BY <1>2 DEF Seen

\* A statement of r that writes no business.
LEMMA OwnSeen ==
    ASSUME IInv, SeenInv, NEW r \in Requests, NEW next, pc' = [pc EXCEPT ![r] = next],
           UNCHANGED <<business, req, witnessed>>,
           \A q \in Requests \ {r} : reads'[q] = reads[q],
           Seen(r)'
    PROVE  SeenInv'
<1>1. ASSUME NEW q \in Requests \ {r} PROVE Seen(q)'
  <2>1. pc'[q] = pc[q]
    BY DEF IInv, TypeOK
  <2>2. QED
    BY <2>1, SeenKept DEF SeenInv
<1>2. QED
  BY <1>1 DEF SeenInv

\* One that settles nothing about the businesses it asks for.
LEMMA GoesOnSeen ==
    ASSUME IInv, SeenInv, NEW r \in Requests, pc[r] \in Working,
           NEW next, pc' = [pc EXCEPT ![r] = next],
           UNCHANGED <<business, req, witnessed>>,
           \A q \in Requests \ {r} : reads'[q] = reads[q],
           reads'[r].ids = reads[r].ids, reads'[r].chosen = reads[r].chosen,
           \/ req[r].op # "set_availability"
           \/ /\ next \in Passed => pc[r] \in Passed
              /\ \/ next \notin {"insert", "commit", "ok"}
                 \/ pc[r] \in {"insert", "commit"}
                 \/ req[r].mode # "selected_businesses"
    PROVE  SeenInv'
<1>1. \A b, good : Explained(r, b, good)' <=> Explained(r, b, good)
  BY DEF Explained
<1>2. pc'[r] = next
  BY DEF IInv, TypeOK
<1>3. CASE req[r].op = "set_availability"
  <2>1. \A b \in req[r].asked : <<b, business[b]>> \in witnessed[r]
    BY <1>3 DEF SeenInv, Seen
  <2>2. next \in Passed => \A b \in req[r].asked \ reads[r].ids : Explained(r, b, FALSE)
    BY <1>3 DEF SeenInv, Seen
  <2>3. next \in {"insert", "commit", "ok"} /\ req[r].mode = "selected_businesses" =>
           \A b \in req[r].asked : Explained(r, b, b \in reads[r].chosen)
    BY <1>3 DEF SeenInv, Seen
  <2>4. Seen(r)'
    BY <1>1, <1>2, <2>1, <2>2, <2>3 DEF Seen
  <2>5. QED
    BY <2>4, OwnSeen
<1>4. CASE req[r].op # "set_availability"
  BY <1>4, OwnSeen DEF Seen
<1>5. QED
  BY <1>3, <1>4

\* What the form passes on is what passed its filter a statement ago.
LEMMA NarrowChoiceSeen ==
    ASSUME IInv, SeenInv, NEW r \in Requests, NarrowChoice(r) PROVE SeenInv'
<1>1. /\ pc[r] = "narrow" /\ pc' = [pc EXCEPT ![r] = "select"]
      /\ reads' = [reads EXCEPT ![r] = [reads[r] EXCEPT !.ids = req[r].asked
                                              \cap Eligible(req[r].plan)]]
      /\ UNCHANGED <<business, req, witnessed>>
  BY DEF NarrowChoice, Continue, rows
<1>2. /\ reads'[r].ids = req[r].asked \cap Eligible(req[r].plan)
      /\ pc'[r] = "select"
      /\ \A q \in Requests \ {r} : reads'[q] = reads[q]
  BY <1>1 DEF IInv, TypeOK, Reads
<1>3. \A b \in req[r].asked : <<b, business[b]>> \in witnessed[r] \/ req[r].op # "set_availability"
  BY <1>1 DEF SeenInv, Seen, Working
<1>4. \A b \in req[r].asked \ reads'[r].ids : Explained(r, b, FALSE)
  <2>1. Seen(r) /\ pc[r] \in SetSteps
    BY <1>1 DEF SeenInv, SetSteps
  <2>2. \A b \in req[r].asked : Explained(r, b, b \in Eligible(req[r].plan))
    BY <2>1, ExplainedNow
  <2>3. QED
    BY <1>2, <2>2 DEF Explained
<1>5. \A b, good : Explained(r, b, good)' <=> Explained(r, b, good)
  BY <1>1 DEF Explained
<1>6. Seen(r)'
  BY <1>1, <1>2, <1>3, <1>4, <1>5 DEF Seen
<1>7. QED
  BY <1>1, <1>2, <1>6, OwnSeen

\* bulk_create takes what still passes of what the form passed on.
LEMMA ReadBusinessesSeen ==
    ASSUME IInv, SeenInv, NEW r \in Requests, ReadBusinesses(r) PROVE SeenInv'
<1>1. /\ pc[r] = "read" /\ pc' = [pc EXCEPT ![r] = "insert"]
      /\ reads' = [reads EXCEPT ![r] = [reads[r] EXCEPT !.chosen = reads[r].ids
                                              \cap Eligible(req[r].plan)]]
      /\ UNCHANGED <<business, req, witnessed>>
  BY DEF ReadBusinesses, Continue, rows
<1>2. /\ reads'[r].chosen = reads[r].ids \cap Eligible(req[r].plan)
      /\ reads'[r].ids = reads[r].ids
      /\ pc'[r] = "insert"
      /\ \A q \in Requests \ {r} : reads'[q] = reads[q]
  BY <1>1 DEF IInv, TypeOK, Reads
<1>3. Seen(r) /\ pc[r] \in SetSteps /\ req[r].op = "set_availability"
  BY <1>1 DEF SeenInv, IInv, RequestOK, Flow, SetSteps
<1>4. /\ \A b \in req[r].asked : <<b, business[b]>> \in witnessed[r]
      /\ \A b \in req[r].asked \ reads[r].ids : Explained(r, b, FALSE)
  BY <1>1, <1>3 DEF Seen, Working, Passed
<1>5. \A b \in req[r].asked : Explained(r, b, b \in Eligible(req[r].plan))
  BY <1>3, ExplainedNow
<1>6. \A b \in req[r].asked : Explained(r, b, b \in reads'[r].chosen)
  <2>1. ASSUME NEW b \in req[r].asked, b \in reads[r].ids
        PROVE  Explained(r, b, b \in reads'[r].chosen)
    <3>1. b \in reads'[r].chosen <=> b \in Eligible(req[r].plan)
      BY <1>2, <2>1
    <3>2. QED
      BY <1>5, <3>1 DEF Explained
  <2>2. ASSUME NEW b \in req[r].asked, b \notin reads[r].ids
        PROVE  Explained(r, b, b \in reads'[r].chosen)
    <3>1. b \notin reads'[r].chosen
      BY <1>2, <2>2
    <3>2. QED
      BY <1>4, <2>2, <3>1 DEF Explained
  <2>3. QED
    BY <2>1, <2>2
<1>7. \A b, good : Explained(r, b, good)' <=> Explained(r, b, good)
  BY <1>1 DEF Explained
<1>8. Seen(r)'
  BY <1>1, <1>2, <1>3, <1>4, <1>6, <1>7 DEF Seen
<1>9. QED
  BY <1>1, <1>2, <1>8, OwnSeen

\* Every other statement that leaves businesses alone.
LEMMA ContinueSeen ==
    ASSUME IInv, SeenInv, NEW r \in Requests, pc[r] \in Working, NEW next, NEW read,
           Continue(r, next, read), read.ids = reads[r].ids, read.chosen = reads[r].chosen,
           \/ req[r].op # "set_availability"
           \/ /\ next \in Passed => pc[r] \in Passed
              /\ \/ next \notin {"insert", "commit", "ok"}
                 \/ pc[r] \in {"insert", "commit"}
                 \/ req[r].mode # "selected_businesses"
    PROVE  SeenInv'
<1>1. /\ pc' = [pc EXCEPT ![r] = next] /\ reads' = [reads EXCEPT ![r] = read]
      /\ UNCHANGED <<business, req, witnessed>>
  BY DEF Continue, rows
<1>2. reads'[r] = read /\ \A q \in Requests \ {r} : reads'[q] = reads[q]
  BY <1>1 DEF IInv, TypeOK
<1>3. QED
  BY <1>1, <1>2, GoesOnSeen

LEMMA EndSeen ==
    ASSUME IInv, SeenInv, NEW r \in Requests, pc[r] \in Working, NEW next, NEW why,
           End(r, next, why), next \notin Passed, next # "ok"
    PROVE  SeenInv'
<1>1. /\ pc' = [pc EXCEPT ![r] = next] /\ reads' = [reads EXCEPT ![r].refusal = why]
      /\ UNCHANGED <<business, req, witnessed>>
  BY DEF End, rows
<1>2. /\ \A q \in Requests \ {r} : reads'[q] = reads[q]
      /\ reads'[r].ids = reads[r].ids /\ reads'[r].chosen = reads[r].chosen
  BY <1>1 DEF IInv, TypeOK, Reads
<1>3. QED
  BY <1>1, <1>2, GoesOnSeen DEF Passed

\* The commit of a business's page is seen by whoever asks for the business.
LEMMA CommitBusinessSeen ==
    ASSUME IInv, SeenInv, NEW r \in Requests, CommitBusiness(r) PROVE SeenInv'
<1> DEFINE b == req[r].business
<1>1. /\ pc[r] = "save" /\ pc' = [pc EXCEPT ![r] = "ok"]
      /\ business' = [business EXCEPT ![b] = Saved(r)]
      /\ UNCHANGED <<req, reads>>
      /\ witnessed' = [q \in Requests |->
              IF pc[q] \in Working /\ b \in req[q].asked
                 THEN witnessed[q] \cup {<<b, Saved(r)>>} ELSE witnessed[q]]
  BY DEF CommitBusiness
<1>2. req[r].op # "set_availability"
  BY <1>1 DEF IInv, RequestOK, Flow, BusinessSteps
<1>3. Seen(r)'
  BY <1>1, <1>2 DEF Seen
<1>4. ASSUME NEW q \in Requests \ {r} PROVE Seen(q)'
  <2>1. pc'[q] = pc[q]
    BY <1>1 DEF IInv, TypeOK
  <2>2. witnessed[q] \subseteq witnessed'[q]
    BY <1>1
  <2>3. ASSUME NEW c \in req[q].asked, pc[q] \in Working, business'[c] # business[c]
        PROVE  <<c, business'[c]>> \in witnessed'[q]
    <3>1. c \in Businesses
      BY DEF IInv, TypeOK, Request
    <3>2. c = b /\ business'[c] = Saved(r)
      BY <1>1, <2>3, <3>1 DEF IInv, TypeOK
    <3>3. QED
      BY <1>1, <2>3, <3>2
  <2>4. QED
    BY <1>1, <2>1, <2>2, <2>3, SeenKept DEF SeenInv
<1>5. QED
  BY <1>3, <1>4 DEF SeenInv

LEMMA StatementSeen ==
    ASSUME IInv, SeenInv, NEW r \in Requests, Statement(r) PROVE SeenInv'
<1> USE DEF Passed, Working
<1>1. CASE ViewPlan(r)
  BY <1>1, ContinueSeen DEF ViewPlan
<1>2. CASE RejectRequest(r)
  BY <1>2, GoesOnSeen DEF RejectRequest, rows
<1>3. CASE CleanForm(r)
  BY <1>3, ContinueSeen, EndSeen DEF CleanForm
<1>4. CASE SelectEditablePlan(r)
  <2>1. CASE Visible(req[r].actor, req[r].plan)
    <3> DEFINE read == [reads[r] EXCEPT !.provider = req[r].plan \in supplied,
                                        !.price = price[req[r].plan]]
    <3>1. pc[r] = "select" /\ Continue(r, "lockPlan", read)
      BY <1>4, <2>1 DEF SelectEditablePlan
    <3>2. read.ids = reads[r].ids /\ read.chosen = reads[r].chosen
      BY DEF IInv, TypeOK, Reads
    <3> HIDE DEF read
    <3>3. QED
      BY <3>1, <3>2, ContinueSeen
  <2>2. CASE ~Visible(req[r].actor, req[r].plan)
    BY <1>4, <2>2, EndSeen DEF SelectEditablePlan, Refuse
  <2>3. QED
    BY <2>1, <2>2
<1>5. CASE LockPlan(r)
  <2>1. /\ pc[r] = "lockPlan" /\ pc' = [pc EXCEPT ![r] = "checks"]
        /\ reads' = [reads EXCEPT ![r].price = price[req[r].plan]]
        /\ UNCHANGED <<business, req, witnessed>>
    BY <1>5 DEF LockPlan, rows
  <2>2. /\ \A q \in Requests \ {r} : reads'[q] = reads[q]
        /\ reads'[r].ids = reads[r].ids /\ reads'[r].chosen = reads[r].chosen
    BY <2>1 DEF IInv, TypeOK, Reads
  <2>3. QED
    BY <2>1, <2>2, GoesOnSeen
<1>6. CASE CheckEditablePlan(r)
  <2>1. CASE Continue(r, IF req[r].op = "edit_plan" THEN "commit" ELSE "count", reads[r])
    BY <1>6, <2>1, ContinueSeen DEF CheckEditablePlan
  <2>2. CASE Refuse(r, "denied") \/ Refuse(r, "invalid")
    BY <1>6, <2>2, EndSeen DEF CheckEditablePlan, Refuse
  <2>3. QED
    BY <1>6, <2>1, <2>2 DEF CheckEditablePlan
<1>7. CASE CommitEdit(r)
  BY <1>7, GoesOnSeen DEF CommitEdit
<1>8. CASE CountBusinesses(r)
  BY <1>8, ContinueSeen, EndSeen DEF CountBusinesses, Refuse
<1>9. CASE DeleteSelections(r)
  <2> DEFINE read == [reads[r] EXCEPT !.doomed = offer[req[r].plan].selected]
             next == IF req[r].mode = "selected_businesses" THEN "read" ELSE "commit"
  <2>1. pc[r] = "delete" /\ Continue(r, next, read)
    BY <1>9 DEF DeleteSelections, Deleted
  <2>2. read.ids = reads[r].ids /\ read.chosen = reads[r].chosen
    BY DEF IInv, TypeOK, Reads
  <2>3. next = "read" \/ (next = "commit" /\ req[r].mode # "selected_businesses")
    OBVIOUS
  <2> HIDE DEF read, next
  <2>4. QED
    BY <2>1, <2>2, <2>3, ContinueSeen
<1>10. CASE InsertSelections(r)
  BY <1>10, ContinueSeen, EndSeen DEF InsertSelections
<1>11. CASE CommitAvailability(r)
  BY <1>11, GoesOnSeen DEF CommitAvailability
<1>12. CASE RecordRefusal(r)
  <2>1. reads[r].refusal \in {"denied", "invalid"}
    BY <1>12 DEF RecordRefusal, IInv, RequestOK, Progress
  <2>2. QED
    BY <1>12, <2>1, GoesOnSeen DEF RecordRefusal, rows
<1>13. CASE LoadBusiness(r)
  <2>1. pc[r] = "load" /\ req[r].op # "set_availability"
    BY <1>13 DEF LoadBusiness, IInv, RequestOK, Flow, BusinessSteps
  <2> DEFINE read == [reads[r] EXCEPT !.row = business[req[r].business]]
  <2>2. End(r, "denied", "none") \/ Continue(r, "update", read)
    BY <1>13 DEF LoadBusiness
  <2>3. read.ids = reads[r].ids /\ read.chosen = reads[r].chosen
    BY DEF IInv, TypeOK, Reads
  <2> HIDE DEF read
  <2>4. QED
    BY <2>1, <2>2, <2>3, ContinueSeen, EndSeen
<1>14. CASE UpdateBusiness(r)
  <2>1. pc[r] = "update" /\ req[r].op # "set_availability"
    BY <1>14 DEF UpdateBusiness, IInv, RequestOK, Flow, BusinessSteps
  <2>2. CASE End(r, "error", "none")
    BY <2>1, <2>2, EndSeen
  <2>3. CASE pc' = [pc EXCEPT ![r] = "save"] /\ UNCHANGED <<business, req, reads, witnessed>>
    BY <2>1, <2>3, GoesOnSeen
  <2>4. QED
    BY <1>14, <2>2, <2>3 DEF UpdateBusiness, rows
<1>15. QED
  BY <1>1, <1>2, <1>3, <1>4, <1>5, <1>6, <1>7, <1>8, <1>9, <1>10, <1>11, <1>12, <1>13,
     <1>14, NarrowChoiceSeen, ReadBusinessesSeen, CommitBusinessSeen
  DEF Statement

\* A request sees the rows there are when it arrives.
LEMMA ArriveSeen ==
    ASSUME IInv, SeenInv, NEW r \in Requests, NEW request, NEW first,
           Arrive(r, request, first), first \in {"view", "load"}
    PROVE  SeenInv'
<1>1. /\ req' = [req EXCEPT ![r] = request] /\ pc' = [pc EXCEPT ![r] = first]
      /\ witnessed' = [witnessed EXCEPT ![r] =
                         IF request.op = "set_availability"
                            THEN {<<b, business[b]>> : b \in request.asked} ELSE {}]
      /\ UNCHANGED <<business, reads>>
  BY DEF Arrive, rows
<1>2. /\ req'[r] = request /\ pc'[r] = first
      /\ request.op = "set_availability" =>
            witnessed'[r] = {<<b, business[b]>> : b \in request.asked}
  BY <1>1 DEF IInv, TypeOK
<1>3. Seen(r)'
  BY <1>1, <1>2 DEF Seen, Passed
<1>4. ASSUME NEW q \in Requests \ {r} PROVE Seen(q)'
  <2>1. pc'[q] = pc[q] /\ req'[q] = req[q] /\ witnessed'[q] = witnessed[q]
    BY <1>1 DEF IInv, TypeOK
  <2>2. QED
    BY <1>1, <2>1, SeenKept DEF SeenInv
<1>5. QED
  BY <1>3, <1>4 DEF SeenInv

LEMMA StepSeen == IInv /\ SeenInv /\ [Next]_vars => SeenInv'
<1> SUFFICES ASSUME IInv, SeenInv, [Next]_vars PROVE SeenInv'
  OBVIOUS
<1>1. ASSUME NEW r \in Requests, Arrival(r) PROVE SeenInv'
  BY <1>1, ArriveSeen DEF Arrival, SetAvailability, EditPlan, SaveBusiness, DeleteBusiness
<1>2. ASSUME NEW r \in Requests, Crash(r) PROVE SeenInv'
  BY <1>2, EndSeen DEF Crash, Passed
<1>3. CASE UNCHANGED <<business, pc, req, reads, witnessed>>
  BY <1>3, SeenKept DEF SeenInv
<1>4. Platform \/ UNCHANGED vars => UNCHANGED <<business, pc, req, reads, witnessed>>
  BY DEF Platform, GrantOrRevoke, ToggleReseller, ToggleProvider, ChangeScope, vars, rows
<1>5. QED
  BY <1>1, <1>2, <1>3, <1>4, StatementSeen DEF Next, Quiescent

\* However often set_plan_availability and its form repeat their query, a
\* business is selected because it was in the reseller and active at an instant
\* of the request, and left out because at another it was not.
THEOREM ChoicesAreExplained == Spec => []EveryChoiceExplained
<1>1. Init => SeenInv
  BY DEF Init, SeenInv, Seen, NoRequest
<1>2. SeenInv => EveryChoiceExplained
  BY DEF SeenInv, Seen, EveryChoiceExplained, Explained, OfferedRow
<1>3. QED
  BY <1>1, <1>2, Invariance, StepSeen, PTL DEF Spec

-----------------------------------------------------------------------------
(* Progress.  That requests are answered rests on two facts: nothing can    *)
(* keep a request busy for ever, and requests never all wait.               *)

\* Statements a request has ahead of it, the one it runs next included, at most.
AheadAt(statement) ==
    CASE statement = "view" -> 11
      [] statement = "clean" -> 10
      [] statement = "narrow" -> 9
      [] statement = "select" -> 8
      [] statement = "lockPlan" -> 7
      [] statement = "checks" -> 6
      [] statement = "count" -> 5
      [] statement = "delete" -> 4
      [] statement \in {"read", "load"} -> 3
      [] statement \in {"insert", "update"} -> 2
      [] statement \in {"unseen", "refused", "commit", "save"} -> 1
      [] OTHER -> 0

Ahead(r) == AheadAt(pc[r])

\* Every statement brings its request closer to an answer, and nothing that
\* others do takes a request further from it or reopens one that was answered:
\* no request has more than eleven statements.
StatementsRunOut ==
    [][\A r \in Requests :
          /\ Statement(r) \/ Crash(r) => Ahead(r)' < Ahead(r)
          /\ pc[r] # "idle" => Ahead(r)' < Ahead(r) \/ pc'[r] = pc[r]
          /\ pc[r] \in Answered => pc'[r] = pc[r]]_vars

\* Statements that take and release no lock.
GoesOn(a, b) ==
    \/ a = "view" /\ b \in {"unseen", "clean", "select"}
    \/ a = "unseen" /\ b = "denied"
    \/ a = "clean" /\ b = "narrow"
    \/ a = "narrow" /\ b = "select"
    \/ a = "select" /\ b = "lockPlan"
    \/ a = "checks" /\ b \in {"commit", "count"}
    \/ a = "count" /\ b = "delete"
    \/ a = "delete" /\ b \in {"read", "commit"}
    \/ a = "read" /\ b = "insert"
    \/ a = "insert" /\ b = "commit"
    \/ a = "refused" /\ b \in {"denied", "invalid"}
    \/ a = "load" /\ b = "update"

\* The row lock an UPDATE takes.
TakesBusiness(r) ==
    /\ pc[r] = "update" /\ pc'[r] = "save"
    /\ businessLock' = [businessLock EXCEPT ![req[r].business] = r]
    /\ UNCHANGED planLock

\* What a statement does to its request and to the locks.
LEMMA StatementEffect ==
    ASSUME IInv, NEW r \in Requests, Statement(r) \/ Crash(r)
    PROVE  /\ pc[r] \in Working
           /\ \A q \in Requests \ {r} : pc'[q] = pc[q]
           /\ \/ LockPlan(r) \/ TakesBusiness(r)
              \/ GoesOn(pc[r], pc'[r]) /\ UNCHANGED locks
              \/ /\ Release(r)
                 /\ \/ pc'[r] \in Answered
                    \/ pc[r] \in {"select", "checks", "count"} /\ pc'[r] = "refused"
<1> DEFINE Effect ==
      /\ pc[r] \in Working
      /\ \A q \in Requests \ {r} : pc'[q] = pc[q]
      /\ \/ LockPlan(r) \/ TakesBusiness(r)
         \/ GoesOn(pc[r], pc'[r]) /\ UNCHANGED locks
         \/ /\ Release(r)
            /\ \/ pc'[r] \in Answered
               \/ pc[r] \in {"select", "checks", "count"} /\ pc'[r] = "refused"
<1>1. pc \in [Requests -> {"idle"} \cup Working \cup Answered]
  BY DEF IInv, TypeOK
<1>2. ASSUME NEW why, Refuse(r, why), pc[r] \in {"select", "checks", "count"} PROVE Effect
  BY <1>1, <1>2 DEF Refuse, End, Working
<1>3. ASSUME NEW read, NEW next, Continue(r, next, read), pc[r] \in Working,
             GoesOn(pc[r], next)
      PROVE  Effect
  BY <1>1, <1>3 DEF Continue
<1>4. ASSUME NEW next \in Answered, NEW why, End(r, next, why), pc[r] \in Working PROVE Effect
  BY <1>1, <1>4 DEF End
<1>5. ASSUME Release(r), pc' = [pc EXCEPT ![r] = "ok"], pc[r] \in Working PROVE Effect
  BY <1>1, <1>5 DEF Answered
<1> HIDE DEF Effect
<1>6. ASSUME LockPlan(r) PROVE Effect
  BY <1>1, <1>6 DEF LockPlan, Working, Effect
<1>7. ASSUME ViewPlan(r) PROVE Effect
  BY <1>3, <1>7 DEF ViewPlan, Working, GoesOn
<1>8. ASSUME RejectRequest(r) PROVE Effect
  BY <1>1, <1>8 DEF RejectRequest, Working, GoesOn, Effect
<1>9. ASSUME CleanForm(r) PROVE Effect
  BY <1>3, <1>4, <1>9 DEF CleanForm, Working, Answered, GoesOn
<1>10. ASSUME NarrowChoice(r) PROVE Effect
  BY <1>3, <1>10 DEF NarrowChoice, Working, GoesOn
<1>11. ASSUME SelectEditablePlan(r) PROVE Effect
  BY <1>2, <1>3, <1>11 DEF SelectEditablePlan, Working, GoesOn
<1>12. ASSUME CheckEditablePlan(r) PROVE Effect
  BY <1>2, <1>3, <1>12 DEF CheckEditablePlan, Working, GoesOn
<1>13. ASSUME CommitEdit(r) \/ CommitAvailability(r) \/ CommitBusiness(r) PROVE Effect
  BY <1>5, <1>13 DEF CommitEdit, CommitAvailability, CommitBusiness, Working
<1>14. ASSUME CountBusinesses(r) PROVE Effect
  BY <1>2, <1>3, <1>14 DEF CountBusinesses, Working, GoesOn
<1>15. ASSUME DeleteSelections(r) \/ ReadBusinesses(r) PROVE Effect
  BY <1>3, <1>15 DEF DeleteSelections, Deleted, ReadBusinesses, Working, GoesOn
<1>16. ASSUME InsertSelections(r) PROVE Effect
  BY <1>3, <1>4, <1>16 DEF InsertSelections, Working, Answered, GoesOn
<1>17. ASSUME RecordRefusal(r) PROVE Effect
  <2>1. reads[r].refusal \in {"denied", "invalid"}
    BY <1>17 DEF RecordRefusal, IInv, RequestOK, Progress
  <2>2. QED
    BY <1>1, <1>17, <2>1 DEF RecordRefusal, Working, GoesOn, Effect
<1>18. ASSUME LoadBusiness(r) PROVE Effect
  BY <1>3, <1>4, <1>18 DEF LoadBusiness, Working, Answered, GoesOn
<1>19. ASSUME UpdateBusiness(r) PROVE Effect
  <2>1. pc[r] = "update"
    BY <1>19 DEF UpdateBusiness
  <2>2. CASE End(r, "error", "none")
    BY <1>4, <2>1, <2>2 DEF Working, Answered
  <2>3. CASE ~End(r, "error", "none")
    BY <1>1, <1>19, <2>1, <2>3 DEF UpdateBusiness, TakesBusiness, Working, Effect
  <2>4. QED
    BY <2>2, <2>3
<1>20. ASSUME Crash(r) PROVE Effect
  BY <1>4, <1>20 DEF Crash, Answered
<1>21. Effect
  BY <1>6, <1>7, <1>8, <1>9, <1>10, <1>11, <1>12, <1>13, <1>14, <1>15, <1>16, <1>17,
     <1>18, <1>19, <1>20 DEF Statement
<1>22. QED
  BY <1>21 DEF Effect

LEMMA ArrivalEffect ==
    ASSUME IInv, NEW r \in Requests, Arrival(r)
    PROVE  /\ UNCHANGED locks /\ pc[r] = "idle"
           /\ \A q \in Requests \ {r} : pc'[q] = pc[q]
<1>1. \E request, first : Arrive(r, request, first)
  BY DEF Arrival, SetAvailability, EditPlan, SaveBusiness, DeleteBusiness
<1>2. QED
  BY <1>1 DEF Arrive, IInv, TypeOK

LEMMA PlatformAlone ==
    ASSUME Platform \/ Quiescent \/ UNCHANGED vars
    PROVE  UNCHANGED <<locks, pc, req>>
BY DEF Platform, GrantOrRevoke, ToggleReseller, ToggleProvider, ChangeScope, Quiescent,
   vars

LEMMA GoingOnDescends ==
    ASSUME NEW a, NEW b, GoesOn(a, b)
    PROVE  AheadAt(b) < AheadAt(a)
BY DEF GoesOn, AheadAt

LEMMA StatementDescends ==
    ASSUME IInv, NEW r \in Requests, Statement(r) \/ Crash(r)
    PROVE  Ahead(r)' < Ahead(r)
<1>1. pc \in [Requests -> {"idle"} \cup Working \cup Answered]
  BY DEF IInv, TypeOK
<1>2. CASE LockPlan(r)
  BY <1>1, <1>2 DEF LockPlan, Ahead, AheadAt
<1>3. CASE TakesBusiness(r)
  BY <1>3 DEF TakesBusiness, Ahead, AheadAt
<1>4. CASE GoesOn(pc[r], pc'[r])
  BY <1>4, GoingOnDescends DEF Ahead
<1>5. CASE pc'[r] \in Answered
  <2>1. Ahead(r)' = 0
    BY <1>5 DEF Ahead, AheadAt, Answered
  <2>2. pc[r] \in Working
    BY StatementEffect
  <2>3. Ahead(r) > 0
    BY <2>2 DEF Ahead, AheadAt, Working
  <2>4. QED
    BY <2>1, <2>3
<1>6. CASE pc'[r] = "refused" /\ pc[r] \in {"select", "checks", "count"}
  BY <1>6 DEF Ahead, AheadAt
<1>7. QED
  BY <1>2, <1>3, <1>4, <1>5, <1>6, StatementEffect

\* No request can be kept busy for ever.
THEOREM AnswersApproach == Spec => StatementsRunOut
<1>1. IInv /\ [Next]_vars =>
        [\A r \in Requests :
            /\ Statement(r) \/ Crash(r) => Ahead(r)' < Ahead(r)
            /\ pc[r] # "idle" => Ahead(r)' < Ahead(r) \/ pc'[r] = pc[r]
            /\ pc[r] \in Answered => pc'[r] = pc[r]]_vars
  <2> SUFFICES ASSUME IInv, [Next]_vars, NEW r \in Requests
               PROVE  /\ Statement(r) \/ Crash(r) => Ahead(r)' < Ahead(r)
                      /\ pc[r] # "idle" => Ahead(r)' < Ahead(r) \/ pc'[r] = pc[r]
                      /\ pc[r] \in Answered => pc'[r] = pc[r]
    OBVIOUS
  <2>1. Statement(r) \/ Crash(r) => Ahead(r)' < Ahead(r) /\ pc[r] \in Working
    BY StatementDescends, StatementEffect
  <2>2. Arrival(r) => pc[r] = "idle"
    BY ArrivalEffect
  <2>3. ASSUME NEW q \in Requests, q # r, Arrival(q) \/ Statement(q) \/ Crash(q)
        PROVE  pc'[r] = pc[r]
    BY <2>3, ArrivalEffect, StatementEffect
  <2>4. CASE Platform \/ Quiescent \/ UNCHANGED vars
    BY <2>1, <2>4, PlatformAlone
  <2>5. CASE \E q \in Requests \ {r} : Arrival(q) \/ Statement(q) \/ Crash(q)
    BY <2>1, <2>3, <2>5
  <2>6. CASE Arrival(r) \/ Statement(r) \/ Crash(r)
    BY <2>1, <2>2, <2>6 DEF Working, Answered
  <2>7. QED
    BY <2>4, <2>5, <2>6 DEF Next
<1>2. QED
  BY <1>1, Invariance, PTL DEF Spec, StatementsRunOut

\* Whoever holds a lock runs a statement that ends in releasing it.
Holds(r) ==
    /\ \A p \in Plans : planLock[p] = r => pc[r] \in UnderPlanLock
    /\ \A b \in Businesses : businessLock[b] = r => pc[r] = "save"

HoldersInv == \A r \in Requests : Holds(r)

LEMMA InitHolders == Init => HoldersInv
BY NoneAssumption DEF Init, HoldersInv, Holds

LEMMA StepHolders == IInv /\ HoldersInv /\ [Next]_vars => HoldersInv'
<1> SUFFICES ASSUME IInv, HoldersInv, [Next]_vars, NEW q \in Requests
             PROVE  Holds(q)'
  BY DEF HoldersInv
<1>0. Holds(q)
  BY DEF HoldersInv
<1>1. /\ pc \in [Requests -> {"idle"} \cup Working \cup Answered]
      /\ planLock \in [Plans -> Requests \cup {None}]
      /\ businessLock \in [Businesses -> Requests \cup {None}]
  BY DEF IInv, TypeOK
<1>2. CASE Platform \/ Quiescent \/ UNCHANGED vars
  BY <1>0, <1>2, PlatformAlone DEF Holds, locks
<1>3. ASSUME NEW r \in Requests, Arrival(r) PROVE Holds(q)'
  BY <1>0, <1>3, ArrivalEffect DEF Holds, locks, UnderPlanLock
<1>4. ASSUME NEW r \in Requests, Statement(r) \/ Crash(r) PROVE Holds(q)'
  <2>1. pc[r] \in Working /\ \A other \in Requests \ {r} : pc'[other] = pc[other]
    BY <1>4, StatementEffect
  <2>2. CASE LockPlan(r)
    BY <1>0, <1>1, <2>1, <2>2 DEF LockPlan, Holds, UnderPlanLock
  <2>3. CASE TakesBusiness(r)
    BY <1>0, <1>1, <2>1, <2>3 DEF TakesBusiness, Holds, UnderPlanLock
  <2>4. CASE Release(r)
    BY <1>0, <1>1, <2>1, <2>4, NoneAssumption DEF Release, Holds
  <2>5. CASE GoesOn(pc[r], pc'[r]) /\ UNCHANGED locks
    BY <1>0, <1>1, <2>1, <2>5 DEF GoesOn, Holds, locks, UnderPlanLock
  <2>6. QED
    BY <1>4, <2>2, <2>3, <2>4, <2>5, StatementEffect
<1>5. QED
  BY <1>2, <1>3, <1>4 DEF Next

\* A request that its next statement keeps waiting: for the row of a plan or a
\* business, or for a business whose key may be changing.
Waiting(r) ==
    \/ pc[r] = "lockPlan" /\ planLock[req[r].plan] # None
    \/ pc[r] = "update" /\ businessLock[req[r].business] # None
    \/ pc[r] = "commit" /\ \E b \in reads[r].chosen : KeyLocked(b)

SomebodyIsReady ==
    (\E r \in Requests : pc[r] \in Working)
        => \E r \in Requests : pc[r] \in Working /\ ~Waiting(r)

\* However many requests run, they never all wait: who holds a business waits for
\* nothing, and who holds a plan waits for nothing but businesses.
THEOREM SomebodyAlwaysReady == Spec => []SomebodyIsReady
<1>1. IInv /\ HoldersInv => SomebodyIsReady
  <2> SUFFICES ASSUME IInv, HoldersInv, NEW r \in Requests, pc[r] \in Working
               PROVE  \E q \in Requests : pc[q] \in Working /\ ~Waiting(q)
    BY DEF SomebodyIsReady
  <2>1. /\ planLock \in [Plans -> Requests \cup {None}]
        /\ businessLock \in [Businesses -> Requests \cup {None}]
        /\ \A q \in Requests : reads[q].chosen \subseteq Businesses
        /\ \A q \in Requests : Flow(q)
    BY DEF IInv, TypeOK, Reads, RequestOK
  <2>2. ASSUME NEW b \in Businesses, businessLock[b] # None
        PROVE  \E q \in Requests : pc[q] \in Working /\ ~Waiting(q)
    <3>1. /\ businessLock[b] \in Requests
          /\ pc[businessLock[b]] = "save"
      BY <2>1, <2>2 DEF HoldersInv, Holds
    <3>2. QED
      BY <3>1 DEF Waiting, Working
  <2>3. ASSUME NEW q \in Requests, Waiting(q), pc[q] # "lockPlan"
        PROVE  \E h \in Requests : pc[h] \in Working /\ ~Waiting(h)
    <3>1. CASE pc[q] = "update"
      BY <2>1, <2>2, <2>3, <3>1 DEF Waiting, Flow, BusinessSteps
    <3>2. CASE pc[q] = "commit"
      BY <2>1, <2>2, <2>3, <3>2 DEF Waiting, KeyLocked
    <3>3. QED
      BY <2>3, <3>1, <3>2 DEF Waiting
  <2>4. CASE Waiting(r) /\ pc[r] = "lockPlan"
    <3>1. req[r].plan \in Plans /\ planLock[req[r].plan] # None
      BY <2>1, <2>4 DEF Waiting, Flow, PlanSteps
    <3>2. PICK h \in Requests : pc[h] \in UnderPlanLock
      BY <2>1, <3>1 DEF HoldersInv, Holds
    <3>3. pc[h] # "lockPlan" /\ pc[h] \in Working
      BY <3>2 DEF UnderPlanLock, Working
    <3>4. QED
      BY <2>3, <3>3
  <2>5. QED
    BY <2>3, <2>4
<1>2. QED
  BY <1>1, InitHolders, StepHolders, Invariance, PTL DEF Spec
=============================================================================
