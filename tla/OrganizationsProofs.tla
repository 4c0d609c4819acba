------------------------ MODULE OrganizationsProofs ------------------------
(***************************************************************************)
(* Safety of Organizations for every set of requests, users, grants, texts *)
(* and forms.  The inductive invariant IInv says which lock a request      *)
(* holds, what it knows of the row behind it, and who is to blame when its *)
(* actor's portfolio has changed.                                          *)
(* EndingsInv says what deletions and revocations that were recorded leave *)
(* behind, ErrorsInv who can wait for whom and what inserts can meet.      *)
(***************************************************************************)
EXTENDS Organizations, TLAPS

\* Statements of a portfolio service that holds the lock of its row.
Locked == {"provider", "clean", "cleanName", "insert", "check", "update", "index", "commit"}

\* What a request is about.
KindOK(r) ==
    /\ req[r].op = "edit_business" =>
          req[r].object \in Organizations /\ Kind(req[r].object) = "business"
    /\ req[r].op = "create_contract" => req[r].object = "business"
    /\ req[r].op \in {"edit_contract", "deactivate_contract", "add_contract"}
         => req[r].object = "contract"
    /\ req[r].op \in {"save", "delete"} => req[r].object \in Organizations
    /\ req[r].op = "revoke" => req[r].object \in Assignments
    /\ req[r].op = "grant" => req[r].user \in Users
    /\ req[r].moves => req[r].op = "save"
    /\ req[r].op \in {"edit_business", "edit_contract", "create_contract", "add_contract", "save"}
         => req[r].text \in Texts

\* Which requests get to a statement.
PlaceOK(r) ==
    /\ pc[r] \in {"select", "lock"} => req[r].op \in Portfolio
    /\ pc[r] \in {"provider", "clean"} => req[r].op = "create_contract"
    /\ pc[r] = "check" => req[r].op \in {"add_contract", "deactivate_contract"}
    /\ pc[r] = "insert" => req[r].op \in {"add_contract", "create_contract"}
    /\ pc[r] = "cleanName" => req[r].op = "edit_business"
    /\ pc[r] = "load" => req[r].op \in {"save", "delete", "revoke"}
    /\ pc[r] \in {"form", "identity"} => req[r].op = "save"
    /\ pc[r] = "update" => req[r].op \in {"edit_business", "save", "delete", "revoke"}
    /\ pc[r] = "index" => req[r].op \in {"edit_business", "save"}
    /\ pc[r] \in {"validate", "insertGrant"} => req[r].op = "grant"

\* What it holds there, and what it knows of its row.
HoldsOK(r) ==
    LET o == req[r].object IN
        /\ req[r].op \in Portfolio /\ pc[r] = "lock" => Stored(o)
        /\ req[r].op \in Portfolio /\ pc[r] \in Locked =>
              lock[o] = r /\ Stored(o) /\ Visible(o) /\ reads[r] = row[o]
        /\ req[r].op \in {"save", "delete"} /\ pc[r] \in Working => Stored(o)
        /\ req[r].op \in {"save", "delete", "revoke"} /\ pc[r] \in {"index", "commit"} =>
              lock[o] = r
        /\ req[r].op \in {"create_contract", "add_contract"} /\ pc[r] = "commit" => inserting = r

\* Another request's commit since r arrived that can take rows out of a portfolio.
Interfered(r) ==
    \E q \in Requests \ before[r] : pc[q] = "ok" /\ req[q].op \in {"save", "delete", "revoke"}

\* A service that has selected its row acts in its actor's portfolio, or somebody
\* has interfered.
ScopeOK(r) ==
    req[r].op \in Portfolio /\ pc[r] \in {"lock"} \cup Locked =>
        InPortfolio(req[r].actor, req[r].object) \/ Interfered(r)

RequestOK(r) == KindOK(r) /\ PlaceOK(r) /\ HoldsOK(r) /\ ScopeOK(r)

IInv ==
    /\ TypeOK
    /\ \A r \in Requests : RequestOK(r)
    /\ \A r \in Requests : \A q \in before[r] : pc[q] \in Answered
    /\ inserting # None => ~Stored("contract")
    /\ \A e \in audit : pc[e.request] = "ok"

-----------------------------------------------------------------------------
LEMMA InitIInv == Init => IInv
<1> SUFFICES ASSUME Init PROVE IInv
  OBVIOUS
<1> PICK s \in Starts : row = s.row /\ assignment = s.assignment
  BY DEF Init
<1>1. row \in [Organizations -> Row] /\ assignment \in [Assignments -> Grant]
  BY StartsAssumption
<1>2. NoRow \in Row /\ NoRequest \in Request
  BY DEF Row, NoRequest, Request
<1>3. TypeOK
  BY <1>1, <1>2 DEF Init, TypeOK
<1>4. ASSUME NEW r \in Requests PROVE pc[r] = "idle" /\ req[r].op = "none" /\ ~req[r].moves
  BY DEF Init, NoRequest
<1>5. ASSUME NEW r \in Requests PROVE RequestOK(r)
  BY <1>4 DEF RequestOK, KindOK, PlaceOK, HoldsOK, ScopeOK, Locked, Portfolio
<1>6. QED
  BY <1>3, <1>5 DEF Init, IInv

\* A step of r that writes no row leaves the others what they had.
LEMMA RowsKept ==
    ASSUME IInv, NEW r \in Requests, NEW next \in Working \cup Answered,
           UNCHANGED rows, TypeOK', pc[r] \notin Answered,
           pc' = [pc EXCEPT ![r] = next],
           \A q \in Requests \ {r} : /\ req'[q] = req[q] /\ reads'[q] = reads[q]
                                     /\ before'[q] = before[q]
                                     /\ \A o \in Organizations \cup Assignments :
                                           lock[o] = q => lock'[o] = q
                                     /\ inserting = q => inserting' = q,
           \A q \in before'[r] : pc[q] \in Answered,
           inserting' # None => ~Stored("contract"),
           RequestOK(r)'
    PROVE  IInv'
<1>1. TypeOK /\ UNCHANGED <<row, assignment, audit>>
  BY DEF IInv, rows
<1>2. pc'[r] = next /\ \A q \in Requests \ {r} : pc'[q] = pc[q]
  BY <1>1 DEF TypeOK
<1>3. ASSUME NEW q \in Requests, q # r PROVE RequestOK(q)'
  <2>1. RequestOK(q) /\ pc'[q] = pc[q] /\ req'[q] = req[q] /\ reads'[q] = reads[q]
        /\ before'[q] = before[q] /\ req[q] \in Request
    BY <1>1, <1>2, <1>3 DEF IInv, TypeOK
  <2>2. KindOK(q)' /\ PlaceOK(q)'
    BY <2>1 DEF RequestOK, KindOK, PlaceOK
  <2>3. HoldsOK(q)'
    <3> DEFINE o == req[q].object
    <3>1. \A p \in Organizations \cup Assignments : lock[p] = q => lock'[p] = q
      BY <1>3
    <3>2. inserting = q => inserting' = q
      BY <1>3
    <3>3. req[q].op \in Portfolio \cup {"save", "delete", "revoke"} =>
             o \in Organizations \cup Assignments
      BY <2>1 DEF RequestOK, KindOK, Portfolio, Organizations, Named
    <3>4. req'[q].object = o /\ (Stored(o) <=> Stored(o)') /\ (Visible(o) <=> Visible(o)')
      BY <1>1, <2>1 DEF Stored, Visible, Live
    <3>5. QED
      BY <1>1, <2>1, <3>1, <3>2, <3>3, <3>4 DEF RequestOK, HoldsOK
  <2>4. ScopeOK(q)'
    <3>1. Interfered(q) => Interfered(q)'
      BY <1>1, <1>2, <1>3, <2>1 DEF Interfered, Answered
    <3>2. InPortfolio(req[q].actor, req[q].object)
             <=> InPortfolio(req[q].actor, req[q].object)'
      BY <1>1, <2>1 DEF InPortfolio, HasGrant, Live, Stored
    <3>3. QED
      BY <2>1, <3>1, <3>2 DEF RequestOK, ScopeOK
  <2>5. QED
    BY <2>2, <2>3, <2>4 DEF RequestOK
<1>4. ASSUME NEW q \in Requests, NEW p \in before'[q] PROVE pc'[p] \in Answered
  <2>1. p \in Requests /\ pc[p] \in Answered
    BY <1>4 DEF IInv, TypeOK
  <2>2. QED
    BY <1>2, <2>1
<1>5. \A e \in audit' : pc'[e.request] = "ok"
  BY <1>1, <1>2 DEF IInv, TypeOK, Answered
<1>6. Stored("contract") <=> Stored("contract")'
  BY <1>1 DEF Stored
<1>7. QED
  BY <1>3, <1>4, <1>5, <1>6 DEF IInv

\* A statement that neither writes nor locks.
LEMMA ContinueSafe ==
    ASSUME IInv, NEW r \in Requests, NEW next \in Working, Continue(r, next),
           pc[r] \in Working,
           (PlaceOK(r) /\ HoldsOK(r) /\ ScopeOK(r))'
    PROVE  IInv'
<1>1. /\ TypeOK /\ UNCHANGED <<rows, lock, inserting, granting, req, reads, before>>
      /\ pc' = [pc EXCEPT ![r] = next]
  BY DEF Continue, Goto, IInv, locks
<1>2. TypeOK'
  BY <1>1 DEF TypeOK, rows
<1>3. KindOK(r)'
  BY <1>1 DEF IInv, RequestOK, KindOK
<1>4. /\ pc[r] \notin Answered
      /\ inserting' # None => ~Stored("contract")
      /\ \A q \in before'[r] : pc[q] \in Answered
  BY <1>1 DEF IInv, Working, Answered
<1>5. QED
  BY <1>1, <1>2, <1>3, <1>4, RowsKept DEF RequestOK

\* A rollback gives up what its own request holds.
LEMMA RefuseSafe ==
    ASSUME IInv, NEW r \in Requests, NEW why \in Answered, Refuse(r, why), pc[r] \in Working
    PROVE  IInv'
<1>1. /\ TypeOK /\ UNCHANGED <<rows, req, before>>
      /\ pc' = [pc EXCEPT ![r] = why] /\ reads' = [reads EXCEPT ![r] = NoRow]
      /\ Release(r)
  BY DEF Refuse, Goto, IInv
<1>2. /\ lock' \in [Organizations \cup Assignments -> Requests \cup {None}]
      /\ inserting' \in {None, inserting} /\ granting' \in [Users -> Requests \cup {None}]
      /\ \A q \in Requests \ {r} : /\ \A o \in Organizations \cup Assignments :
                                        lock[o] = q => lock'[o] = q
                                   /\ inserting = q => inserting' = q
  BY <1>1 DEF Release, TypeOK
<1>3. NoRow \in Row
  BY DEF Row
<1>4. TypeOK'
  BY <1>1, <1>2, <1>3 DEF TypeOK, rows
<1>5. pc'[r] = why /\ req'[r] = req[r]
  BY <1>1 DEF TypeOK
<1>6. RequestOK(r)'
  <2>1. KindOK(r)'
    BY <1>1 DEF IInv, RequestOK, KindOK
  <2>2. PlaceOK(r)' /\ HoldsOK(r)' /\ ScopeOK(r)'
    BY <1>5 DEF PlaceOK, HoldsOK, ScopeOK, Answered, Working, Locked
  <2>3. QED
    BY <2>1, <2>2 DEF RequestOK
<1>7. /\ pc[r] \notin Answered
      /\ inserting' # None => ~Stored("contract")
      /\ \A q \in before'[r] : pc[q] \in Answered
  BY <1>1, <1>2 DEF IInv, Working, Answered
<1>8. \A q \in Requests \ {r} : reads'[q] = reads[q] /\ req'[q] = req[q] /\ before'[q] = before[q]
  BY <1>1 DEF TypeOK
<1>9. QED
  BY <1>1, <1>2, <1>4, <1>6, <1>7, <1>8, RowsKept

\* A commit writes rows that it has locked or inserted, and takes nothing out of a
\* portfolio unless it is one of those that Interfered names.
LEMMA CommitSafe ==
    ASSUME IInv, NEW r \in Requests, NEW newRow \in [Organizations -> Row],
           NEW newAssignment \in [Assignments -> Grant], NEW events,
           Commit(r, newRow, newAssignment, events), pc[r] = "commit",
           \A e \in events : e.request = r /\ e.fields \subseteq Fields,
           \A o \in Organizations : newRow[o] # row[o] =>
               (Stored(o) /\ lock[o] = r) \/ (o = "contract" /\ inserting = r),
           \A o \in Organizations : Stored(o) => newRow[o] # NoRow,
           \/ req[r].op \in {"save", "delete", "revoke"}
           \/ \A u : \A o \in Organizations : InPortfolio(u, o) => InPortfolio(u, o)'
    PROVE  IInv'
<1>1. /\ TypeOK /\ UNCHANGED <<req, before>>
      /\ row' = newRow /\ assignment' = newAssignment /\ audit' = audit \cup events
      /\ pc' = [pc EXCEPT ![r] = "ok"] /\ reads' = [reads EXCEPT ![r] = NoRow]
      /\ Release(r)
  BY DEF Commit, Goto, IInv
<1>2. /\ lock' \in [Organizations \cup Assignments -> Requests \cup {None}]
      /\ inserting' \in {None, inserting} /\ granting' \in [Users -> Requests \cup {None}]
      /\ inserting = r => inserting' = None
      /\ \A q \in Requests \ {r} : /\ \A o \in Organizations \cup Assignments :
                                        lock[o] = q => lock'[o] = q
                                   /\ inserting = q => inserting' = q
  BY <1>1 DEF Release, TypeOK
<1>3. TypeOK'
  <2>1. NoRow \in Row
    BY DEF Row
  <2>2. pc' \in [Requests -> {"idle"} \cup Working \cup Answered] /\ reads' \in [Requests -> Row]
    BY <1>1, <2>1 DEF TypeOK, Answered
  <2>3. \A e \in audit' : e.request \in Requests /\ e.fields \subseteq Fields
    BY <1>1 DEF TypeOK
  <2>4. QED
    BY <1>1, <1>2, <2>2, <2>3 DEF TypeOK
<1>4. /\ pc'[r] = "ok" /\ req'[r] = req[r]
      /\ \A q \in Requests \ {r} : pc'[q] = pc[q] /\ reads'[q] = reads[q]
  BY <1>1 DEF TypeOK
<1>5. \A o \in Organizations : Stored(o) => Stored(o)'
  BY <1>1 DEF Stored
<1>6. ASSUME NEW q \in Requests, q # r PROVE RequestOK(q)'
  <2> PICK o : o = req[q].object
    OBVIOUS
  <2>1. RequestOK(q) /\ pc'[q] = pc[q] /\ req'[q] = req[q] /\ reads'[q] = reads[q]
        /\ before'[q] = before[q]
    BY <1>1, <1>4, <1>6 DEF IInv, TypeOK
  <2>2. KindOK(q)' /\ PlaceOK(q)'
    BY <2>1 DEF RequestOK, KindOK, PlaceOK
  <2>3. /\ req[q].op \in Portfolio \cup {"save", "delete"} => o \in Organizations
        /\ req[q].op = "revoke" => o \in Assignments
    BY <2>1 DEF RequestOK, KindOK, Portfolio, Organizations, Named
  <2>4. HoldsOK(q)'
    <3>1. ASSUME o \in Organizations, lock[o] = q, Stored(o) PROVE row'[o] = row[o]
      BY <1>1, <1>6, <3>1, NoneAssumption DEF IInv
    <3>2. o \in Organizations /\ row'[o] = row[o] /\ Visible(o) => Visible(o)'
      BY DEF Visible, Live
    <3>3. o \in Organizations => (Stored(o) => Stored(o)')
      BY <1>5
    <3>4. o \in Organizations \cup Assignments => (lock[o] = q => lock'[o] = q)
      BY <1>2, <1>6
    <3>5. inserting = q => inserting' = q
      BY <1>2, <1>6
    <3>6. req'[q].object = o /\ req'[q].op = req[q].op
      BY <2>1
    <3>7. req[q].op \in Portfolio /\ pc[q] \in Locked
             => lock'[o] = q /\ Stored(o)' /\ Visible(o)' /\ reads'[q] = row'[o]
      BY <2>1, <2>3, <3>1, <3>2, <3>3, <3>4 DEF RequestOK, HoldsOK
    <3>8. QED
      BY <2>1, <2>3, <3>3, <3>4, <3>5, <3>6, <3>7 DEF RequestOK, HoldsOK
  <2>5. ScopeOK(q)'
    <3>1. Interfered(q) => Interfered(q)'
      BY <1>1, <1>4, <2>1 DEF Interfered, TypeOK
    <3>2. CASE req[r].op \in {"save", "delete", "revoke"}
      <4>1. pc[q] \in {"lock"} \cup Locked => r \notin before[q]
        BY DEF IInv, Answered
      <4>2. pc[q] \in {"lock"} \cup Locked => Interfered(q)'
        BY <1>4, <2>1, <3>2, <4>1 DEF Interfered
      <4>3. QED
        BY <2>1, <4>2 DEF ScopeOK
    <3>3. CASE \A u : \A p \in Organizations : InPortfolio(u, p) => InPortfolio(u, p)'
      <4>1. req[q].op \in Portfolio =>
               (InPortfolio(req[q].actor, o) => InPortfolio(req[q].actor, o)')
        BY <2>1, <2>3, <3>3 DEF InPortfolio, HasGrant
      <4>2. QED
        BY <2>1, <3>1, <4>1 DEF RequestOK, ScopeOK
    <3>4. QED
      BY <3>2, <3>3
  <2>6. QED
    BY <2>2, <2>4, <2>5 DEF RequestOK
<1>7. RequestOK(r)'
  <2>1. KindOK(r)'
    BY <1>1 DEF IInv, RequestOK, KindOK
  <2>2. PlaceOK(r)' /\ HoldsOK(r)' /\ ScopeOK(r)'
    BY <1>4 DEF PlaceOK, HoldsOK, ScopeOK, Locked, Working
  <2>3. QED
    BY <2>1, <2>2 DEF RequestOK
<1>8. ASSUME NEW q \in Requests, NEW p \in before'[q] PROVE pc'[p] \in Answered
  <2>1. p \in Requests /\ pc[p] \in Answered
    BY <1>1, <1>8 DEF IInv, TypeOK
  <2>2. QED
    BY <1>4, <2>1 DEF Answered
<1>9. inserting' # None => ~Stored("contract")'
  BY <1>1, <1>2 DEF IInv, Stored, Organizations, Named
<1>10. \A e \in audit' : pc'[e.request] = "ok"
  BY <1>1, <1>4 DEF IInv, TypeOK
<1>11. QED
  BY <1>3, <1>6, <1>7, <1>8, <1>9, <1>10 DEF IInv

-----------------------------------------------------------------------------
(* The portfolio services.                                                 *)

LEMMA SelectScopedStep == ASSUME IInv, NEW r \in Requests, SelectScoped(r) PROVE IInv'
<1>1. /\ TypeOK /\ RequestOK(r) /\ pc[r] = "select" /\ req[r].op \in Portfolio
  BY DEF SelectScoped, IInv, RequestOK, PlaceOK
<1>2. CASE Refuse(r, "denied")
  BY <1>1, <1>2, RefuseSafe DEF Working, Answered
<1>3. CASE InPortfolio(req[r].actor, req[r].object) /\ Continue(r, "lock")
  <2>1. /\ UNCHANGED <<row, assignment, lock, inserting, req, reads, before>> /\ pc'[r] = "lock"
    BY <1>1, <1>3 DEF Continue, Goto, rows, locks, TypeOK
  <2>2. Stored(req[r].object)
    BY <1>1, <1>3 DEF InPortfolio, Live, RequestOK, KindOK, Portfolio, Stored, NoRow
  <2>3. PlaceOK(r)' /\ HoldsOK(r)'
    BY <1>1, <2>1, <2>2 DEF PlaceOK, HoldsOK, Stored, Locked, Portfolio
  <2>4. ScopeOK(r)'
    BY <1>3, <2>1 DEF ScopeOK, InPortfolio, HasGrant, Live, Stored
  <2>5. QED
    BY <1>1, <1>3, <2>3, <2>4, ContinueSafe DEF Working
<1>4. QED
  BY <1>2, <1>3 DEF SelectScoped

\* A statement between the lock and the commit: what the request holds stays.
LEMMA LockedSafe ==
    ASSUME IInv, NEW r \in Requests, NEW next, Continue(r, next), pc[r] \in Locked,
           \/ req[r].op = "create_contract" /\ next \in {"clean", "insert"}
           \/ req[r].op = "deactivate_contract" /\ next = "commit"
           \/ req[r].op = "edit_business" /\ next \in {"update", "commit"}
    PROVE  IInv'
<1>1. /\ TypeOK /\ RequestOK(r) /\ pc' = [pc EXCEPT ![r] = next] /\ pc'[r] = next
      /\ UNCHANGED <<row, assignment, lock, inserting, req, reads, before>>
  BY DEF Continue, Goto, rows, locks, TypeOK, IInv
<1>2. next \in Working /\ pc[r] \in Working /\ next \in Locked
  BY DEF Locked, Working
<1>3. PlaceOK(r)'
  BY <1>1 DEF PlaceOK
<1>4. HoldsOK(r)'
  BY <1>1, <1>2 DEF RequestOK, HoldsOK, Stored, Visible, Live, Portfolio
<1>5. ScopeOK(r)'
  <2>1. Interfered(r) => Interfered(r)'
    BY <1>1 DEF Interfered, TypeOK, Locked
  <2>2. InPortfolio(req[r].actor, req[r].object) => InPortfolio(req[r].actor, req[r].object)'
    BY <1>1 DEF InPortfolio, HasGrant, Live, Stored
  <2>3. QED
    BY <1>1, <1>2, <2>1, <2>2 DEF RequestOK, ScopeOK
<1>6. QED
  BY <1>2, <1>3, <1>4, <1>5, ContinueSafe

LEMMA FindProviderStep == ASSUME IInv, NEW r \in Requests, FindProvider(r) PROVE IInv'
<1>1. pc[r] = "provider" /\ req[r].op = "create_contract"
  BY DEF FindProvider, IInv, RequestOK, PlaceOK
<1>2. QED
  BY <1>1, LockedSafe, RefuseSafe DEF FindProvider, Locked, Working, Answered

LEMMA CleanContractStep == ASSUME IInv, NEW r \in Requests, CleanContract(r) PROVE IInv'
<1>1. pc[r] = "clean" /\ req[r].op = "create_contract"
  BY DEF CleanContract, IInv, RequestOK, PlaceOK
<1>2. QED
  BY <1>1, LockedSafe, RefuseSafe DEF CleanContract, Locked, Working, Answered

LEMMA CleanNameStep == ASSUME IInv, NEW r \in Requests, CleanName(r) PROVE IInv'
<1>1. pc[r] = "cleanName" /\ req[r].op = "edit_business"
  BY DEF CleanName, IInv, RequestOK, PlaceOK
<1>2. QED
  BY <1>1, LockedSafe, RefuseSafe DEF CleanName, Locked, Working, Answered

LEMMA CheckContractStep == ASSUME IInv, NEW r \in Requests, CheckContract(r) PROVE IInv'
<1>1. /\ pc[r] = "check" /\ req[r].op \in {"add_contract", "deactivate_contract"} /\ TypeOK
  BY DEF CheckContract, IInv, RequestOK, PlaceOK
<1>2. CASE req[r].op = "add_contract" /\ Continue(r, "insert")
  <2>1. UNCHANGED <<row, lock, inserting, req, reads, before>> /\ pc'[r] = "insert"
    BY <1>1, <1>2 DEF Continue, Goto, rows, locks, TypeOK
  <2>2. PlaceOK(r)' /\ HoldsOK(r)' /\ ScopeOK(r)'
    BY <1>2, <2>1 DEF PlaceOK, HoldsOK, ScopeOK, Portfolio
  <2>3. QED
    BY <1>1, <1>2, <2>2, ContinueSafe DEF Working
<1>3. CASE req[r].op = "deactivate_contract" /\ Continue(r, "commit")
  BY <1>1, <1>3, LockedSafe DEF Locked
<1>4. CASE Refuse(r, "invalid")
  BY <1>1, <1>4, RefuseSafe DEF Working, Answered
<1>5. QED
  BY <1>1, <1>2, <1>3, <1>4 DEF CheckContract

\* The lock is granted on a row that is still visible, and it is read then.
LEMMA LockRowStep == ASSUME IInv, NEW r \in Requests, LockRow(r) PROVE IInv'
<1> PICK o : o = req[r].object
  OBVIOUS
<1>1. /\ TypeOK /\ RequestOK(r) /\ pc[r] = "lock" /\ req[r].op \in Portfolio
      /\ o \in Organizations /\ Stored(o)
  BY DEF LockRow, IInv, RequestOK, PlaceOK, KindOK, HoldsOK, Portfolio, Organizations, Named
<1>2. CASE Refuse(r, "denied")
  BY <1>1, <1>2, RefuseSafe DEF Working, Answered
<1>3. CASE /\ Visible(o) /\ TakeLock(r, o, AfterLock(r))
           /\ reads' = [reads EXCEPT ![r] = row[o]]
  <2> PICK next : next = AfterLock(r)
    OBVIOUS
  <2>1. /\ next \in {"provider", "check", "cleanName", "commit"}
        /\ next = "cleanName" => req[r].op = "edit_business"
        /\ next = "provider" => req[r].op = "create_contract"
        /\ next = "check" => req[r].op = "deactivate_contract"
        /\ next = "commit" => req[r].op # "create_contract"
    BY <1>1 DEF AfterLock, Portfolio
  <2>2. /\ UNCHANGED <<rows, row, assignment, audit, inserting, granting, req, before>>
        /\ lock[o] = None /\ lock' = [lock EXCEPT ![o] = r] /\ pc' = [pc EXCEPT ![r] = next]
    BY <1>3 DEF TakeLock, Goto, rows
  <2>3. TypeOK'
    BY <1>1, <1>3, <2>1, <2>2 DEF TypeOK, Working
  <2>4. pc'[r] = next /\ lock'[o] = r /\ reads'[r] = row[o]
    BY <1>1, <1>3, <2>2 DEF TypeOK
  <2>5. KindOK(r)' /\ PlaceOK(r)'
    BY <1>1, <2>1, <2>2, <2>4 DEF RequestOK, KindOK, PlaceOK
  <2>6. HoldsOK(r)'
    BY <1>1, <1>3, <2>1, <2>2, <2>4 DEF HoldsOK, Stored, Visible, Live, Portfolio
  <2>7. ScopeOK(r)'
    <3>1. Interfered(r) => Interfered(r)'
      BY <1>1, <2>2 DEF Interfered, TypeOK
    <3>2. InPortfolio(req[r].actor, o) => InPortfolio(req[r].actor, o)'
      BY <2>2 DEF InPortfolio, HasGrant, Live, Stored
    <3>3. QED
      BY <1>1, <2>2, <3>1, <3>2 DEF RequestOK, ScopeOK
  <2>8. ASSUME NEW q \in Requests, q # r
        PROVE  /\ \A p \in Organizations \cup Assignments : lock[p] = q => lock'[p] = q
               /\ req'[q] = req[q] /\ reads'[q] = reads[q] /\ before'[q] = before[q]
               /\ inserting = q => inserting' = q
    BY <1>1, <1>3, <2>2, <2>8, NoneAssumption DEF TypeOK
  <2>9. /\ pc[r] \notin Answered /\ next \in Working
        /\ inserting' # None => ~Stored("contract")
        /\ \A q \in before'[r] : pc[q] \in Answered
    BY <1>1, <2>1, <2>2 DEF IInv, Working, Answered
  <2>10. QED
    BY <2>2, <2>3, <2>5, <2>6, <2>7, <2>8, <2>9, RowsKept DEF RequestOK
<1>4. QED
  BY <1>2, <1>3 DEF LockRow

LEMMA InsertContractStep == ASSUME IInv, NEW r \in Requests, InsertContract(r) PROVE IInv'
<1>1. /\ TypeOK /\ RequestOK(r) /\ pc[r] = "insert" /\ inserting = None
      /\ req[r].op \in {"add_contract", "create_contract"}
  BY DEF InsertContract, IInv, RequestOK, PlaceOK
<1>2. CASE Refuse(r, "error")
  BY <1>1, <1>2, RefuseSafe DEF Working, Answered
<1>3. CASE /\ ~Stored("contract") /\ inserting' = r /\ Goto(r, "commit")
           /\ UNCHANGED <<rows, lock, granting, req, reads, before>>
  <2>1. /\ UNCHANGED <<row, assignment, audit>> /\ pc' = [pc EXCEPT ![r] = "commit"]
        /\ pc'[r] = "commit"
    BY <1>1, <1>3 DEF Goto, rows, TypeOK
  <2>2. TypeOK'
    BY <1>1, <1>3, <2>1 DEF TypeOK, Working
  <2>3. KindOK(r)' /\ PlaceOK(r)' /\ HoldsOK(r)'
    BY <1>1, <1>3, <2>1
    DEF RequestOK, KindOK, PlaceOK, HoldsOK, Stored, Visible, Live, Locked, Portfolio
  <2>4. ScopeOK(r)'
    <3>1. Interfered(r) => Interfered(r)'
      BY <1>1, <1>3, <2>1 DEF Interfered, TypeOK
    <3>2. InPortfolio(req[r].actor, req[r].object) => InPortfolio(req[r].actor, req[r].object)'
      BY <1>3, <2>1 DEF InPortfolio, HasGrant, Live, Stored
    <3>3. QED
      BY <1>1, <1>3, <3>1, <3>2 DEF RequestOK, ScopeOK, Locked
  <2>5. /\ pc[r] \notin Answered /\ "commit" \in Working
        /\ \A q \in before'[r] : pc[q] \in Answered
    BY <1>1, <1>3 DEF IInv, Working, Answered
  <2>6. QED
    BY <1>1, <1>3, <2>1, <2>2, <2>3, <2>4, <2>5, NoneAssumption, RowsKept DEF RequestOK
<1>4. QED
  BY <1>2, <1>3 DEF InsertContract

-----------------------------------------------------------------------------
(* The admin pages.                                                        *)

LEMMA LoadStep == ASSUME IInv, NEW r \in Requests, Load(r) PROVE IInv'
<1> PICK o : o = req[r].object
  OBVIOUS
<1>1. /\ TypeOK /\ RequestOK(r) /\ pc[r] = "load"
      /\ req[r].op \in {"save", "delete", "revoke"}
      /\ o \in Organizations \cup Assignments
  BY DEF Load, IInv, RequestOK, PlaceOK, KindOK
<1>2. CASE Refuse(r, "denied")
  BY <1>1, <1>2, RefuseSafe DEF Working, Answered
<1>3. ASSUME NEW next \in {"update", "form"}, next = "form" => req[r].op = "save",
             Goto(r, next), NEW new \in Row, reads' = [reads EXCEPT ![r] = new],
             UNCHANGED <<rows, locks, req, before>>
      PROVE  IInv'
  <2>1. /\ UNCHANGED <<row, assignment, audit, lock, inserting, granting>>
        /\ pc' = [pc EXCEPT ![r] = next] /\ pc'[r] = next
    BY <1>1, <1>3 DEF Goto, rows, locks, TypeOK
  <2>2. TypeOK'
    BY <1>1, <1>3, <2>1 DEF TypeOK, Working
  <2>3. RequestOK(r)'
    BY <1>1, <1>3, <2>1
    DEF RequestOK, KindOK, PlaceOK, HoldsOK, ScopeOK, Stored, Locked, Portfolio, Working
  <2>4. /\ pc[r] \notin Answered /\ next \in Working
        /\ inserting' # None => ~Stored("contract")
        /\ \A q \in before'[r] : pc[q] \in Answered
    BY <1>1, <1>3, <2>1 DEF IInv, Working, Answered
  <2>5. \A q \in Requests \ {r} : req'[q] = req[q] /\ reads'[q] = reads[q] /\ before'[q] = before[q]
    BY <1>1, <1>3 DEF TypeOK
  <2>6. QED
    BY <1>3, <2>1, <2>2, <2>3, <2>4, <2>5, RowsKept
<1>4. NoRow \in Row /\ (o \notin Assignments => row[o] \in Row)
  BY <1>1 DEF Row, TypeOK
<1>5. QED
  <2>1. Refuse(r, "denied")
        \/ /\ Goto(r, IF req[r].op = "save" THEN "form" ELSE "update")
           /\ reads' = [reads EXCEPT ![r] = IF o \in Assignments THEN NoRow ELSE row[o]]
           /\ UNCHANGED <<rows, locks, req, before>>
    BY DEF Load
  <2>2. QED
    BY <1>2, <1>3, <1>4, <2>1

LEMMA ValidateFormStep == ASSUME IInv, NEW r \in Requests, ValidateForm(r) PROVE IInv'
<1>1. TypeOK /\ RequestOK(r) /\ pc[r] = "form" /\ req[r].op = "save"
  BY DEF ValidateForm, IInv, RequestOK, PlaceOK
<1>2. ASSUME NEW next \in {"identity", "update"}, Continue(r, next) PROVE IInv'
  <2>1. UNCHANGED <<row, lock, inserting, req, reads>> /\ pc'[r] = next
    BY <1>1, <1>2 DEF Continue, Goto, rows, locks, TypeOK
  <2>2. PlaceOK(r)' /\ HoldsOK(r)' /\ ScopeOK(r)'
    BY <1>1, <1>2, <2>1 DEF RequestOK, PlaceOK, HoldsOK, ScopeOK, Stored, Portfolio, Working
  <2>3. QED
    BY <1>1, <1>2, <2>2, ContinueSafe DEF Working
<1>3. QED
  BY <1>1, <1>2, RefuseSafe DEF ValidateForm, Working, Answered

LEMMA RefuseIdentityStep == ASSUME IInv, NEW r \in Requests, RefuseIdentity(r) PROVE IInv'
  BY RefuseSafe DEF RefuseIdentity, Working, Answered

LEMMA UpdateStep == ASSUME IInv, NEW r \in Requests, Update(r) PROVE IInv'
<1> PICK o : o = req[r].object
  OBVIOUS
<1> PICK next : next = IF Renames(r) THEN "index" ELSE "commit"
  OBVIOUS
<1>1. /\ TypeOK /\ RequestOK(r) /\ pc[r] = "update"
      /\ req[r].op \in {"edit_business", "save", "delete", "revoke"}
      /\ o \in Organizations \cup Assignments
  BY DEF Update, IInv, RequestOK, PlaceOK, KindOK
<1>2. /\ UNCHANGED <<rows, row, assignment, audit, inserting, granting, req, reads, before>>
      /\ lock[o] \in {None, r} /\ lock' = [lock EXCEPT ![o] = r]
      /\ pc' = [pc EXCEPT ![r] = next]
  BY DEF Update, Goto, rows
<1>3. TypeOK' /\ pc'[r] = next /\ lock'[o] = r
  BY <1>1, <1>2 DEF TypeOK, Working
<1>4. next = "index" => req[r].op \in {"edit_business", "save"}
  BY DEF Renames
<1>5. KindOK(r)' /\ PlaceOK(r)'
  BY <1>1, <1>2, <1>3, <1>4 DEF RequestOK, KindOK, PlaceOK
<1>6. HoldsOK(r)'
  BY <1>1, <1>2, <1>3
  DEF RequestOK, HoldsOK, Stored, Visible, Live, Locked, Portfolio, Working
<1>7. ScopeOK(r)'
  <2>1. Interfered(r) => Interfered(r)'
    BY <1>1, <1>2 DEF Interfered, TypeOK
  <2>2. InPortfolio(req[r].actor, o) => InPortfolio(req[r].actor, o)'
    BY <1>2 DEF InPortfolio, HasGrant, Live, Stored
  <2>3. QED
    BY <1>1, <1>2, <2>1, <2>2 DEF RequestOK, ScopeOK, Locked
<1>8. /\ pc[r] \notin Answered /\ next \in Working
      /\ inserting' # None => ~Stored("contract")
      /\ \A q \in before'[r] : pc[q] \in Answered
  BY <1>1, <1>2 DEF IInv, Working, Answered
<1>9. ASSUME NEW q \in Requests, q # r, NEW p \in Organizations \cup Assignments, lock[p] = q
      PROVE  lock'[p] = q
  BY <1>1, <1>2, <1>9, NoneAssumption DEF TypeOK
<1>10. QED
  BY <1>2, <1>3, <1>5, <1>6, <1>7, <1>8, <1>9, RowsKept DEF RequestOK

LEMMA IndexNameStep == ASSUME IInv, NEW r \in Requests, IndexName(r) PROVE IInv'
<1>1. /\ TypeOK /\ RequestOK(r) /\ pc[r] = "index" /\ req[r].op \in {"edit_business", "save"}
  BY DEF IndexName, IInv, RequestOK, PlaceOK
<1>2. CASE Refuse(r, "error")
  BY <1>1, <1>2, RefuseSafe DEF Working, Answered
<1>3. CASE Continue(r, "commit") /\ req[r].op = "edit_business"
  BY <1>1, <1>3, LockedSafe DEF Locked
<1>4. CASE Continue(r, "commit") /\ req[r].op = "save"
  <2>1. UNCHANGED <<row, lock, inserting, req, reads>> /\ pc'[r] = "commit"
    BY <1>1, <1>4 DEF Continue, Goto, rows, locks, TypeOK
  <2>2. PlaceOK(r)' /\ HoldsOK(r)' /\ ScopeOK(r)'
    BY <1>1, <1>4, <2>1 DEF RequestOK, PlaceOK, HoldsOK, ScopeOK, Stored, Portfolio, Working
  <2>3. QED
    BY <1>1, <1>4, <2>2, ContinueSafe DEF Working
<1>5. QED
  BY <1>1, <1>2, <1>3, <1>4 DEF IndexName

LEMMA ValidateGrantStep == ASSUME IInv, NEW r \in Requests, ValidateGrant(r) PROVE IInv'
<1>1. TypeOK /\ pc[r] = "validate" /\ req[r].op = "grant"
  BY DEF ValidateGrant, IInv, RequestOK, PlaceOK
<1>2. CASE Continue(r, "insertGrant")
  <2>1. UNCHANGED req /\ pc'[r] = "insertGrant"
    BY <1>1, <1>2 DEF Continue, Goto, TypeOK
  <2>2. PlaceOK(r)' /\ HoldsOK(r)' /\ ScopeOK(r)'
    BY <1>1, <2>1 DEF PlaceOK, HoldsOK, ScopeOK, Portfolio
  <2>3. QED
    BY <1>1, <1>2, <2>2, ContinueSafe DEF Working
<1>3. CASE Refuse(r, "invalid")
  BY <1>1, <1>3, RefuseSafe DEF Working, Answered
<1>4. QED
  BY <1>2, <1>3 DEF ValidateGrant

LEMMA InsertGrantStep == ASSUME IInv, NEW r \in Requests, InsertGrant(r) PROVE IInv'
<1> PICK u : u = req[r].user
  OBVIOUS
<1>1. TypeOK /\ RequestOK(r) /\ pc[r] = "insertGrant" /\ req[r].op = "grant"
  BY DEF InsertGrant, IInv, RequestOK, PlaceOK
<1>2. CASE Refuse(r, "error")
  BY <1>1, <1>2, RefuseSafe DEF Working, Answered
<1>3. CASE /\ granting' = [granting EXCEPT ![u] = r] /\ Goto(r, "commit")
           /\ UNCHANGED <<rows, lock, inserting, req, reads, before>>
  <2>1. /\ UNCHANGED <<row, assignment, audit>> /\ pc' = [pc EXCEPT ![r] = "commit"]
        /\ pc'[r] = "commit"
    BY <1>1, <1>3 DEF Goto, rows, TypeOK
  <2>2. TypeOK'
    BY <1>1, <1>3, <2>1 DEF TypeOK, Working
  <2>3. RequestOK(r)'
    BY <1>1, <1>3, <2>1 DEF RequestOK, KindOK, PlaceOK, HoldsOK, ScopeOK, Portfolio
  <2>4. /\ pc[r] \notin Answered /\ "commit" \in Working
        /\ inserting' # None => ~Stored("contract")
        /\ \A q \in before'[r] : pc[q] \in Answered
    BY <1>1, <1>3, <2>1 DEF IInv, Working, Answered
  <2>5. QED
    BY <1>3, <2>1, <2>2, <2>3, <2>4, RowsKept
<1>4. QED
  BY <1>2, <1>3 DEF InsertGrant

LEMMA AbortStep ==
    ASSUME IInv, NEW r \in Requests, DeadlockAbort(r) \/ Crash(r) PROVE IInv'
<1>1. CASE Crash(r)
  BY <1>1, RefuseSafe DEF Crash, Answered
<1>2. CASE DeadlockAbort(r)
  <2>1. BlockedBy(r) # {} /\ Refuse(r, "error")
    BY <1>2 DEF DeadlockAbort
  <2>2. pc[r] \in Working
    BY <2>1 DEF BlockedBy, Working
  <2>3. QED
    BY <2>1, <2>2, RefuseSafe DEF Answered
<1>3. QED
  BY <1>1, <1>2

-----------------------------------------------------------------------------
(* Arrivals.                                                               *)

LEMMA ArriveSafe ==
    ASSUME IInv, NEW r \in Requests, NEW request \in Request,
           NEW first \in {"select", "check", "load", "validate"}, Arrive(r, request, first),
           KindOK(r)', PlaceOK(r)',
           first = "check" => request.op = "add_contract",
           request.op \in {"save", "delete"} => Stored(request.object)
    PROVE  IInv'
<1>1. /\ TypeOK /\ pc[r] = "idle" /\ UNCHANGED <<rows, locks, reads>>
      /\ UNCHANGED <<row, assignment, audit, lock, inserting, granting>>
      /\ req' = [req EXCEPT ![r] = request] /\ pc' = [pc EXCEPT ![r] = first]
      /\ before' = [before EXCEPT ![r] = {q \in Requests : pc[q] \in Answered}]
  BY DEF Arrive, Goto, IInv, rows, locks
<1>2. TypeOK'
  BY <1>1 DEF TypeOK, Working
<1>3. pc'[r] = first /\ req'[r] = request
  BY <1>1 DEF TypeOK
<1>4. HoldsOK(r)' /\ ScopeOK(r)'
  BY <1>1, <1>3 DEF HoldsOK, ScopeOK, Stored, Locked, Portfolio
<1>5. /\ pc[r] \notin Answered /\ first \in Working
      /\ inserting' # None => ~Stored("contract")
      /\ \A q \in before'[r] : pc[q] \in Answered
  BY <1>1 DEF IInv, TypeOK, Working, Answered
<1>6. \A q \in Requests \ {r} : req'[q] = req[q] /\ reads'[q] = reads[q] /\ before'[q] = before[q]
  BY <1>1 DEF TypeOK
<1>7. QED
  BY <1>1, <1>2, <1>4, <1>5, <1>6, RowsKept DEF RequestOK

\* What KindOK and PlaceOK say of a request that has just arrived.
LEMMA Arrived ==
    ASSUME TypeOK, NEW r \in Requests, NEW request, NEW first, Arrive(r, request, first)
    PROVE  req'[r] = request /\ pc'[r] = first
BY DEF Arrive, Goto, TypeOK

\* What a request is that has not said anything.
LEMMA NoRequestFields == NoRequest \in Request /\ ~NoRequest.moves /\ NoRequest.text = None
  BY DEF NoRequest, Request

LEMMA PortfolioArrivals ==
    ASSUME IInv, NEW r \in Requests, NEW u \in Users,
           \/ DeactivateContract(r, u)
           \/ \E text \in Edits, o \in Organizations : EditBusiness(r, u, o, text)
           \/ \E text \in Edits : EditContract(r, u, text) \/ CreateContract(r, u, text)
    PROVE  IInv'
<1>1. ASSUME NEW op \in Portfolio, NEW o \in Organizations, NEW text,
             op # "deactivate_contract", text \in Texts,
             op = "edit_business" => Kind(o) = "business",
             op = "create_contract" => o = "business",
             op = "edit_contract" => o = "contract",
             Arrive(r, [NoRequest EXCEPT !.op = op, !.actor = u, !.object = o, !.text = text],
                    "select")
      PROVE  IInv'
  <2> DEFINE request == [NoRequest EXCEPT !.op = op, !.actor = u, !.object = o, !.text = text]
  <2>2. request \in Request
    BY <1>1, NoRequestFields DEF Request, Organizations, Named
  <2>3. /\ request.op = op /\ request.object = o /\ request.text = text /\ ~request.moves
    BY NoRequestFields DEF Request
  <2> HIDE DEF request
  <2>4. req'[r] = request /\ pc'[r] = "select" /\ Arrive(r, request, "select")
    BY <1>1, Arrived DEF IInv, request
  <2>5. KindOK(r)' /\ PlaceOK(r)'
    BY <1>1, <2>3, <2>4 DEF KindOK, PlaceOK, Portfolio
  <2>6. QED
    BY <2>2, <2>3, <2>4, <2>5, ArriveSafe DEF Portfolio
<1>2. ASSUME DeactivateContract(r, u) PROVE IInv'
  <2> DEFINE request == [NoRequest EXCEPT !.op = "deactivate_contract", !.actor = u,
                                          !.object = "contract"]
  <2>1. request \in Request
    BY NoRequestFields DEF Request, Organizations, Named, Portfolio
  <2>2. request.op = "deactivate_contract" /\ request.object = "contract" /\ ~request.moves
    BY NoRequestFields DEF Request
  <2> HIDE DEF request
  <2>3. req'[r] = request /\ pc'[r] = "select" /\ Arrive(r, request, "select")
    BY <1>2, Arrived DEF IInv, request, DeactivateContract
  <2>4. KindOK(r)' /\ PlaceOK(r)'
    BY <2>2, <2>3 DEF KindOK, PlaceOK, Portfolio
  <2>5. QED
    BY <2>1, <2>2, <2>3, <2>4, ArriveSafe
<1>3. ASSUME NEW text \in Edits, NEW o \in Organizations,
             \/ EditBusiness(r, u, o, text)
             \/ EditContract(r, u, text) \/ CreateContract(r, u, text)
      PROVE  IInv'
  <2>1. text \in Texts /\ "business" \in Organizations /\ "contract" \in Organizations
    BY EditsAssumption DEF Organizations, Named
  <2>2. QED
    BY <1>1, <1>3, <2>1 DEF EditBusiness, EditContract, CreateContract, Portfolio
<1>4. Organizations # {}
  BY DEF Organizations
<1>5. QED
  BY <1>2, <1>3, <1>4

LEMMA PageArrivals ==
    ASSUME IInv, NEW r \in Requests, NEW u \in Operators,
           \/ \E text \in Edits : AddContract(r, u, text)
           \/ \E form \in Forms : SavePage(r, u, form)
           \/ \E o \in Organizations : DeletePage(r, u, o)
           \/ \E user \in Users : GrantPage(r, u, user)
           \/ \E a \in Assignments : RevokePage(r, u, a)
    PROVE  IInv'
<1>1. ASSUME NEW request \in Request, NEW first \in {"check", "load", "validate"},
             Arrive(r, request, first),
             \/ /\ request.op = "add_contract" /\ first = "check" /\ ~request.moves
                /\ request.object = "contract" /\ request.text \in Texts
             \/ /\ request.op = "save" /\ first = "load"
                /\ request.object \in Organizations /\ request.text \in Texts
                /\ Stored(request.object)
             \/ /\ request.op = "delete" /\ first = "load" /\ ~request.moves
                /\ request.object \in Organizations /\ Stored(request.object)
             \/ /\ request.op = "grant" /\ first = "validate" /\ ~request.moves
                /\ request.user \in Users
             \/ /\ request.op = "revoke" /\ first = "load" /\ ~request.moves
                /\ request.object \in Assignments
      PROVE  IInv'
  <2>1. req'[r] = request /\ pc'[r] = first
    BY <1>1, Arrived DEF IInv
  <2>2. KindOK(r)' /\ PlaceOK(r)'
    BY <1>1, <2>1 DEF KindOK, PlaceOK
  <2>3. QED
    BY <1>1, <2>2, ArriveSafe
<1>2. ASSUME NEW text \in Edits, AddContract(r, u, text) PROVE IInv'
  <2> DEFINE request == [NoRequest EXCEPT !.op = "add_contract", !.actor = u,
                                          !.object = "contract", !.text = text]
  <2>1. request \in Request
    BY NoRequestFields, EditsAssumption DEF Request, Organizations, Named, Pages
  <2>2. request.op = "add_contract" /\ request.object = "contract" /\ request.text = text
        /\ ~request.moves
    BY NoRequestFields DEF Request
  <2> HIDE DEF request
  <2>3. Arrive(r, request, "check")
    BY <1>2 DEF AddContract, request
  <2>4. QED
    BY <1>1, <2>1, <2>2, <2>3, EditsAssumption
<1>3. ASSUME NEW form \in Forms, SavePage(r, u, form) PROVE IInv'
  <2> DEFINE request == [NoRequest EXCEPT !.op = "save", !.actor = u, !.object = form.object,
                                          !.text = form.text, !.active = form.active,
                                          !.moves = form.moves]
  <2>2. /\ form.object \in Organizations /\ form.text \in Texts
        /\ form.active \in BOOLEAN /\ form.moves \in BOOLEAN
    BY FormsAssumption
  <2>3. request \in Request
    <3> DEFINE third == [NoRequest EXCEPT !.op = "save", !.actor = u, !.object = form.object,
                                          !.text = form.text]
    <3>1. third \in Request
      BY <2>2, NoRequestFields DEF Request, Pages
    <3>2. request = [third EXCEPT !.active = form.active, !.moves = form.moves]
      OBVIOUS
    <3> HIDE DEF third, request
    <3>3. QED
      BY <2>2, <3>1, <3>2 DEF Request
  <2>4. request.op = "save" /\ request.object = form.object /\ request.text = form.text
    BY NoRequestFields DEF Request
  <2> HIDE DEF request
  <2>5. Stored(form.object) /\ Arrive(r, request, "load")
    BY <1>3 DEF SavePage, request
  <2>6. QED
    BY <1>1, <2>2, <2>3, <2>4, <2>5
<1>4. ASSUME NEW o \in Organizations, DeletePage(r, u, o) PROVE IInv'
  <2> DEFINE request == [NoRequest EXCEPT !.op = "delete", !.actor = u, !.object = o]
  <2>1. request \in Request
    BY NoRequestFields DEF Request, Pages
  <2>2. request.op = "delete" /\ request.object = o /\ ~request.moves
    BY NoRequestFields DEF Request
  <2> HIDE DEF request
  <2>3. Arrive(r, request, "load") /\ Stored(o)
    BY <1>4 DEF DeletePage, request
  <2>4. QED
    BY <1>1, <2>1, <2>2, <2>3
<1>5. ASSUME NEW user \in Users, GrantPage(r, u, user) PROVE IInv'
  <2> DEFINE request == [NoRequest EXCEPT !.op = "grant", !.actor = u, !.user = user]
  <2>1. request \in Request
    BY NoRequestFields DEF Request, Pages
  <2>2. request.op = "grant" /\ request.user = user /\ ~request.moves
    BY NoRequestFields DEF Request
  <2> HIDE DEF request
  <2>3. Arrive(r, request, "validate")
    BY <1>5 DEF GrantPage, request
  <2>4. QED
    BY <1>1, <2>1, <2>2, <2>3
<1>6. ASSUME NEW a \in Assignments, RevokePage(r, u, a) PROVE IInv'
  <2> DEFINE request == [NoRequest EXCEPT !.op = "revoke", !.actor = u, !.object = a]
  <2>1. request \in Request
    BY NoRequestFields DEF Request, Pages
  <2>2. request.op = "revoke" /\ request.object = a /\ ~request.moves
    BY NoRequestFields DEF Request
  <2> HIDE DEF request
  <2>3. Arrive(r, request, "load")
    BY <1>6 DEF RevokePage, request
  <2>4. QED
    BY <1>1, <2>1, <2>2, <2>3
<1>7. QED
  BY <1>2, <1>3, <1>4, <1>5, <1>6

-----------------------------------------------------------------------------
(* Commits.                                                                *)

\* The evidence of r's step names what it changes in o, or r has saved a page
\* whose object somebody had changed since it was loaded.
Told(r, o) ==
    LET changed == Changed(row[o], row'[o]) IN
        \/ req[r].op = "save" /\ reads[r] # row[o]
        \/ \E e \in audit' \ audit :
              /\ e.request = r /\ e.object = o
              /\ changed \subseteq e.fields
              /\ req[r].op = "delete" \/ changed = e.fields

Tells(r) == \A o \in Organizations : Stored(o) /\ row'[o] # row[o] => Told(r, o)

LEMMA ChangedFields ==
    ASSUME NEW old, NEW new
    PROVE  /\ Changed(old, new) \subseteq Fields
           /\ "text" \in Changed(old, new) <=> old.text # new.text
           /\ "active" \in Changed(old, new) <=> old.active # new.active
           /\ "deleted" \in Changed(old, new) <=> old.deleted # new.deleted
BY DEF Changed, Fields

\* A committing request has not told anything before.
LEMMA Fresh ==
    ASSUME IInv, NEW r \in Requests, pc[r] = "commit", NEW e, e.request = r
    PROVE  e \notin audit
BY DEF IInv

\* A row of which one field is written.
LEMMA TextWritten ==
    ASSUME TypeOK, NEW o \in Organizations, NEW text \in Texts, Stored(o)
    PROVE  /\ [row[o] EXCEPT !.text = text] \in Row \ {NoRow}
           /\ [row[o] EXCEPT !.text = text].text = text
           /\ [row[o] EXCEPT !.text = text].active = row[o].active
           /\ [row[o] EXCEPT !.text = text].deleted = row[o].deleted
<1>1. row[o] \in [text : Texts, active : BOOLEAN, deleted : BOOLEAN]
  BY DEF TypeOK, Row, Stored
<1>2. [row[o] EXCEPT !.text = text] \in [text : Texts, active : BOOLEAN, deleted : BOOLEAN]
  BY <1>1
<1>3. [row[o] EXCEPT !.text = text].text = text
  BY <1>1
<1>4. NoRow.text = None
  BY DEF NoRow
<1>5. QED
  BY <1>1, <1>2, <1>3, <1>4, NoneAssumption DEF Row

LEMMA CommitEditStep ==
    ASSUME IInv, NEW r \in Requests, CommitEdit(r) PROVE IInv' /\ Tells(r)
<1> PICK o : o = req[r].object
  OBVIOUS
<1> PICK text : text = req[r].text
  OBVIOUS
<1>1. /\ TypeOK /\ pc[r] = "commit" /\ req[r].op \in {"edit_business", "edit_contract"}
      /\ o \in Organizations /\ text \in Texts /\ lock[o] = r /\ Stored(o) /\ reads[r] = row[o]
  BY DEF CommitEdit, IInv, RequestOK, KindOK, HoldsOK, Portfolio, Locked, Organizations, Named
<1> DEFINE new == [row[o] EXCEPT !.text = text]
           fields == Changed(row[o], new)
<1>2. /\ new \in Row /\ new # NoRow /\ new.text = text
      /\ new.active = row[o].active /\ new.deleted = row[o].deleted
  BY <1>1, TextWritten
<1>3. /\ row \in [Organizations -> Row]
      /\ [row EXCEPT ![o].text = text] = [row EXCEPT ![o] = new]
  BY <1>1 DEF TypeOK
<1>4. fields \subseteq Fields
  BY ChangedFields
<1>5. \/ Commit(r, row, assignment, {})
      \/ Commit(r, [row EXCEPT ![o] = new], assignment,
                {Event(r, "organization.updated", o, fields)})
  BY <1>1, <1>3 DEF CommitEdit
<1> HIDE DEF new, fields
<1>6. CASE Commit(r, row, assignment, {})
  <2>1. UNCHANGED <<row, assignment>>
    BY <1>6 DEF Commit
  <2>2. \A u : \A p \in Organizations : InPortfolio(u, p) => InPortfolio(u, p)'
    BY <2>1 DEF InPortfolio, HasGrant, Live, Stored
  <2>3. assignment \in [Assignments -> Grant]
    BY <1>1 DEF TypeOK
  <2>4. QED
    BY <1>1, <1>3, <1>6, <2>1, <2>2, <2>3, CommitSafe DEF Tells, Stored
<1>7. CASE Commit(r, [row EXCEPT ![o] = new], assignment,
                  {Event(r, "organization.updated", o, fields)})
  <2> DEFINE newRow == [row EXCEPT ![o] = new]
             e == Event(r, "organization.updated", o, fields)
  <2>1. /\ row' = newRow /\ assignment' = assignment /\ audit' = audit \cup {e}
        /\ newRow \in [Organizations -> Row] /\ assignment \in [Assignments -> Grant]
    BY <1>1, <1>2, <1>3, <1>7 DEF Commit, TypeOK
  <2>2. row'[o] = new /\ \A p \in Organizations \ {o} : row'[p] = row[p]
    BY <1>1, <1>3, <2>1
  <2>3. e.request = r /\ e.object = o /\ e.fields = fields
    BY DEF Event
  <2>4. \A u : \A p \in Organizations : InPortfolio(u, p) => InPortfolio(u, p)'
    BY <1>1, <1>2, <2>1, <2>2 DEF InPortfolio, HasGrant, Live, Stored, Organizations, Named
  <2> HIDE DEF newRow, e
  <2>5. Tells(r)
    BY <1>1, <2>1, <2>2, <2>3, Fresh DEF Tells, Told, fields
  <2>6. IInv'
    <3>1. Commit(r, newRow, assignment, {e})
      BY <1>7 DEF newRow, e
    <3>2. \A p \in Organizations : newRow[p] # row[p] => p = o
      BY <2>1, <2>2
    <3>3. \A p \in Organizations : Stored(p) => newRow[p] # NoRow
      BY <1>2, <2>1, <2>2 DEF Stored
    <3>4. QED
      BY <1>1, <1>4, <2>1, <2>3, <2>4, <3>1, <3>2, <3>3, CommitSafe
  <2>7. QED
    BY <2>5, <2>6
<1>8. QED
  BY <1>5, <1>6, <1>7

LEMMA CommitDeactivationStep ==
    ASSUME IInv, NEW r \in Requests, CommitDeactivation(r) PROVE IInv' /\ Tells(r)
<1> DEFINE new == [row["contract"] EXCEPT !.active = FALSE]
           newRow == [row EXCEPT !["contract"] = new]
           e == Event(r, "provider_contract.deactivated", "contract", {"active"})
<1>1. /\ TypeOK /\ pc[r] = "commit" /\ "contract" \in Organizations
      /\ lock["contract"] = r /\ Stored("contract")
  BY DEF CommitDeactivation, IInv, RequestOK, KindOK, HoldsOK, Portfolio, Locked, Organizations, Named
<1>2. row["contract"] \in [text : Texts, active : BOOLEAN, deleted : BOOLEAN]
  BY <1>1 DEF TypeOK, Row, Stored
<1>3. /\ new \in [text : Texts, active : BOOLEAN, deleted : BOOLEAN]
      /\ new.text = row["contract"].text /\ new.deleted = row["contract"].deleted
  BY <1>2
<1>4. new \in Row /\ new # NoRow
  BY <1>3, NoneAssumption DEF Row, NoRow
<1>5. /\ row' = newRow /\ assignment' = assignment /\ audit' = audit \cup {e}
      /\ row \in [Organizations -> Row] /\ assignment \in [Assignments -> Grant]
      /\ Commit(r, newRow, assignment, {e})
  BY <1>1 DEF CommitDeactivation, Commit, TypeOK
<1>6. e.request = r /\ e.object = "contract" /\ e.fields = {"active"} /\ {"active"} \subseteq Fields
  BY DEF Event, Fields
<1> HIDE DEF new, e
<1>7. /\ newRow \in [Organizations -> Row]
      /\ row'["contract"] = new /\ \A p \in Organizations \ {"contract"} : row'[p] = row[p]
  BY <1>1, <1>4, <1>5
<1>8. \A u : \A p \in Organizations : InPortfolio(u, p) => InPortfolio(u, p)'
  BY <1>1, <1>3, <1>4, <1>5, <1>7 DEF InPortfolio, HasGrant, Live, Stored, Organizations, Named
<1> HIDE DEF newRow
<1>9. Tells(r)
  <2>1. ASSUME new # row["contract"] PROVE Changed(row["contract"], new) = {"active"}
    <3>1. new.active # row["contract"].active
      BY <1>2, <1>3, <2>1
    <3>2. QED
      BY <1>3, <3>1, ChangedFields DEF Fields
  <2>2. QED
    BY <1>1, <1>5, <1>6, <1>7, <2>1, Fresh DEF Tells, Told
<1>10. IInv'
  <2>1. \A p \in Organizations : newRow[p] # row[p] => p = "contract"
    BY <1>5, <1>7
  <2>2. \A p \in Organizations : Stored(p) => newRow[p] # NoRow
    BY <1>4, <1>5, <1>7 DEF Stored
  <2>3. QED
    BY <1>1, <1>5, <1>6, <1>7, <1>8, <2>1, <2>2, CommitSafe
<1>11. QED
  BY <1>9, <1>10

\* A new contract is nobody's row, and takes nothing out of a portfolio.
LEMMA CommitInsertedStep ==
    ASSUME IInv, NEW r \in Requests, CommitContract(r) \/ CommitAdded(r)
    PROVE  IInv' /\ Tells(r)
<1> DEFINE new == NewContract(req[r].text)
           newRow == [row EXCEPT !["contract"] = new]
<1>1. /\ TypeOK /\ pc[r] = "commit" /\ inserting = r /\ ~Stored("contract")
      /\ req[r].text \in Texts /\ "contract" \in Organizations
  BY NoneAssumption
  DEF CommitContract, CommitAdded, IInv, RequestOK, KindOK, HoldsOK, Organizations, Named
<1>2. new \in Row /\ new # NoRow /\ ~new.deleted
  BY <1>1, NoneAssumption DEF NewContract, Row, NoRow
<1>3. PICK action : Commit(r, newRow, assignment, {Event(r, action, "contract", Fields)})
  BY DEF CommitContract, CommitAdded
<1> DEFINE e == Event(r, action, "contract", Fields)
<1>4. e.request = r /\ e.fields = Fields
  BY DEF Event
<1>5. /\ row' = newRow /\ assignment' = assignment
      /\ row \in [Organizations -> Row] /\ assignment \in [Assignments -> Grant]
  BY <1>1, <1>3 DEF Commit, TypeOK
<1> HIDE DEF new
<1>6. /\ newRow \in [Organizations -> Row]
      /\ row'["contract"] = new /\ \A p \in Organizations \ {"contract"} : row'[p] = row[p]
  BY <1>1, <1>2, <1>5
<1>7. \A u : \A p \in Organizations : InPortfolio(u, p) => InPortfolio(u, p)'
  BY <1>1, <1>2, <1>5, <1>6 DEF InPortfolio, HasGrant, Live, Stored, Organizations, Named
<1>8. Tells(r)
  BY <1>1, <1>6 DEF Tells
<1> HIDE DEF newRow, e
<1>9. \A p \in Organizations : newRow[p] # row[p] => p = "contract"
  BY <1>5, <1>6
<1>10. \A p \in Organizations : Stored(p) => newRow[p] # NoRow
  BY <1>1, <1>5, <1>6 DEF Stored
<1>11. Commit(r, newRow, assignment, {e})
  BY <1>3 DEF e
<1>12. IInv'
  BY <1>1, <1>4, <1>5, <1>6, <1>7, <1>9, <1>10, <1>11, CommitSafe
<1>13. QED
  BY <1>8, <1>12

\* A page writes the row it has locked; what it had loaded may be another.
LEMMA CommitSaveStep ==
    ASSUME IInv, NEW r \in Requests, CommitSave(r) PROVE IInv' /\ Tells(r)
<1> PICK o : o = req[r].object
  OBVIOUS
<1> DEFINE new == [reads[r] EXCEPT !.text = req[r].text, !.active = req[r].active]
           newRow == [row EXCEPT ![o] = new]
           fields == Changed(reads[r], new)
<1>1. /\ TypeOK /\ pc[r] = "commit" /\ req[r].op = "save" /\ o \in Organizations
      /\ lock[o] = r /\ Stored(o) /\ req[r].text \in Texts /\ req[r] \in Request
      /\ reads[r] \in Row
  BY DEF CommitSave, IInv, RequestOK, KindOK, HoldsOK, Working, TypeOK
<1>2. new \in Row /\ new # NoRow
  <2> DEFINE Any == [text : Texts \cup {None}, active : BOOLEAN, deleted : BOOLEAN]
             half == [reads[r] EXCEPT !.text = req[r].text]
  <2>1. reads[r] \in Any
    <3>1. NoRow \in Any
      BY DEF NoRow
    <3>2. QED
      BY <1>1, <3>1 DEF Row
  <2>2. half \in [text : Texts, active : BOOLEAN, deleted : BOOLEAN]
    BY <1>1, <2>1
  <2>3. new = [half EXCEPT !.active = req[r].active] /\ req[r].active \in BOOLEAN
    BY <1>1 DEF Request
  <2> HIDE DEF half, new
  <2>4. new \in [text : Texts, active : BOOLEAN, deleted : BOOLEAN]
    BY <2>2, <2>3
  <2>5. QED
    BY <2>4, NoneAssumption DEF Row, NoRow
<1>3. PICK action : Commit(r, newRow, assignment, {Event(r, action, o, fields)})
  BY DEF CommitSave
<1> DEFINE e == Event(r, action, o, fields)
<1>4. e.request = r /\ e.object = o /\ e.fields = fields /\ fields \subseteq Fields
  BY ChangedFields DEF Event
<1>5. /\ row' = newRow /\ assignment' = assignment /\ audit' = audit \cup {e}
      /\ row \in [Organizations -> Row] /\ assignment \in [Assignments -> Grant]
  BY <1>1, <1>3 DEF Commit, TypeOK
<1> HIDE DEF new
<1>6. /\ newRow \in [Organizations -> Row]
      /\ row'[o] = new /\ \A p \in Organizations \ {o} : row'[p] = row[p]
  BY <1>1, <1>2, <1>5
<1> HIDE DEF newRow, e
<1>7. Tells(r)
  BY <1>1, <1>4, <1>5, <1>6, Fresh DEF Tells, Told, fields
<1>8. \A p \in Organizations : newRow[p] # row[p] => p = o
  BY <1>5, <1>6
<1>9. \A p \in Organizations : Stored(p) => newRow[p] # NoRow
  BY <1>2, <1>5, <1>6 DEF Stored
<1>10. Commit(r, newRow, assignment, {e})
  BY <1>3 DEF e
<1>11. IInv'
  BY <1>1, <1>4, <1>5, <1>6, <1>8, <1>9, <1>10, CommitSafe
<1>12. QED
  BY <1>7, <1>11

\* A deletion writes two fields of the row as it is.
LEMMA CommitDeleteStep ==
    ASSUME IInv, NEW r \in Requests, CommitDelete(r) PROVE IInv' /\ Tells(r)
<1> PICK o : o = req[r].object
  OBVIOUS
<1> DEFINE half == [row[o] EXCEPT !.active = FALSE]
           new == [half EXCEPT !.deleted = TRUE]
           newRow == [row EXCEPT ![o] = new]
           e == Event(r, "organization.soft_deleted", o, {"active", "deleted"})
           Whole == [text : Texts, active : BOOLEAN, deleted : BOOLEAN]
<1>1. /\ TypeOK /\ pc[r] = "commit" /\ req[r].op = "delete" /\ o \in Organizations
      /\ lock[o] = r /\ Stored(o)
  BY DEF CommitDelete, IInv, RequestOK, KindOK, HoldsOK, Working
<1>2. /\ row \in [Organizations -> Row] /\ assignment \in [Assignments -> Grant]
      /\ row[o] \in Whole
  BY <1>1 DEF TypeOK, Row, Stored
<1>3. Commit(r, newRow, assignment, {e})
  <2>1. [row EXCEPT ![o].active = FALSE, ![o].deleted = TRUE] = newRow
    BY <1>1, <1>2
  <2>2. QED
    BY <2>1 DEF CommitDelete
<1>4. half \in Whole /\ half.text = row[o].text
  BY <1>2
<1>5. new \in Whole /\ new.text = row[o].text
  <2> HIDE DEF half
  <2>1. QED
    BY <1>4
<1>6. new \in Row /\ new # NoRow
  BY <1>5, NoneAssumption DEF Row, NoRow
<1>7. /\ e.request = r /\ e.object = o /\ e.fields = {"active", "deleted"}
      /\ {"active", "deleted"} \subseteq Fields
  BY DEF Event, Fields
<1>8. row' = newRow /\ assignment' = assignment /\ audit' = audit \cup {e}
  BY <1>3 DEF Commit
<1> HIDE DEF half, new, e
<1>9. /\ newRow \in [Organizations -> Row]
      /\ row'[o] = new /\ \A p \in Organizations \ {o} : row'[p] = row[p]
  BY <1>1, <1>2, <1>6, <1>8
<1> HIDE DEF newRow
<1>10. Tells(r)
  <2>1. Changed(row[o], new) \subseteq {"active", "deleted"}
    BY <1>5, ChangedFields DEF Fields
  <2>2. QED
    BY <1>1, <1>7, <1>8, <1>9, <2>1, Fresh DEF Tells, Told
<1>11. \A p \in Organizations : newRow[p] # row[p] => p = o
  BY <1>8, <1>9
<1>12. \A p \in Organizations : Stored(p) => newRow[p] # NoRow
  BY <1>6, <1>8, <1>9 DEF Stored
<1>13. IInv'
  BY <1>1, <1>2, <1>3, <1>7, <1>9, <1>11, <1>12, CommitSafe
<1>14. QED
  BY <1>10, <1>13

\* Grants are not rows.
LEMMA CommitGrantsStep ==
    ASSUME IInv, NEW r \in Requests, CommitGrant(r) \/ CommitRevocation(r)
    PROVE  IInv' /\ Tells(r)
<1>1. /\ TypeOK /\ pc[r] = "commit" /\ row \in [Organizations -> Row]
      /\ assignment \in [Assignments -> Grant] /\ req[r] \in Request
      /\ req[r].op = "revoke" => req[r].object \in Assignments
  BY DEF CommitGrant, CommitRevocation, IInv, TypeOK, RequestOK, KindOK
<1>2. ASSUME NEW newAssignment \in [Assignments -> Grant], NEW action, NEW a,
             Commit(r, row, newAssignment, {Event(r, action, a, {})}),
             \/ req[r].op = "revoke"
             \/ \A u : \A p \in Organizations : InPortfolio(u, p) => InPortfolio(u, p)'
      PROVE  IInv' /\ Tells(r)
  <2>1. row' = row /\ Tells(r)
    BY <1>2 DEF Commit, Tells
  <2> DEFINE e == Event(r, action, a, {})
  <2>2. e.request = r /\ e.fields = {}
    BY DEF Event
  <2> HIDE DEF e
  <2>3. Commit(r, row, newAssignment, {e})
    BY <1>2 DEF e
  <2>4. IInv'
    BY <1>1, <1>2, <2>2, <2>3, CommitSafe DEF Stored
  <2>5. QED
    BY <2>1, <2>4
<1>3. CASE CommitRevocation(r)
  <2>1. [assignment EXCEPT ![req[r].object].state = "revoked"] \in [Assignments -> Grant]
    BY <1>1 DEF Grant
  <2>2. QED
    BY <1>2, <1>3, <2>1 DEF CommitRevocation
<1>4. CASE CommitGrant(r)
  <2>1. PICK a \in Assignments :
           /\ assignment[a].state = "absent"
           /\ Commit(r, row, [assignment EXCEPT ![a] = [user |-> req[r].user, state |-> "active"]],
                     {Event(r, "assignment.granted", a, {})})
    BY <1>4 DEF CommitGrant
  <2> DEFINE new == [user |-> req[r].user, state |-> "active"]
             newAssignment == [assignment EXCEPT ![a] = new]
  <2>2. new \in Grant
    BY <1>1 DEF Grant, Request
  <2> HIDE DEF new
  <2>3. newAssignment \in [Assignments -> Grant] /\ row' = row /\ assignment' = newAssignment
    BY <1>1, <2>1, <2>2 DEF Commit, new
  <2>4. \A u : HasGrant(u) => HasGrant(u)'
    BY <1>1, <2>1, <2>3 DEF HasGrant
  <2>5. \A u : \A p \in Organizations : InPortfolio(u, p) => InPortfolio(u, p)'
    BY <2>3, <2>4 DEF InPortfolio, Live, Stored
  <2>6. QED
    BY <1>2, <2>1, <2>3, <2>5 DEF new
<1>5. QED
  BY <1>3, <1>4

-----------------------------------------------------------------------------
LEMMA StatementStep == ASSUME IInv, NEW r \in Requests, Statement(r) PROVE IInv'
  BY SelectScopedStep, LockRowStep, FindProviderStep, CleanContractStep, CleanNameStep,
     InsertContractStep, CheckContractStep, CommitEditStep, CommitDeactivationStep,
     CommitInsertedStep, LoadStep, ValidateFormStep, RefuseIdentityStep, UpdateStep,
     IndexNameStep, CommitSaveStep, CommitDeleteStep, CommitGrantsStep,
     ValidateGrantStep, InsertGrantStep, AbortStep
  DEF Statement

LEMMA ArrivalStep == ASSUME IInv, NEW r \in Requests, Arrival(r) PROVE IInv'
<1>1. CASE \E u \in Users : \/ DeactivateContract(r, u)
                            \/ \E text \in Edits, o \in Organizations :
                                  EditBusiness(r, u, o, text)
                            \/ \E text \in Edits :
                                  EditContract(r, u, text) \/ CreateContract(r, u, text)
  BY <1>1, PortfolioArrivals
<1>2. CASE \E u \in Operators : \/ \E text \in Edits : AddContract(r, u, text)
                                \/ \E form \in Forms : SavePage(r, u, form)
                                \/ \E o \in Organizations : DeletePage(r, u, o)
                                \/ \E user \in Users : GrantPage(r, u, user)
                                \/ \E a \in Assignments : RevokePage(r, u, a)
  BY <1>2, PageArrivals
<1>3. QED
  BY <1>1, <1>2 DEF Arrival

LEMMA Stutter == ASSUME IInv, UNCHANGED vars PROVE IInv'
<1>1. UNCHANGED <<row, assignment, audit, lock, inserting, granting, pc, req, reads, before>>
  BY DEF vars, rows, locks
<1>2. TypeOK'
  BY <1>1 DEF IInv, TypeOK
<1>3. ASSUME NEW r \in Requests PROVE RequestOK(r)'
  <2>1. RequestOK(r)
    BY DEF IInv
  <2>2. KindOK(r)' /\ PlaceOK(r)'
    BY <1>1, <2>1 DEF RequestOK, KindOK, PlaceOK
  <2>3. HoldsOK(r)'
    BY <1>1, <2>1 DEF RequestOK, HoldsOK, Stored, Visible, Live
  <2>4. ScopeOK(r)'
    BY <1>1, <2>1 DEF RequestOK, ScopeOK, Interfered, InPortfolio, HasGrant, Stored, Live
  <2>5. QED
    BY <2>2, <2>3, <2>4 DEF RequestOK
<1>4. QED
  BY <1>1, <1>2, <1>3 DEF IInv, Stored

LEMMA StepIInv == IInv /\ [Next]_vars => IInv'
  BY StatementStep, ArrivalStep, AbortStep, Stutter DEF Next, Quiescent

-----------------------------------------------------------------------------
(* The theorems.                                                           *)

\* Only commits change rows, and only from there does a request succeed.
LEMMA OnlyCommitsWrite ==
    ASSUME IInv, [Next]_vars
    PROVE  \/ /\ UNCHANGED row
              /\ \A r \in Requests : pc'[r] = "ok" => pc[r] \in {"ok", "commit"}
           \/ \E r \in Requests : /\ Commits(r) /\ pc[r] = "commit" /\ Tells(r)
                                  /\ \A q \in Requests \ {r} : pc'[q] = pc[q]
<1>1. TypeOK
  BY DEF IInv
<1>2. ASSUME NEW r \in Requests,
             \/ CommitEdit(r) \/ CommitDeactivation(r) \/ CommitContract(r) \/ CommitAdded(r)
             \/ CommitSave(r) \/ CommitDelete(r) \/ CommitRevocation(r) \/ CommitGrant(r)
      PROVE  /\ Commits(r) /\ pc[r] = "commit" /\ Tells(r)
             /\ \A q \in Requests \ {r} : pc'[q] = pc[q]
  <2>1. Tells(r)
    BY <1>2, CommitEditStep, CommitDeactivationStep, CommitInsertedStep, CommitSaveStep,
       CommitDeleteStep, CommitGrantsStep
  <2>2. pc[r] = "commit" /\ pc' = [pc EXCEPT ![r] = "ok"]
    BY <1>2
    DEF CommitEdit, CommitDeactivation, CommitContract, CommitAdded, CommitSave, CommitDelete,
        CommitRevocation, CommitGrant, Commit, Goto
  <2>3. QED
    BY <1>1, <2>1, <2>2 DEF TypeOK, Commits
<1>3. ASSUME NEW r \in Requests, NEW next, next # "ok", UNCHANGED row,
             pc' = [pc EXCEPT ![r] = next]
      PROVE  UNCHANGED row /\ \A q \in Requests : pc'[q] = "ok" => pc[q] \in {"ok", "commit"}
  BY <1>1, <1>3 DEF TypeOK
<1>4. ASSUME NEW r \in Requests, NEW next, next # "ok",
             Continue(r, next) \/ Refuse(r, next)
      PROVE  UNCHANGED row /\ \A q \in Requests : pc'[q] = "ok" => pc[q] \in {"ok", "commit"}
  <2>1. UNCHANGED row /\ pc' = [pc EXCEPT ![r] = next]
    BY <1>4 DEF Continue, Refuse, Goto, rows
  <2>2. QED
    BY <1>3, <1>4, <2>1
<1>5. ASSUME NEW r \in Requests,
             \/ SelectScoped(r) \/ FindProvider(r) \/ CleanContract(r) \/ CheckContract(r)
             \/ CleanName(r) \/ ValidateForm(r) \/ IndexName(r)
             \/ RefuseIdentity(r) \/ ValidateGrant(r) \/ DeadlockAbort(r) \/ Crash(r)
      PROVE  UNCHANGED row /\ \A q \in Requests : pc'[q] = "ok" => pc[q] \in {"ok", "commit"}
  BY <1>4, <1>5 DEF SelectScoped, FindProvider, CleanContract, CheckContract, CleanName,
                    ValidateForm, IndexName, RefuseIdentity, ValidateGrant, DeadlockAbort, Crash
<1>6. ASSUME NEW r \in Requests,
             LockRow(r) \/ InsertContract(r) \/ Load(r) \/ Update(r) \/ InsertGrant(r)
      PROVE  UNCHANGED row /\ \A q \in Requests : pc'[q] = "ok" => pc[q] \in {"ok", "commit"}
  <2>1. LockRow(r) => PlaceOK(r) /\ pc[r] = "lock"
    BY DEF LockRow, IInv, RequestOK
  <2>2. AfterLock(r) # "ok" \/ ~LockRow(r)
    BY <2>1 DEF AfterLock, PlaceOK, Portfolio
  <2>3. \/ \E next \in {"denied", "error"} : Refuse(r, next)
        \/ UNCHANGED row /\ \E next : next # "ok" /\ pc' = [pc EXCEPT ![r] = next]
    BY <1>6, <2>2 DEF LockRow, InsertContract, Load, Update, InsertGrant, TakeLock, Goto, rows
  <2>4. QED
    BY <1>3, <1>4, <2>3
<1>7. ASSUME NEW r \in Requests, Arrival(r)
      PROVE  UNCHANGED row /\ \A q \in Requests : pc'[q] = "ok" => pc[q] \in {"ok", "commit"}
  <2>1. \E request, first : first # "ok" /\ Arrive(r, request, first)
    BY <1>7 DEF Arrival, EditBusiness, EditContract, CreateContract, DeactivateContract,
                AddContract, SavePage, DeletePage, GrantPage, RevokePage
  <2>2. UNCHANGED row /\ \E first : first # "ok" /\ pc' = [pc EXCEPT ![r] = first]
    BY <2>1 DEF Arrive, Goto, rows
  <2>3. QED
    BY <1>3, <2>2
<1>8. ASSUME UNCHANGED vars
      PROVE  UNCHANGED row /\ \A q \in Requests : pc'[q] = "ok" => pc[q] \in {"ok", "commit"}
  BY <1>8 DEF vars, rows
<1>9. QED
  BY <1>2, <1>5, <1>6, <1>7, <1>8 DEF Next, Statement, Quiescent

THEOREM Invariance == Spec => []IInv
  BY InitIInv, StepIInv, PTL DEF Spec

\* Rows, grants, locks, requests and evidence keep their types.
THEOREM TypeCorrect == Spec => []TypeOK
<1>1. IInv => TypeOK
  BY DEF IInv
<1>2. QED
  BY <1>1, Invariance, PTL

\* Every change of an organization is told by the evidence of its request, but
\* for what a page writes back that had been loaded before somebody's commit.
THEOREM ChangesAreNamed == Spec => EvidenceNamesChanges
<1>1. ASSUME IInv, [Next]_vars
      PROVE  [\A o \in Organizations : Stored(o) /\ row'[o] # row[o] =>
                LET changed == Changed(row[o], row'[o]) IN
                \E r \in Requests :
                   /\ Commits(r)
                   /\ \/ req[r].op = "save" /\ reads[r] # row[o]
                      \/ \E e \in audit' \ audit :
                            /\ e.request = r /\ e.object = o
                            /\ changed \subseteq e.fields
                            /\ req[r].op = "delete" \/ changed = e.fields]_vars
  BY <1>1, OnlyCommitsWrite DEF Tells, Told
<1>2. QED
  BY <1>1, Invariance, PTL DEF Spec, EvidenceNamesChanges

\* A portfolio service never writes to a deleted row, and outside its actor's
\* portfolio only behind a save, deletion or revocation that overlapped it.
THEOREM PortfolioInScope == Spec => PortfolioActsInScope
<1>1. ASSUME IInv, [Next]_vars
      PROVE  [\A r \in Requests : Commits(r) /\ req[r].op \in Portfolio =>
                /\ Visible(req[r].object)
                /\ \/ InPortfolio(req[r].actor, req[r].object)
                   \/ \E q \in Requests \ before[r] :
                         pc[q] = "ok" /\ req[q].op \in {"save", "delete", "revoke"}]_vars
  <2>1. ASSUME NEW r \in Requests, Commits(r), req[r].op \in Portfolio
        PROVE  pc[r] = "commit" /\ HoldsOK(r) /\ ScopeOK(r)
    BY <1>1, <2>1, OnlyCommitsWrite DEF Commits, IInv, RequestOK
  <2>2. QED
    BY <2>1 DEF HoldsOK, ScopeOK, Interfered, Locked
<1>2. QED
  BY <1>1, Invariance, PTL DEF Spec, PortfolioActsInScope

-----------------------------------------------------------------------------
(* Evidence that is told twice.                                            *)

\* A page of o has been saved.
SavedOnce(o) == \E g \in audit : g.object = o /\ req[g.request].op = "save"

Endings == {"assignment.revoked", "organization.soft_deleted", "provider_contract.deactivated"}

\* What an event says has come to an end has, unless a page was saved.
LastsOK(e) ==
    /\ e.action = "assignment.revoked" =>
          e.object \in Assignments /\ assignment[e.object].state = "revoked"
    /\ e.action = "organization.soft_deleted" =>
          e.object \in Organizations /\ (row[e.object].deleted \/ SavedOnce(e.object))
    /\ e.action = "provider_contract.deactivated" =>
          /\ e.object = "contract"
          /\ \/ Stored("contract") /\ ~row["contract"].active
             \/ SavedOnce("contract")

\* A page that revokes or deletes was loaded before anybody else had done so, and
\* the contract that a service deactivates is active.
EndingOK(r) ==
    /\ pc[r] \in {"update", "commit"} /\ req[r].op = "revoke" =>
          \A e \in audit : e.action = "assignment.revoked" /\ e.object = req[r].object
                              => e.request \notin before[r]
    /\ pc[r] \in {"update", "commit"} /\ req[r].op = "delete" =>
          \A e \in audit : e.action = "organization.soft_deleted" /\ e.object = req[r].object
                              => e.request \notin before[r] \/ SavedOnce(e.object)
    /\ pc[r] = "commit" /\ req[r].op = "deactivate_contract" => reads[r].active

EndingsInv ==
    /\ RepeatsOverlapped
    /\ \A e \in audit : LastsOK(e)
    /\ \A r \in Requests : EndingOK(r)

\* A statement of r that changes no row.
LEMMA SilentEndings ==
    ASSUME IInv, EndingsInv, NEW r \in Requests, NEW next, pc' = [pc EXCEPT ![r] = next],
           UNCHANGED <<row, assignment, audit, req, before>>,
           \A q \in Requests \ {r} : reads'[q] = reads[q],
           \/ next \notin {"update", "commit"}
           \/ req[r].op \notin {"revoke", "delete", "deactivate_contract"}
           \/ EndingOK(r)'
    PROVE  EndingsInv'
<1>1. pc'[r] = next /\ \A q \in Requests \ {r} : pc'[q] = pc[q]
  BY DEF IInv, TypeOK
<1>2. \A o : SavedOnce(o)' <=> SavedOnce(o)
  BY DEF SavedOnce
<1>3. RepeatsOverlapped'
  BY DEF EndingsInv, RepeatsOverlapped, Overlap
<1>4. \A e \in audit' : LastsOK(e)'
  BY <1>2 DEF EndingsInv, LastsOK, Stored
<1>5. ASSUME NEW q \in Requests PROVE EndingOK(q)'
  <2>1. CASE q = r
    BY <1>1, <2>1 DEF EndingOK
  <2>2. CASE q # r
    BY <1>1, <1>2, <2>2 DEF EndingsInv, EndingOK
  <2>3. QED
    BY <2>1, <2>2
<1>6. QED
  BY <1>3, <1>4, <1>5 DEF EndingsInv

\* What has ended stays so; the commit that tells of an end again has overlapped
\* the one that told of it before.
LEMMA CommitEndings ==
    ASSUME IInv, EndingsInv, NEW r \in Requests, NEW newRow, NEW newAssignment, NEW events,
           pc[r] = "commit", Commit(r, newRow, newAssignment, events),
           \A e \in events : e.request = r /\ LastsOK(e)',
           \A a \in Assignments :
              assignment[a].state = "revoked" => newAssignment[a].state = "revoked",
           \A o \in Organizations : row[o].deleted => newRow[o].deleted \/ SavedOnce(o)',
           Stored("contract") /\ ~row["contract"].active =>
              \/ newRow["contract"] # NoRow /\ ~newRow["contract"].active
              \/ SavedOnce("contract")',
           \A e \in events, f \in audit : e.action = f.action /\ e.object = f.object =>
              \/ e.action \notin Endings
              \/ SavedOnce(e.object)
              \/ e.action # "provider_contract.deactivated" /\ f.request \notin before[r]
    PROVE  EndingsInv'
<1>1. /\ row' = newRow /\ assignment' = newAssignment /\ audit' = audit \cup events
      /\ pc'[r] = "ok" /\ UNCHANGED <<req, before>>
      /\ \A q \in Requests \ {r} : pc'[q] = pc[q] /\ reads'[q] = reads[q]
  BY DEF Commit, Goto, IInv, TypeOK
<1>2. \A o : SavedOnce(o) => SavedOnce(o)'
  BY <1>1 DEF SavedOnce
<1>3. \A q \in Requests : r \notin before[q]
  BY DEF IInv, Answered
<1>4. \A e \in audit : e.request \in Requests
  BY DEF IInv, TypeOK
<1>5. ASSUME NEW e \in audit PROVE LastsOK(e)'
  <2>1. LastsOK(e)
    BY DEF EndingsInv
  <2>2. QED
    BY <1>1, <1>2, <2>1 DEF LastsOK, Stored
<1>6. \A e \in audit' : LastsOK(e)'
  BY <1>1, <1>5
<1>7. ASSUME NEW e \in events, NEW f \in audit, e.action = f.action, e.object = f.object
      PROVE  \/ e.action \notin Endings
             \/ /\ e.action # "provider_contract.deactivated"
                /\ Overlap(e.request, f.request)' /\ Overlap(f.request, e.request)'
             \/ SavedOnce(e.object)'
  BY <1>1, <1>2, <1>3, <1>4, <1>7 DEF Overlap
<1>8. RepeatsOverlapped'
  <2>1. ASSUME NEW e \in audit', NEW f \in audit', e.request # f.request,
               e.object = f.object, e.action = f.action
        PROVE  \/ e.action \notin Endings
               \/ e.action # "provider_contract.deactivated" /\ Overlap(e.request, f.request)'
               \/ SavedOnce(e.object)'
    <3>1. CASE e \in audit /\ f \in audit
      <4>1. \/ e.action \notin Endings
            \/ e.action # "provider_contract.deactivated" /\ Overlap(e.request, f.request)
            \/ SavedOnce(e.object)
        BY <2>1, <3>1 DEF EndingsInv, RepeatsOverlapped, SavedOnce, Endings
      <4>2. Overlap(e.request, f.request) => Overlap(e.request, f.request)'
        BY <1>1 DEF Overlap
      <4>3. QED
        BY <1>2, <4>1, <4>2
    <3>2. CASE e \in events /\ f \in audit
      BY <1>7, <2>1, <3>2
    <3>3. CASE e \in audit /\ f \in events
      BY <1>7, <2>1, <3>3
    <3>4. QED
      BY <1>1, <2>1, <3>1, <3>2, <3>3
  <2>2. QED
    BY <2>1 DEF RepeatsOverlapped, SavedOnce, Endings
<1>9. ASSUME NEW q \in Requests PROVE EndingOK(q)'
  <2>1. CASE q = r
    BY <1>1, <2>1 DEF EndingOK
  <2>2. CASE q # r
    <3>1. EndingOK(q) /\ pc'[q] = pc[q] /\ reads'[q] = reads[q]
      BY <1>1, <2>2 DEF EndingsInv
    <3>2. \A e \in events : e.request \notin before[q]
      BY <1>3
    <3>3. QED
      BY <1>1, <1>2, <3>1, <3>2 DEF EndingOK
  <2>3. QED
    BY <2>1, <2>2
<1>10. QED
  BY <1>6, <1>8, <1>9 DEF EndingsInv

\* A request arrives that nothing tells of yet.
LEMMA ArriveEndings ==
    ASSUME IInv, EndingsInv, NEW r \in Requests, NEW request, NEW first,
           Arrive(r, request, first), first \notin {"update", "commit"}
    PROVE  EndingsInv'
<1>1. /\ pc[r] = "idle" /\ UNCHANGED <<row, assignment, audit, reads>> /\ pc'[r] = first
      /\ \A q \in Requests \ {r} : /\ pc'[q] = pc[q] /\ req'[q] = req[q]
                                   /\ before'[q] = before[q]
  BY DEF Arrive, Goto, rows, IInv, TypeOK
<1>2. \A e \in audit : e.request \in Requests \ {r}
  BY <1>1 DEF IInv, TypeOK
<1>3. \A o : SavedOnce(o)' <=> SavedOnce(o)
  BY <1>1, <1>2 DEF SavedOnce
<1>4. RepeatsOverlapped'
  BY <1>1, <1>2 DEF EndingsInv, RepeatsOverlapped, Overlap
<1>5. \A e \in audit' : LastsOK(e)'
  BY <1>1, <1>3 DEF EndingsInv, LastsOK, Stored
<1>6. ASSUME NEW q \in Requests PROVE EndingOK(q)'
  <2>1. CASE q = r
    BY <1>1, <2>1 DEF EndingOK
  <2>2. CASE q # r
    BY <1>1, <1>3, <2>2 DEF EndingsInv, EndingOK
  <2>3. QED
    BY <2>1, <2>2
<1>7. QED
  BY <1>4, <1>5, <1>6 DEF EndingsInv

\* The page admits nothing that is deleted or revoked by then.
LEMMA LoadEndings ==
    ASSUME IInv, EndingsInv, NEW r \in Requests, Load(r) PROVE EndingsInv'
<1> PICK o : o = req[r].object
  OBVIOUS
<1>1. CASE Refuse(r, "denied")
  BY <1>1, SilentEndings DEF Refuse, Goto, rows, IInv, TypeOK
<1>2. CASE ~Refuse(r, "denied")
  <2> PICK next : next = IF req[r].op = "save" THEN "form" ELSE "update"
    OBVIOUS
  <2>1. /\ pc[r] = "load" /\ pc' = [pc EXCEPT ![r] = next]
        /\ UNCHANGED <<row, assignment, audit, req, before>>
        /\ ~IF o \in Assignments THEN assignment[o].state = "revoked" ELSE row[o].deleted
        /\ \A q \in Requests \ {r} : reads'[q] = reads[q]
    BY <1>2 DEF Load, Goto, rows, IInv, TypeOK
  <2>2. /\ req[r].op = "revoke" => o \in Assignments
        /\ req[r].op = "delete" => o \in Organizations /\ o \notin Assignments
        /\ req[r].op # "deactivate_contract"
    BY <2>1, KeysAssumption DEF IInv, RequestOK, KindOK, PlaceOK, Organizations, Named
  <2>3. ASSUME NEW e \in audit, e.object = o
        PROVE  /\ req[r].op = "revoke" => e.action # "assignment.revoked"
               /\ req[r].op = "delete" /\ e.action = "organization.soft_deleted" => SavedOnce(o)
    BY <2>1, <2>2, <2>3 DEF EndingsInv, LastsOK
  <2>4. \A p : SavedOnce(p)' <=> SavedOnce(p)
    BY <2>1 DEF SavedOnce
  <2>5. EndingOK(r)'
    BY <2>1, <2>2, <2>3, <2>4 DEF EndingOK
  <2>6. QED
    BY <2>1, <2>5, SilentEndings
<1>3. QED
  BY <1>1, <1>2

LEMMA UpdateEndings ==
    ASSUME IInv, EndingsInv, NEW r \in Requests, Update(r) PROVE EndingsInv'
<1> PICK next : next = IF Renames(r) THEN "index" ELSE "commit"
  OBVIOUS
<1>1. /\ pc[r] = "update" /\ pc' = [pc EXCEPT ![r] = next]
      /\ UNCHANGED <<row, assignment, audit, req, reads, before>>
  BY DEF Update, Goto, rows
<1>2. EndingOK(r) /\ req[r].op # "deactivate_contract" /\ pc'[r] = next
  BY <1>1 DEF EndingsInv, IInv, TypeOK, RequestOK, PlaceOK
<1>3. EndingOK(r)'
  BY <1>1, <1>2 DEF EndingOK, SavedOnce
<1>4. QED
  BY <1>1, <1>3, SilentEndings

\* A contract that is to be deactivated has been read as active.
LEMMA CheckContractEndings ==
    ASSUME IInv, EndingsInv, NEW r \in Requests, CheckContract(r) PROVE EndingsInv'
<1>1. CASE \E why : Refuse(r, why) /\ why = "invalid"
  BY <1>1, SilentEndings DEF Refuse, Goto, rows, IInv, TypeOK
<1>2. CASE Continue(r, "insert")
  BY <1>2, SilentEndings DEF Continue, Goto, rows
<1>3. CASE req[r].op # "add_contract" /\ reads[r].active /\ Continue(r, "commit")
  <2>1. req[r].op = "deactivate_contract"
    BY <1>3 DEF CheckContract, IInv, RequestOK, PlaceOK
  <2>2. /\ pc' = [pc EXCEPT ![r] = "commit"]
        /\ UNCHANGED <<row, assignment, audit, req, reads, before>>
    BY <1>3 DEF Continue, Goto, rows
  <2>3. EndingOK(r)'
    BY <1>3, <2>1, <2>2 DEF EndingOK
  <2>4. QED
    BY <2>2, <2>3, SilentEndings
<1>4. QED
  BY <1>1, <1>2, <1>3 DEF CheckContract

\* Every other statement before the commit.
LEMMA SilentStepEndings ==
    ASSUME IInv, EndingsInv, NEW r \in Requests,
           \/ SelectScoped(r) \/ LockRow(r) \/ FindProvider(r) \/ CleanContract(r)
           \/ CleanName(r) \/ InsertContract(r) \/ ValidateForm(r) \/ RefuseIdentity(r)
           \/ IndexName(r) \/ ValidateGrant(r) \/ InsertGrant(r) \/ DeadlockAbort(r) \/ Crash(r)
    PROVE  EndingsInv'
<1>1. ASSUME NEW why, Refuse(r, why), why \notin {"update", "commit"} PROVE EndingsInv'
  BY <1>1, SilentEndings DEF Refuse, Goto, rows, IInv, TypeOK
<1>2. ASSUME NEW next, Continue(r, next),
             \/ next \notin {"update", "commit"}
             \/ req[r].op \notin {"revoke", "delete", "deactivate_contract"}
      PROVE  EndingsInv'
  BY <1>2, SilentEndings DEF Continue, Goto, rows
<1>3. CASE LockRow(r)
  <2>1. PlaceOK(r) /\ pc[r] = "lock" /\ req[r].op \in Portfolio
    BY <1>3 DEF LockRow, IInv, RequestOK, PlaceOK
  <2> PICK next : next = AfterLock(r)
    OBVIOUS
  <2>2. next = "commit" => req[r].op \notin {"revoke", "delete", "deactivate_contract"}
    BY <2>1 DEF AfterLock, Portfolio
  <2>3. next # "update"
    BY <2>1 DEF AfterLock, Portfolio
  <2>4. CASE Refuse(r, "denied")
    BY <1>1, <2>4
  <2>5. CASE ~Refuse(r, "denied")
    <3>1. /\ pc' = [pc EXCEPT ![r] = next]
          /\ UNCHANGED <<row, assignment, audit, req, before>>
          /\ \A q \in Requests \ {r} : reads'[q] = reads[q]
      BY <1>3, <2>5 DEF LockRow, TakeLock, Goto, rows, IInv, TypeOK
    <3>2. QED
      BY <2>2, <2>3, <3>1, SilentEndings
  <2>6. QED
    BY <2>4, <2>5
<1>4. CASE InsertContract(r) \/ InsertGrant(r)
  <2>1. req[r].op \notin {"revoke", "delete", "deactivate_contract"}
    BY <1>4 DEF InsertContract, InsertGrant, IInv, RequestOK, PlaceOK
  <2>2. CASE Refuse(r, "error")
    BY <1>1, <2>2
  <2>3. CASE ~Refuse(r, "error")
    <3>1. /\ pc' = [pc EXCEPT ![r] = "commit"]
          /\ UNCHANGED <<row, assignment, audit, req, reads, before>>
      BY <1>4, <2>3 DEF InsertContract, InsertGrant, Goto, rows
    <3>2. QED
      BY <2>1, <3>1, SilentEndings
  <2>4. QED
    BY <2>2, <2>3
<1>5. CASE CleanName(r) \/ ValidateForm(r) \/ IndexName(r)
  <2>1. req[r].op \notin {"revoke", "delete", "deactivate_contract"}
    BY <1>5 DEF CleanName, ValidateForm, IndexName, IInv, RequestOK, PlaceOK
  <2>2. (\E next : Continue(r, next)) \/ \E why \in {"invalid", "error"} : Refuse(r, why)
    BY <1>5 DEF CleanName, ValidateForm, IndexName
  <2>3. QED
    BY <1>1, <1>2, <2>1, <2>2
<1>6. QED
  BY <1>1, <1>2, <1>3, <1>4, <1>5
  DEF SelectScoped, FindProvider, CleanContract, RefuseIdentity, ValidateGrant,
      DeadlockAbort, Crash

\* Commits whose evidence tells of no end.
LEMMA PlainCommitEndings ==
    ASSUME IInv, EndingsInv, NEW r \in Requests,
           \/ CommitEdit(r) \/ CommitContract(r) \/ CommitAdded(r) \/ CommitSave(r)
           \/ CommitGrant(r)
    PROVE  EndingsInv'
<1>1. /\ TypeOK /\ pc[r] = "commit" /\ RequestOK(r) /\ row \in [Organizations -> Row]
      /\ assignment \in [Assignments -> Grant]
  BY DEF IInv, TypeOK, CommitEdit, CommitContract, CommitAdded, CommitSave, CommitGrant
<1>2. ASSUME NEW action, NEW o, NEW fields, action \notin Endings
      PROVE  LET e == Event(r, action, o, fields) IN
                e.request = r /\ e.action = action /\ e.object = o /\ LastsOK(e)'
  BY <1>2 DEF Event, LastsOK, Endings
<1>3. CASE CommitEdit(r)
  <2> PICK o : o = req[r].object
    OBVIOUS
  <2> PICK text : text = req[r].text
    OBVIOUS
  <2>1. o \in Organizations /\ Stored(o) /\ text \in Texts
    BY <1>1, <1>3 DEF CommitEdit, RequestOK, KindOK, HoldsOK, Portfolio, Locked, Organizations, Named
  <2> DEFINE newRow == [row EXCEPT ![o].text = text]
  <2>2. /\ newRow[o] # NoRow /\ newRow[o].active = row[o].active
        /\ newRow[o].deleted = row[o].deleted
        /\ \A p \in Organizations \ {o} : newRow[p] = row[p]
    BY <1>1, <2>1, TextWritten
  <2>3. PICK fields : \/ Commit(r, row, assignment, {})
                      \/ Commit(r, newRow, assignment,
                                {Event(r, "organization.updated", o, fields)})
    BY <1>3 DEF CommitEdit
  <2> HIDE DEF newRow
  <2>4. CASE Commit(r, row, assignment, {})
    BY <1>1, <2>4, CommitEndings DEF Stored
  <2>5. CASE Commit(r, newRow, assignment, {Event(r, "organization.updated", o, fields)})
    <3> DEFINE e == Event(r, "organization.updated", o, fields)
    <3>1. e.request = r /\ e.action = "organization.updated" /\ LastsOK(e)'
      BY <1>2 DEF Endings
    <3>2. Commit(r, newRow, assignment, {e})
      BY <2>5
    <3> HIDE DEF e
    <3>3. Stored("contract") /\ ~row["contract"].active =>
             newRow["contract"] # NoRow /\ ~newRow["contract"].active
      BY <2>2 DEF Stored, Organizations, Named
    <3>4. \A p \in Organizations : row[p].deleted => newRow[p].deleted
      BY <2>2
    <3>5. QED
      BY <1>1, <3>1, <3>2, <3>3, <3>4, CommitEndings DEF Endings
  <2>6. QED
    BY <2>3, <2>4, <2>5
<1>4. CASE CommitContract(r) \/ CommitAdded(r)
  <2> DEFINE newRow == [row EXCEPT !["contract"] = NewContract(req[r].text)]
  <2>1. PICK action \in {"provider_contract.created", "organization.created"} :
           Commit(r, newRow, assignment, {Event(r, action, "contract", Fields)})
    BY <1>4 DEF CommitContract, CommitAdded
  <2>2. ~Stored("contract") /\ ~row["contract"].deleted
    BY <1>1, <1>4, NoneAssumption
    DEF CommitContract, CommitAdded, IInv, RequestOK, HoldsOK, Stored, NoRow
  <2>3. \A p \in Organizations : row[p].deleted => newRow[p].deleted
    BY <1>1, <2>2
  <2> DEFINE e == Event(r, action, "contract", Fields)
  <2>4. e.request = r /\ e.action = action /\ LastsOK(e)' /\ action \notin Endings
    BY <1>2 DEF Endings
  <2> HIDE DEF e, newRow
  <2>5. Commit(r, newRow, assignment, {e})
    BY <2>1 DEF e
  <2>6. QED
    BY <1>1, <2>2, <2>3, <2>4, <2>5, CommitEndings
<1>5. CASE CommitSave(r)
  <2> PICK o : o = req[r].object
    OBVIOUS
  <2>1. req[r].op = "save" /\ o \in Organizations
    BY <1>1, <1>5 DEF CommitSave, RequestOK, KindOK
  <2> DEFINE new == [reads[r] EXCEPT !.text = req[r].text, !.active = req[r].active]
  <2> PICK fields : fields = Changed(reads[r], new)
    OBVIOUS
  <2> PICK action : action = IF "active" \notin fields THEN "organization.updated"
                             ELSE IF new.active THEN "organization.reactivated"
                             ELSE "organization.deactivated"
    OBVIOUS
  <2>2. Commit(r, [row EXCEPT ![o] = new], assignment, {Event(r, action, o, fields)})
    BY <1>5 DEF CommitSave
  <2>3. action \notin Endings
    BY DEF Endings
  <2> HIDE DEF new
  <2> DEFINE e == Event(r, action, o, fields)
             newRow == [row EXCEPT ![o] = new]
  <2>4. e.request = r /\ e.action = action /\ e.object = o /\ LastsOK(e)' /\ action \notin Endings
    BY <1>2, <2>3
  <2>5. \A p \in Organizations \ {o} : newRow[p] = row[p]
    BY <1>1
  <2> HIDE DEF e, newRow
  <2>6. Commit(r, newRow, assignment, {e})
    BY <2>2 DEF e, newRow
  <2>7. SavedOnce(o)'
    BY <2>1, <2>4, <2>6 DEF SavedOnce, Commit
  <2>8. Stored("contract") /\ ~row["contract"].active =>
           \/ newRow["contract"] # NoRow /\ ~newRow["contract"].active
           \/ SavedOnce("contract")'
    BY <2>5, <2>7 DEF Stored, Organizations, Named
  <2>9. \A p \in Organizations : row[p].deleted => newRow[p].deleted \/ SavedOnce(p)'
    BY <2>5, <2>7
  <2>10. QED
    BY <1>1, <2>4, <2>6, <2>8, <2>9, CommitEndings
<1>6. CASE CommitGrant(r)
  <2>1. PICK a \in Assignments :
           /\ assignment[a].state = "absent"
           /\ Commit(r, row, [assignment EXCEPT ![a] = [user |-> req[r].user, state |-> "active"]],
                     {Event(r, "assignment.granted", a, {})})
    BY <1>6 DEF CommitGrant
  <2> DEFINE e == Event(r, "assignment.granted", a, {})
             newAssignment == [assignment EXCEPT ![a] = [user |-> req[r].user, state |-> "active"]]
  <2>2. e.request = r /\ e.action = "assignment.granted" /\ LastsOK(e)'
    BY <1>2 DEF Endings
  <2>3. \A b \in Assignments :
           assignment[b].state = "revoked" => newAssignment[b].state = "revoked"
    BY <1>1, <2>1
  <2> HIDE DEF e, newAssignment
  <2>4. Commit(r, row, newAssignment, {e})
    BY <2>1 DEF e, newAssignment
  <2>5. QED
    BY <1>1, <2>2, <2>3, <2>4, CommitEndings DEF Stored, Endings
<1>7. QED
  BY <1>3, <1>4, <1>5, <1>6

\* Under its lock the contract is as it was read: active.
LEMMA CommitDeactivationEndings ==
    ASSUME IInv, EndingsInv, NEW r \in Requests, CommitDeactivation(r) PROVE EndingsInv'
<1> DEFINE new == [row["contract"] EXCEPT !.active = FALSE]
           newRow == [row EXCEPT !["contract"] = new]
           e == Event(r, "provider_contract.deactivated", "contract", {"active"})
<1>1. /\ TypeOK /\ pc[r] = "commit" /\ "contract" \in Organizations
      /\ Stored("contract") /\ reads[r] = row["contract"] /\ row \in [Organizations -> Row]
      /\ req[r].op = "deactivate_contract"
  BY DEF CommitDeactivation, IInv, TypeOK, RequestOK, KindOK, HoldsOK, Portfolio, Locked,
         Organizations, Named
<1>2. row["contract"].active
  BY <1>1 DEF EndingsInv, EndingOK
<1>3. row["contract"] \in [text : Texts, active : BOOLEAN, deleted : BOOLEAN]
  BY <1>1 DEF Row, Stored
<1>4. /\ new.text \in Texts /\ new.active = FALSE /\ new.deleted = row["contract"].deleted
  BY <1>3
<1>5. new # NoRow
  BY <1>4, NoneAssumption DEF NoRow
<1>6. Commit(r, newRow, assignment, {e})
  BY <1>1 DEF CommitDeactivation
<1>7. e.request = r /\ e.object = "contract" /\ e.action = "provider_contract.deactivated"
  BY DEF Event
<1> HIDE DEF new, e
<1>8. newRow["contract"] = new /\ \A p \in Organizations \ {"contract"} : newRow[p] = row[p]
  BY <1>1
<1> HIDE DEF newRow
<1>9. row' = newRow
  BY <1>6 DEF Commit
<1>10. LastsOK(e)'
  BY <1>4, <1>5, <1>7, <1>8, <1>9 DEF LastsOK, Stored
<1>11. \A p \in Organizations : row[p].deleted => newRow[p].deleted
  BY <1>4, <1>8
<1>12. \A f \in audit : f.action = e.action => SavedOnce("contract")
  BY <1>2, <1>7 DEF EndingsInv, LastsOK
<1>13. newRow["contract"] # NoRow /\ ~newRow["contract"].active
  BY <1>4, <1>5, <1>8
<1>14. \A x \in {e}, f \in audit : x.action = f.action /\ x.object = f.object =>
          SavedOnce(x.object)
  BY <1>7, <1>12
<1>15. QED
  BY <1>1, <1>6, <1>7, <1>10, <1>11, <1>13, <1>14, CommitEndings

LEMMA CommitDeleteEndings ==
    ASSUME IInv, EndingsInv, NEW r \in Requests, CommitDelete(r) PROVE EndingsInv'
<1> PICK o : o = req[r].object
  OBVIOUS
<1> DEFINE half == [row[o] EXCEPT !.active = FALSE]
           new == [half EXCEPT !.deleted = TRUE]
           newRow == [row EXCEPT ![o] = new]
           e == Event(r, "organization.soft_deleted", o, {"active", "deleted"})
           Whole == [text : Texts, active : BOOLEAN, deleted : BOOLEAN]
<1>1. /\ TypeOK /\ pc[r] = "commit" /\ req[r].op = "delete" /\ o \in Organizations
      /\ Stored(o) /\ row \in [Organizations -> Row] /\ EndingOK(r)
  BY DEF CommitDelete, IInv, TypeOK, RequestOK, KindOK, HoldsOK, Working, EndingsInv
<1>2. row[o] \in Whole
  BY <1>1 DEF Row, Stored
<1>3. Commit(r, newRow, assignment, {e})
  <2>1. [row EXCEPT ![o].active = FALSE, ![o].deleted = TRUE] = newRow
    BY <1>1, <1>2
  <2>2. QED
    BY <2>1 DEF CommitDelete
<1>4. half \in Whole /\ half.active = FALSE
  BY <1>2
<1>5. new \in Whole /\ new.deleted = TRUE /\ new.active = FALSE
  <2> HIDE DEF half
  <2>1. QED
    BY <1>4
<1>6. e.request = r /\ e.object = o /\ e.action = "organization.soft_deleted"
  BY DEF Event
<1> HIDE DEF half, new, e
<1>7. newRow[o] = new /\ \A p \in Organizations \ {o} : newRow[p] = row[p]
  BY <1>1
<1>8. new # NoRow
  BY <1>5, NoneAssumption DEF NoRow
<1> HIDE DEF newRow
<1>9. row' = newRow
  BY <1>3 DEF Commit
<1>10. LastsOK(e)'
  BY <1>1, <1>5, <1>6, <1>7, <1>9 DEF LastsOK
<1>11. \A p \in Organizations : row[p].deleted => newRow[p].deleted
  BY <1>5, <1>7
<1>12. Stored("contract") /\ ~row["contract"].active =>
          newRow["contract"] # NoRow /\ ~newRow["contract"].active
  BY <1>5, <1>7, <1>8 DEF Stored, Organizations, Named
<1>13. \A x \in {e}, f \in audit : x.action = f.action /\ x.object = f.object =>
          /\ SavedOnce(x.object) \/ f.request \notin before[r]
          /\ x.action # "provider_contract.deactivated"
  BY <1>1, <1>6 DEF EndingOK
<1>14. QED
  BY <1>1, <1>3, <1>6, <1>10, <1>11, <1>12, <1>13, CommitEndings

LEMMA CommitRevocationEndings ==
    ASSUME IInv, EndingsInv, NEW r \in Requests, CommitRevocation(r) PROVE EndingsInv'
<1> PICK a : a = req[r].object
  OBVIOUS
<1> DEFINE newAssignment == [assignment EXCEPT ![a].state = "revoked"]
           e == Event(r, "assignment.revoked", a, {})
<1>1. /\ TypeOK /\ pc[r] = "commit" /\ req[r].op = "revoke" /\ a \in Assignments
      /\ assignment \in [Assignments -> Grant] /\ EndingOK(r)
      /\ Commit(r, row, newAssignment, {e})
  BY DEF CommitRevocation, IInv, TypeOK, RequestOK, KindOK, EndingsInv
<1>2. e.request = r /\ e.object = a /\ e.action = "assignment.revoked"
  BY DEF Event
<1>3. /\ newAssignment[a].state = "revoked"
      /\ \A b \in Assignments \ {a} : newAssignment[b] = assignment[b]
  BY <1>1 DEF Grant
<1> HIDE DEF e, newAssignment
<1>4. assignment' = newAssignment
  BY <1>1 DEF Commit
<1>5. LastsOK(e)'
  BY <1>1, <1>2, <1>3, <1>4 DEF LastsOK
<1>6. \A x \in {e}, f \in audit : x.action = f.action /\ x.object = f.object =>
          f.request \notin before[r] /\ x.action # "provider_contract.deactivated"
  BY <1>1, <1>2 DEF EndingOK
<1>7. \A b \in Assignments : assignment[b].state = "revoked" => newAssignment[b].state = "revoked"
  BY <1>3
<1>8. QED
  BY <1>1, <1>2, <1>5, <1>6, <1>7, CommitEndings DEF Stored

\* Every arrival is one, at one of four statements.
LEMMA ArrivalArrives ==
    ASSUME NEW r \in Requests, Arrival(r)
    PROVE  \E request, first :
              first \in {"select", "check", "load", "validate"} /\ Arrive(r, request, first)
BY DEF Arrival, EditBusiness, EditContract, CreateContract, DeactivateContract, AddContract,
       SavePage, DeletePage, GrantPage, RevokePage

LEMMA StepEndings == IInv /\ EndingsInv /\ [Next]_vars => EndingsInv'
<1> SUFFICES ASSUME IInv, EndingsInv, [Next]_vars PROVE EndingsInv'
  OBVIOUS
<1>1. ASSUME NEW r \in Requests, Statement(r) PROVE EndingsInv'
  BY <1>1, SilentStepEndings, CheckContractEndings, LoadEndings, UpdateEndings,
     PlainCommitEndings, CommitDeactivationEndings, CommitDeleteEndings,
     CommitRevocationEndings
  DEF Statement
<1>2. ASSUME NEW r \in Requests, Arrival(r) PROVE EndingsInv'
  BY <1>2, ArrivalArrives, ArriveEndings
<1>3. CASE UNCHANGED vars
  <2>1. UNCHANGED <<row, assignment, audit, pc, req, reads, before>>
    BY <1>3 DEF vars, rows
  <2>2. QED
    BY <2>1 DEF EndingsInv, RepeatsOverlapped, Overlap, LastsOK, EndingOK, SavedOnce, Stored
<1>4. QED
  BY <1>1, <1>2, <1>3, SilentStepEndings DEF Next, Quiescent

\* However many administrators and operators are at work, an end is told twice only
\* by requests that overlapped, or about something a saved page may have restored.
THEOREM RepeatsExplained == Spec => []RepeatsOverlapped
<1>1. Init => EndingsInv
  BY DEF Init, EndingsInv, RepeatsOverlapped, EndingOK
<1>2. EndingsInv => RepeatsOverlapped
  BY DEF EndingsInv
<1>3. QED
  BY <1>1, <1>2, Invariance, StepEndings, PTL DEF Spec

-----------------------------------------------------------------------------
(* Errors.                                                                 *)

\* A page that adds a contract has run at the same time.
MetAddition(r) ==
    \E q \in Requests : req[q].op = "add_contract" /\ pc[q] # "idle" /\ Overlap(r, q)

\* The converse of HoldsOK: which statements hold anything at all.
OwnsOK(r) ==
    /\ \A o \in Organizations \cup Assignments : lock[o] = r =>
          /\ o = req[r].object
          /\ \/ req[r].op \in Portfolio /\ pc[r] \in Locked
             \/ req[r].op \in {"save", "delete", "revoke"} /\ pc[r] \in {"index", "commit"}
    /\ inserting = r => pc[r] = "commit" /\ req[r].op \in {"create_contract", "add_contract"}
    /\ \A u \in Users : granting[u] = r => pc[r] = "commit" /\ req[r].op = "grant"

\* A contract that was not there when a service looked was added by a page, and a
\* name that was free when the form or full_clean looked was given by another.
FaultOK(r) ==
    /\ pc[r] = "identity" => req[r].moves
    /\ pc[r] = "insert" /\ req[r].op = "create_contract" /\ Stored("contract") => MetAddition(r)
    /\ pc[r] \in {"update", "index"} /\ req[r].op \in {"edit_business", "save"} =>
          (Taken(req[r].object, req[r].text) => BeatenToName(r))
    /\ pc[r] = "error" =>
          \/ req[r].moves \/ req[r].op \in {"grant", "add_contract"} \/ MetAddition(r)
          \/ BeatenToName(r)

ErrorsInv == \A r \in Requests : OwnsOK(r) /\ FaultOK(r)

\* Two requests that run at the same time overlap.
LEMMA RunningOverlap ==
    ASSUME IInv, NEW r \in Requests, NEW q \in Requests, pc[r] \in Working, pc[q] \in Working
    PROVE  Overlap(r, q)
BY DEF IInv, Overlap, Working, Answered

\* What holds of every other request when r has taken a step.
LEMMA OthersErrors ==
    ASSUME IInv, ErrorsInv, NEW r \in Requests,
           \A q \in Requests \ {r} : /\ pc'[q] = pc[q] /\ req'[q] = req[q]
                                     /\ before'[q] = before[q],
           \A o \in Organizations \cup Assignments : lock'[o] \in {lock[o], None, r},
           inserting' \in {inserting, None, r},
           \A u \in Users : granting'[u] \in {granting[u], None, r},
           pc'[r] # "idle", pc[r] # "ok",
           pc[r] # "idle" => req'[r] = req[r] /\ before'[r] = before[r],
           Stored("contract")' => Stored("contract") \/
              \A q \in Requests \ {r} : pc[q] = "insert" /\ req[q].op = "create_contract" =>
                 MetAddition(q)',
           \A p \in Organizations : row'[p].text # row[p].text =>
              \/ p = "contract"
              \/ /\ pc'[r] = "ok" /\ pc[r] \in Working /\ req[r].op \in {"edit_business", "save"}
                 /\ req[r].object = p /\ row'[p].text = req[r].text,
           OwnsOK(r)', FaultOK(r)'
    PROVE  ErrorsInv'
<1>1. ASSUME NEW q \in Requests, q # r PROVE OwnsOK(q)' /\ FaultOK(q)'
  <2>1. /\ OwnsOK(q) /\ FaultOK(q) /\ q # None
        /\ pc'[q] = pc[q] /\ req'[q] = req[q] /\ before'[q] = before[q]
    BY <1>1, NoneAssumption DEF ErrorsInv
  <2>2. /\ \A o \in Organizations \cup Assignments : lock'[o] = q => lock[o] = q
        /\ inserting' = q => inserting = q
        /\ \A u \in Users : granting'[u] = q => granting[u] = q
    BY <1>1, <2>1
  <2>3. OwnsOK(q)'
    BY <2>1, <2>2 DEF OwnsOK
  <2>4. MetAddition(q) => MetAddition(q)'
    BY <1>1, <2>1 DEF MetAddition, Overlap
  <2>5. BeatenToName(q) => BeatenToName(q)'
    <3>1. ASSUME NEW p \in Requests, pc[p] = "ok"
          PROVE  /\ pc'[p] = "ok" /\ req'[p] = req[p] /\ before'[p] = before[p]
      BY <3>1
    <3>2. QED
      BY <2>1, <3>1 DEF BeatenToName, Overlap
  <2>6. ASSUME pc[q] \in {"update", "index"}, req[q].op \in {"edit_business", "save"},
               Taken(req[q].object, req[q].text)'
        PROVE  BeatenToName(q)'
    <3>1. PICK p \in Peers(req[q].object) : row'[p].text = req[q].text
      BY <2>1, <2>6 DEF Taken, Peers
    <3>2. p \in Organizations /\ req[q].object \in Organizations
      BY <2>6 DEF Peers, IInv, RequestOK, KindOK
    <3>3. CASE row'[p].text = row[p].text
      BY <2>1, <2>5, <2>6, <3>1, <3>3 DEF Taken, FaultOK
    <3>4. CASE row'[p].text # row[p].text
      <4>1. p # "contract"
        BY <3>1, <3>2, OtherKindAssumption DEF Peers, Kind, Organizations, Named
      <4>2. /\ pc'[r] = "ok" /\ pc[r] \in Working /\ req[r].op \in {"edit_business", "save"}
            /\ req[r].object = p /\ row'[p].text = req[r].text
        BY <3>2, <3>4, <4>1
      <4>3. Overlap(q, r) /\ req'[r] = req[r] /\ before'[r] = before[r]
        BY <2>6, <4>2, RunningOverlap DEF Working
      <4>4. /\ req'[q].op \in {"edit_business", "save"} /\ req'[r].object \in Peers(req'[q].object)
            /\ req'[r].text = req'[q].text /\ req'[r].op \in {"edit_business", "save"}
            /\ Overlap(q, r)'
        BY <2>1, <2>6, <3>1, <4>2, <4>3 DEF Overlap, Peers
      <4>5. QED
        BY <4>2, <4>4 DEF BeatenToName, Peers
    <3>5. QED
      BY <3>3, <3>4
  <2>7. FaultOK(q)'
    BY <1>1, <2>1, <2>4, <2>5, <2>6 DEF FaultOK
  <2>8. QED
    BY <2>3, <2>7
<1>2. QED
  BY <1>1 DEF ErrorsInv

\* A statement of r that takes nothing, without changing a row.
LEMMA ContinueErrors ==
    ASSUME IInv, ErrorsInv, NEW r \in Requests, NEW next \in Working, Continue(r, next),
           pc[r] \in Working,
           req[r].op \in Portfolio => (pc[r] \in Locked => next \in Locked),
           next = "identity" => req[r].moves,
           pc[r] # "commit",
           next \in {"index", "commit"} \/ pc[r] # "index",
           next = "insert" => ~Stored("contract") \/ req[r].op # "create_contract",
           next \in {"update", "index"} => ~Taken(req[r].object, req[r].text)
    PROVE  ErrorsInv'
<1>1. /\ UNCHANGED <<row, lock, inserting, granting, req, before>>
      /\ pc' = [pc EXCEPT ![r] = next] /\ pc'[r] = next
      /\ \A q \in Requests \ {r} : pc'[q] = pc[q]
  BY DEF Continue, Goto, rows, locks, IInv, TypeOK
<1>2. OwnsOK(r)'
  BY <1>1 DEF ErrorsInv, OwnsOK
<1>3. FaultOK(r)'
  BY <1>1 DEF FaultOK, Working, Stored, Taken, Peers
<1>4. pc[r] # "idle" /\ next # "idle" /\ pc[r] # "ok"
  BY DEF Working
<1>5. Stored("contract")' <=> Stored("contract")
  BY <1>1 DEF Stored
<1>6. QED
  BY <1>1, <1>2, <1>3, <1>4, <1>5, OthersErrors

\* A request that is answered holds nothing.
LEMMA ReleaseErrors ==
    ASSUME TypeOK, NEW r \in Requests, Release(r)
    PROVE  /\ \A o \in Organizations \cup Assignments :
                 lock'[o] \in {lock[o], None} /\ lock'[o] # r
           /\ inserting' \in {inserting, None} /\ inserting' # r
           /\ \A u \in Users : granting'[u] \in {granting[u], None} /\ granting'[u] # r
BY NoneAssumption DEF Release, TypeOK

LEMMA RefuseErrors ==
    ASSUME IInv, ErrorsInv, NEW r \in Requests, NEW why \in Answered, Refuse(r, why),
           pc[r] \in Working,
           why = "error" =>
              \/ req[r].moves \/ req[r].op \in {"grant", "add_contract"} \/ MetAddition(r)
              \/ BeatenToName(r)
    PROVE  ErrorsInv'
<1>1. /\ UNCHANGED <<row, req, before>> /\ Release(r)
      /\ pc'[r] = why /\ \A q \in Requests \ {r} : pc'[q] = pc[q]
  BY DEF Refuse, Goto, rows, IInv, TypeOK
<1>2. OwnsOK(r)'
  BY <1>1, ReleaseErrors DEF OwnsOK, IInv
<1>3. MetAddition(r) => MetAddition(r)'
  BY <1>1 DEF MetAddition, Overlap, Answered
<1>4. FaultOK(r)'
  <2>1. BeatenToName(r) => BeatenToName(r)'
    BY <1>1 DEF BeatenToName, Overlap, Working
  <2>2. QED
    BY <1>1, <1>3, <2>1 DEF FaultOK, Answered
<1>5. pc[r] # "idle" /\ why # "idle" /\ pc[r] # "ok"
  BY DEF Working, Answered
<1>6. Stored("contract")' <=> Stored("contract")
  BY <1>1 DEF Stored
<1>7. QED
  BY <1>1, <1>2, <1>4, <1>5, <1>6, ReleaseErrors, OthersErrors DEF IInv

\* A commit; only one of a page adds a contract while a service is about to.
LEMMA CommitErrors ==
    ASSUME IInv, ErrorsInv, NEW r \in Requests, pc[r] = "commit",
           NEW newRow, NEW newAssignment, NEW events, Commit(r, newRow, newAssignment, events),
           \/ newRow["contract"] # NoRow => Stored("contract")
           \/ req[r].op \in {"create_contract", "add_contract"},
           \A p \in Organizations : newRow[p].text # row[p].text =>
              \/ p = "contract"
              \/ /\ req[r].op \in {"edit_business", "save"} /\ req[r].object = p
                 /\ newRow[p].text = req[r].text
    PROVE  ErrorsInv'
<1>1. /\ row' = newRow /\ UNCHANGED <<req, before>> /\ Release(r)
      /\ pc'[r] = "ok" /\ \A q \in Requests \ {r} : pc'[q] = pc[q]
  BY DEF Commit, Goto, IInv, TypeOK
<1>2. OwnsOK(r)'
  BY <1>1, ReleaseErrors DEF OwnsOK, IInv
<1>3. FaultOK(r)'
  BY <1>1 DEF FaultOK
<1>4. ASSUME NEW q \in Requests, q # r, pc[q] = "insert", req[q].op = "create_contract",
             Stored("contract")', ~Stored("contract")
      PROVE  MetAddition(q)'
  <2>1. HoldsOK(q) /\ KindOK(q) /\ HoldsOK(r) /\ KindOK(r)
    BY DEF IInv, RequestOK
  <2>2. lock["business"] = q
    BY <1>4, <2>1 DEF HoldsOK, KindOK, Locked, Portfolio
  <2>3. req[r].op # "create_contract"
    BY <1>4, <2>1, <2>2 DEF HoldsOK, KindOK, Locked, Portfolio
  <2>4. req[r].op = "add_contract"
    BY <1>1, <1>4, <2>3 DEF Stored
  <2>5. Overlap(q, r)
    BY <1>4, RunningOverlap DEF Working
  <2>6. QED
    BY <1>1, <2>4, <2>5 DEF MetAddition, Overlap
<1>5. pc[r] \in Working
  BY DEF Working
<1>6. QED
  BY <1>1, <1>2, <1>3, <1>4, <1>5, ReleaseErrors, OthersErrors DEF IInv

\* What a commit writes, and whose name.
LEMMA CommitStepErrors ==
    ASSUME IInv, ErrorsInv, NEW r \in Requests,
           \/ CommitEdit(r) \/ CommitDeactivation(r) \/ CommitContract(r) \/ CommitAdded(r)
           \/ CommitSave(r) \/ CommitDelete(r) \/ CommitRevocation(r) \/ CommitGrant(r)
    PROVE  ErrorsInv'
<1> DEFINE TextOf(newRow) ==
              /\ \/ newRow["contract"] # NoRow => Stored("contract")
                 \/ req[r].op \in {"create_contract", "add_contract"}
              /\ \A p \in Organizations : newRow[p].text # row[p].text =>
                    \/ p = "contract"
                    \/ /\ req[r].op \in {"edit_business", "save"} /\ req[r].object = p
                       /\ newRow[p].text = req[r].text
<1>1. /\ pc[r] = "commit" /\ HoldsOK(r) /\ KindOK(r) /\ row \in [Organizations -> Row]
      /\ TypeOK /\ "contract" \in Organizations
  BY DEF CommitEdit, CommitDeactivation, CommitContract, CommitAdded, CommitSave, CommitDelete,
         CommitRevocation, CommitGrant, IInv, RequestOK, TypeOK, Organizations
<1>2. ASSUME NEW newRow, NEW newAssignment, NEW events,
             Commit(r, newRow, newAssignment, events), TextOf(newRow)
      PROVE  ErrorsInv'
  BY <1>1, <1>2, CommitErrors
<1>3. CASE CommitContract(r) \/ CommitAdded(r)
  <2> DEFINE newRow == [row EXCEPT !["contract"] = NewContract(req[r].text)]
  <2>1. TextOf(newRow)
    BY <1>1, <1>3 DEF CommitContract, CommitAdded
  <2> HIDE DEF TextOf
  <2>2. QED
    BY <1>2, <1>3, <2>1 DEF CommitContract, CommitAdded
<1>4. CASE CommitRevocation(r) \/ CommitGrant(r)
  <2>1. TextOf(row)
    BY DEF Stored
  <2> HIDE DEF TextOf
  <2>2. QED
    BY <1>2, <1>4, <2>1 DEF CommitRevocation, CommitGrant
<1>5. CASE CommitEdit(r) \/ CommitDeactivation(r) \/ CommitSave(r) \/ CommitDelete(r)
  <2> PICK o : o = req[r].object
    OBVIOUS
  <2>1. o \in Organizations /\ Stored(o) /\ (req[r].op = "deactivate_contract" => o = "contract")
    BY <1>1, <1>5
    DEF CommitEdit, CommitDeactivation, CommitSave, CommitDelete, HoldsOK, KindOK, Portfolio,
        Locked, Working, Organizations
  <2>2. ASSUME NEW new,
               \/ o = "contract" \/ new.text = row[o].text
               \/ req[r].op \in {"edit_business", "save"} /\ new.text = req[r].text
        PROVE  TextOf([row EXCEPT ![o] = new])
    BY <1>1, <2>1, <2>2 DEF Stored
  <2>3. CASE CommitEdit(r)
    <3> DEFINE new == [row[o] EXCEPT !.text = req[r].text]
    <3>1. [row EXCEPT ![o].text = req[r].text] = [row EXCEPT ![o] = new]
      BY <1>1, <2>1
    <3>2. req[r].text \in Texts /\ (req[r].op = "edit_contract" => o = "contract")
          /\ req[r].op \in {"edit_business", "edit_contract"}
      BY <1>1, <2>3 DEF CommitEdit, KindOK
    <3>3. new.text = req[r].text
      BY <1>1, <2>1, <3>2, TextWritten
    <3>4. TextOf([row EXCEPT ![o] = new]) /\ TextOf(row)
      <4> HIDE DEF new
      <4>1. TextOf([row EXCEPT ![o] = new])
        BY <2>2, <3>2, <3>3
      <4>2. TextOf(row)
        BY DEF Stored
      <4>3. QED
        BY <4>1, <4>2
    <3>5. \/ \E events : Commit(r, row, assignment, events)
          \/ \E events : Commit(r, [row EXCEPT ![o] = new], assignment, events)
      BY <2>3, <3>1 DEF CommitEdit
    <3> HIDE DEF TextOf, new
    <3>6. QED
      BY <1>2, <3>4, <3>5
  <2>4. CASE CommitDeactivation(r)
    <3> DEFINE new == [row["contract"] EXCEPT !.active = FALSE]
    <3>1. [row EXCEPT !["contract"].active = FALSE] = [row EXCEPT !["contract"] = new]
      BY <1>1
    <3>2. o = "contract" /\ \E events : Commit(r, [row EXCEPT ![o] = new], assignment, events)
      BY <2>1, <2>4, <3>1 DEF CommitDeactivation
    <3> HIDE DEF TextOf, new
    <3>3. QED
      BY <1>2, <2>2, <3>2
  <2>5. CASE CommitSave(r)
    <3> DEFINE new == [reads[r] EXCEPT !.text = req[r].text, !.active = req[r].active]
    <3>1. new.text = req[r].text /\ req[r].op = "save"
      BY <1>1, <2>5 DEF CommitSave, TypeOK, Row, NoRow
    <3>2. \E events : Commit(r, [row EXCEPT ![o] = new], assignment, events)
      BY <2>5 DEF CommitSave
    <3> HIDE DEF TextOf, new
    <3>3. QED
      BY <1>2, <2>2, <3>1, <3>2
  <2>6. CASE CommitDelete(r)
    <3> DEFINE half == [row[o] EXCEPT !.active = FALSE]
               new == [half EXCEPT !.deleted = TRUE]
    <3>1. [row EXCEPT ![o].active = FALSE, ![o].deleted = TRUE] = [row EXCEPT ![o] = new]
      BY <1>1, <2>1
    <3>2. row[o] \in [text : Texts, active : BOOLEAN, deleted : BOOLEAN]
      BY <1>1, <2>1 DEF Row, Stored
    <3>3. /\ half \in [text : Texts, active : BOOLEAN, deleted : BOOLEAN]
          /\ half.text = row[o].text
      BY <3>2
    <3>4. new.text = row[o].text
      <4> HIDE DEF half
      <4>1. QED
        BY <3>3
    <3>5. \E events : Commit(r, [row EXCEPT ![o] = new], assignment, events)
      BY <2>6, <3>1 DEF CommitDelete
    <3> HIDE DEF TextOf, half, new
    <3>6. QED
      BY <1>2, <2>2, <3>4, <3>5
  <2>7. QED
    BY <1>5, <2>3, <2>4, <2>5, <2>6
<1>6. QED
  BY <1>3, <1>4, <1>5

\* A statement of r that locks the row it is about.
LEMMA LockErrors ==
    ASSUME IInv, ErrorsInv, NEW r \in Requests, NEW next,
           UNCHANGED <<row, inserting, granting, req, before>>,
           lock' = [lock EXCEPT ![req[r].object] = r], pc' = [pc EXCEPT ![r] = next],
           \/ /\ pc[r] = "lock" /\ req[r].op \in Portfolio
              /\ next \in Locked \ {"insert", "update", "index"}
           \/ pc[r] = "update" /\ next \in {"index", "commit"}
    PROVE  ErrorsInv'
<1> PICK o : o = req[r].object
  OBVIOUS
<1>1. pc'[r] = next /\ \A q \in Requests \ {r} : pc'[q] = pc[q]
  BY DEF IInv, TypeOK
<1>2. \A p \in Organizations \cup Assignments :
         /\ p # o => lock'[p] = lock[p]
         /\ lock'[p] \in {lock[p], None, r}
  BY DEF IInv, TypeOK
<1>3. pc[r] = "update" => req[r].op \in {"edit_business", "save", "delete", "revoke"}
  BY DEF IInv, RequestOK, PlaceOK
<1>4. OwnsOK(r)'
  BY <1>1, <1>2, <1>3 DEF ErrorsInv, OwnsOK, Locked, Portfolio
<1>5. BeatenToName(r) => BeatenToName(r)'
  BY <1>1 DEF BeatenToName, Overlap
<1>6. Taken(req[r].object, req[r].text)' <=> Taken(req[r].object, req[r].text)
  BY DEF Taken, Peers
<1>7. FaultOK(r)'
  BY <1>1, <1>5, <1>6 DEF ErrorsInv, FaultOK, Locked
<1>8. next # "idle"
  BY DEF Locked
<1>9. Stored("contract")' <=> Stored("contract")
  BY DEF Stored
<1>10. QED
  BY <1>1, <1>2, <1>4, <1>7, <1>8, <1>9, OthersErrors

LEMMA LockStepErrors ==
    ASSUME IInv, ErrorsInv, NEW r \in Requests, LockRow(r) \/ Update(r) PROVE ErrorsInv'
<1>1. CASE Refuse(r, "denied") /\ LockRow(r)
  BY <1>1, RefuseErrors DEF LockRow, Working, Answered
<1>2. CASE LockRow(r) /\ ~Refuse(r, "denied")
  <2>1. pc[r] = "lock" /\ req[r].op \in Portfolio /\ TakeLock(r, req[r].object, AfterLock(r))
    BY <1>2 DEF LockRow, IInv, RequestOK, PlaceOK
  <2>2. AfterLock(r) \in Locked \ {"insert", "update", "index"}
    BY <2>1 DEF AfterLock, Locked
  <2>3. QED
    BY <2>1, <2>2, LockErrors DEF TakeLock, Goto, rows
<1>3. CASE Update(r)
  BY <1>3, LockErrors DEF Update, Goto, rows
<1>4. QED
  BY <1>1, <1>2, <1>3

\* Statements that insert: they hold the key, or meet the row that has it.
LEMMA InsertErrors ==
    ASSUME IInv, ErrorsInv, NEW r \in Requests, InsertContract(r) \/ InsertGrant(r)
    PROVE  ErrorsInv'
<1>1. /\ PlaceOK(r) /\ OwnsOK(r) /\ FaultOK(r) /\ TypeOK
  BY DEF IInv, RequestOK, ErrorsInv
<1>2. CASE InsertContract(r) /\ Refuse(r, "error")
  <2>1. /\ pc[r] = "insert" /\ req[r].op \in {"add_contract", "create_contract"}
    BY <1>1, <1>2 DEF InsertContract, PlaceOK
  <2>2. Stored("contract")
    <3>1. ~Stored("contract") => pc'[r] = "commit"
      BY <1>1, <1>2 DEF InsertContract, Goto, TypeOK
    <3>2. pc'[r] = "error"
      BY <1>1, <1>2 DEF Refuse, Goto, TypeOK
    <3>3. QED
      BY <3>1, <3>2
  <2>3. QED
    BY <1>1, <1>2, <2>1, <2>2, RefuseErrors DEF FaultOK, Working, Answered
<1>3. CASE InsertGrant(r) /\ Refuse(r, "error")
  BY <1>1, <1>3, RefuseErrors DEF InsertGrant, PlaceOK, Working, Answered
<1>4. CASE (InsertContract(r) \/ InsertGrant(r)) /\ ~Refuse(r, "error")
  <2>1. /\ pc[r] \in {"insert", "insertGrant"} /\ pc' = [pc EXCEPT ![r] = "commit"]
        /\ UNCHANGED <<row, lock, req, before>>
    BY <1>4 DEF InsertContract, InsertGrant, Goto, rows
  <2>2. /\ inserting' \in {inserting, r}
        /\ inserting' # inserting => pc[r] = "insert"
        /\ \A u \in Users : /\ granting'[u] \in {granting[u], r}
                            /\ granting'[u] # granting[u] => pc[r] = "insertGrant"
    BY <1>1, <1>4 DEF InsertContract, InsertGrant, TypeOK
  <2>3. pc'[r] = "commit" /\ \A q \in Requests \ {r} : pc'[q] = pc[q]
    BY <1>1, <2>1 DEF TypeOK
  <2>4. /\ pc[r] = "insert" => req[r].op \in {"add_contract", "create_contract"}
        /\ pc[r] = "insertGrant" => req[r].op = "grant"
    BY <1>1 DEF PlaceOK
  <2>5. OwnsOK(r)'
    BY <1>1, <2>1, <2>2, <2>3, <2>4 DEF OwnsOK, Locked
  <2>6. FaultOK(r)'
    BY <1>1, <2>1, <2>3 DEF FaultOK
  <2>7. Stored("contract")' <=> Stored("contract")
    BY <2>1 DEF Stored
  <2>8. QED
    BY <2>1, <2>2, <2>3, <2>5, <2>6, <2>7, OthersErrors
<1>5. QED
  BY <1>2, <1>3, <1>4

LEMMA LoadErrors ==
    ASSUME IInv, ErrorsInv, NEW r \in Requests, Load(r) PROVE ErrorsInv'
<1>1. CASE Refuse(r, "denied")
  BY <1>1, RefuseErrors DEF Load, Working, Answered
<1>2. CASE ~Refuse(r, "denied")
  <2> PICK next : next = IF req[r].op = "save" THEN "form" ELSE "update"
    OBVIOUS
  <2>1. /\ pc[r] = "load" /\ pc' = [pc EXCEPT ![r] = next]
        /\ UNCHANGED <<row, lock, inserting, granting, req, before>>
    BY <1>2 DEF Load, Goto, rows, locks
  <2>2. pc'[r] = next /\ \A q \in Requests \ {r} : pc'[q] = pc[q]
    BY <2>1 DEF IInv, TypeOK
  <2>3. req[r].op \in {"save", "delete", "revoke"} /\ req[r].op \notin Portfolio
    BY <2>1 DEF IInv, RequestOK, PlaceOK, Portfolio
  <2>4. OwnsOK(r)'
    BY <2>1, <2>2, <2>3 DEF ErrorsInv, OwnsOK
  <2>5. FaultOK(r)'
    BY <2>1, <2>2, <2>3 DEF FaultOK
  <2>6. Stored("contract")' <=> Stored("contract")
    BY <2>1 DEF Stored
  <2>7. QED
    BY <2>1, <2>2, <2>4, <2>5, <2>6, OthersErrors
<1>3. QED
  BY <1>1, <1>2

LEMMA ArriveErrors ==
    ASSUME IInv, ErrorsInv, NEW r \in Requests, NEW request,
           NEW first \in {"select", "check", "load", "validate"}, Arrive(r, request, first)
    PROVE  ErrorsInv'
<1>1. /\ pc[r] = "idle" /\ UNCHANGED <<row, lock, inserting, granting>> /\ pc'[r] = first
      /\ req'[r] = request
      /\ \A q \in Requests \ {r} : /\ pc'[q] = pc[q] /\ req'[q] = req[q]
                                   /\ before'[q] = before[q]
  BY DEF Arrive, Goto, rows, locks, IInv, TypeOK
<1>2. OwnsOK(r)'
  BY <1>1 DEF ErrorsInv, OwnsOK, Locked
<1>3. FaultOK(r)'
  BY <1>1 DEF FaultOK
<1>4. Stored("contract")' <=> Stored("contract")
  BY <1>1 DEF Stored
<1>5. QED
  BY <1>1, <1>2, <1>3, <1>4, OthersErrors

-----------------------------------------------------------------------------
(* Deadlocks.                                                              *)

\* Whoever is waited for while waiting is a service with a contract to insert or
\* to commit, a page with a contract or one with a grant to commit, or a service or
\* a page that changes a name.
LEMMA HoldersWaiting ==
    ASSUME IInv, ErrorsInv, NEW r \in Requests, NEW s \in Requests, s \in BlockedBy(r),
           BlockedBy(s) # {}
    PROVE  \/ pc[s] = "insert" /\ req[s].op = "create_contract"
           \/ pc[s] = "commit" /\ req[s].op \in {"create_contract", "add_contract", "grant"}
           \/ pc[s] = "index" /\ req[s].op \in {"edit_business", "save"}
<1>1. \/ \E o \in Organizations \cup Assignments : lock[o] = s
      \/ inserting = s
      \/ \E u \in Users : granting[u] = s
  <2>1. KindOK(r) /\ PlaceOK(r) /\ req[r] \in Request
    BY DEF IInv, RequestOK, TypeOK
  <2>2. CASE pc[r] \in {"lock", "update", "identity"}
    <3>1. req[r].object \in Organizations \cup Assignments
      BY <2>1, <2>2 DEF KindOK, PlaceOK, Portfolio, Organizations, Named
    <3>2. QED
      BY <2>2, <3>1 DEF BlockedBy
  <2>3. CASE pc[r] = "insert"
    BY <2>3 DEF BlockedBy
  <2>4. CASE pc[r] = "insertGrant"
    <3>1. s = granting[req[r].user] \/ \E a \in Assignments : lock[a] = s
      BY <2>4 DEF BlockedBy
    <3>2. req[r].user \in Users
      BY <2>1, <2>4 DEF PlaceOK, KindOK
    <3>3. QED
      BY <3>1, <3>2
  <2>5. CASE pc[r] = "commit"
    BY <2>5 DEF BlockedBy, Renaming, Parents, Organizations, Named
  <2>6. CASE pc[r] = "index"
    BY <2>6 DEF BlockedBy, InDoubt, Peers
  <2>7. QED
    BY <2>2, <2>3, <2>4, <2>5, <2>6 DEF BlockedBy
<1>2. OwnsOK(s) /\ PlaceOK(s) /\ HoldsOK(s)
  BY DEF IInv, RequestOK, ErrorsInv
<1>3. pc[s] = "commit" => req[s].op \in {"create_contract", "add_contract", "grant"}
  BY DEF BlockedBy, Renaming, Parents
<1>4. /\ pc[s] \in {"lock", "update", "identity", "index", "insert", "insertGrant", "commit"}
      /\ pc[s] = "update" => lock[req[s].object] # s
  BY DEF BlockedBy
<1>5. CASE \E o \in Organizations \cup Assignments : lock[o] = s
  BY <1>2, <1>3, <1>4, <1>5 DEF OwnsOK, PlaceOK, Locked, Portfolio
<1>6. CASE inserting = s \/ \E u \in Users : granting[u] = s
  BY <1>2, <1>3, <1>6 DEF OwnsOK
<1>7. QED
  BY <1>1, <1>5, <1>6

\* Whom another waits for, and who waits himself, waits in a deadlock.
Stuck(S, q) ==
    /\ q \in Requests /\ BlockedBy(q) \cap S # {}
    /\ \E p \in S : p \in Requests /\ q \in BlockedBy(p)

\* A service that inserts a contract waits for a page that has inserted it.
LEMMA InserterMetAddition ==
    ASSUME IInv, ErrorsInv, NEW S \in SUBSET Requests, \A q \in S : Stuck(S, q),
           NEW r \in S, pc[r] = "insert", req[r].op = "create_contract"
    PROVE  \E t \in S : pc[t] = "commit" /\ req[t].op = "add_contract"
<1>1. PICK t \in S : t \in BlockedBy(r)
  BY DEF Stuck
<1>2. inserting = t /\ t \in Requests
  BY <1>1 DEF BlockedBy
<1>3. pc[t] = "commit" /\ req[t].op \in {"create_contract", "add_contract"}
  BY <1>2 DEF ErrorsInv, OwnsOK
<1>4. \A q \in {r, t} : req[q].op = "create_contract" => lock["business"] = q
  BY <1>2, <1>3 DEF IInv, RequestOK, HoldsOK, KindOK, Portfolio, Locked
<1>5. QED
  BY <1>3, <1>4

\* For the business, or the contract, that a service commits only such a page waits.
LEMMA CommitterMetAddition ==
    ASSUME IInv, ErrorsInv, NEW S \in SUBSET Requests, \A q \in S : Stuck(S, q),
           NEW r \in S, pc[r] = "commit", req[r].op = "create_contract"
    PROVE  \E t \in S : pc[t] = "commit" /\ req[t].op = "add_contract"
<1>1. PICK t \in S : t \in Requests /\ r \in BlockedBy(t)
  BY DEF Stuck
<1>2. \/ pc[t] = "insert" /\ req[t].op = "create_contract"
      \/ pc[t] = "commit" /\ req[t].op \in {"create_contract", "add_contract", "grant"}
      \/ pc[t] = "index" /\ req[t].op \in {"edit_business", "save"}
  <2>1. BlockedBy(t) # {} /\ \E p \in S : p \in Requests /\ t \in BlockedBy(p)
    BY <1>1 DEF Stuck
  <2>2. QED
    BY <1>1, <2>1, HoldersWaiting
<1>3. CASE pc[t] = "insert"
  BY <1>1, <1>2, <1>3, InserterMetAddition
<1>4. CASE pc[t] = "commit"
  <2>1. PICK o \in Parents(t) : lock[o] = r
    BY <1>1, <1>4 DEF BlockedBy, Renaming
  <2>2. o \in Organizations
    BY <2>1 DEF Parents, Organizations, Named
  <2>3. o = req[r].object /\ req[r].object = "business"
    BY <2>1, <2>2 DEF ErrorsInv, OwnsOK, IInv, RequestOK, KindOK
  <2>4. QED
    BY <1>2, <1>4, <2>1, <2>3 DEF Parents
<1>5. CASE pc[t] = "index"
  <2>1. Writes(r)
    BY <1>1, <1>5 DEF BlockedBy, InDoubt
  <2>2. QED
    BY <2>1 DEF Writes
<1>6. QED
  BY <1>2, <1>3, <1>4, <1>5

\* Who waits for somebody else's name that is waiting has been beaten to it.
LEMMA RenamerBeaten ==
    ASSUME IInv, ErrorsInv, NEW S \in SUBSET Requests, \A q \in S : Stuck(S, q),
           NEW r \in S, pc[r] = "index"
    PROVE  BeatenToName(r)
<1>1. r \in Requests /\ req[r].op \in {"edit_business", "save"} /\ FaultOK(r)
  BY DEF IInv, RequestOK, PlaceOK, ErrorsInv
<1>2. PICK p \in Peers(req[r].object) :
         /\ lock[p] \in S /\ Writes(lock[p])
         /\ \/ row[p].text = req[r].text
            \/ pc[lock[p]] = "commit" /\ req[lock[p]].text = req[r].text
  <2>1. InDoubt(r) \cap S # {}
    BY DEF Stuck, BlockedBy
  <2>2. QED
    BY <2>1 DEF InDoubt
<1>3. pc[lock[p]] # "commit"
  <2>1. BlockedBy(lock[p]) # {} /\ req[lock[p]].op \in {"edit_business", "save", "delete"}
    BY <1>2 DEF Stuck, Writes
  <2>2. QED
    BY <2>1 DEF BlockedBy, Renaming, Parents
<1>4. Taken(req[r].object, req[r].text)
  BY <1>2, <1>3 DEF Taken
<1>5. QED
  BY <1>1, <1>4 DEF FaultOK

\* In every deadlock of others than requests that have been beaten to a name there
\* is a page that adds a contract: it has inserted the contract and waits for the
\* business that a service has locked to do the same.
LEMMA DeadlockErrors ==
    ASSUME IInv, ErrorsInv, NEW r \in Requests, DeadlockAbort(r) PROVE ErrorsInv'
<1>1. PICK S \in SUBSET Requests : r \in S /\ \A q \in S : Stuck(S, q)
  BY DEF DeadlockAbort, Stuck
<1>2. PICK p \in Requests : r \in BlockedBy(p)
  BY <1>1 DEF Stuck
<1>3. \/ pc[r] = "insert" /\ req[r].op = "create_contract"
      \/ pc[r] = "commit" /\ req[r].op \in {"create_contract", "add_contract", "grant"}
      \/ pc[r] = "index" /\ req[r].op \in {"edit_business", "save"}
  <2>1. BlockedBy(r) # {}
    BY <1>1 DEF Stuck
  <2>2. QED
    BY <1>2, <2>1, HoldersWaiting
<1>4. pc[r] \in Working /\ Refuse(r, "error")
  BY <1>3 DEF Working, DeadlockAbort
<1>5. ASSUME NEW t \in S, pc[t] = "commit", req[t].op = "add_contract" PROVE MetAddition(r)
  <2>1. t \in Requests /\ pc[t] \in Working /\ pc[t] # "idle"
    BY <1>5 DEF Working
  <2>2. Overlap(r, t)
    BY <1>4, <2>1, RunningOverlap
  <2>3. QED
    BY <1>5, <2>1, <2>2 DEF MetAddition
<1>6. req[r].op \in {"grant", "add_contract"} \/ MetAddition(r) \/ BeatenToName(r)
  BY <1>1, <1>3, <1>5, InserterMetAddition, CommitterMetAddition, RenamerBeaten
<1>7. QED
  BY <1>4, <1>6, RefuseErrors DEF Answered

-----------------------------------------------------------------------------
LEMMA StatementErrors ==
    ASSUME IInv, ErrorsInv, NEW r \in Requests, Statement(r) \/ Crash(r) PROVE ErrorsInv'
<1> USE DEF Working, Answered
<1>1. PlaceOK(r) /\ KindOK(r) /\ FaultOK(r)
  BY DEF IInv, RequestOK, ErrorsInv
<1>2. CASE SelectScoped(r)
  BY <1>1, <1>2, RefuseErrors, ContinueErrors DEF SelectScoped, Locked
<1>3. CASE FindProvider(r)
  BY <1>1, <1>3, RefuseErrors, ContinueErrors DEF FindProvider, Locked
<1>4. CASE CleanContract(r)
  BY <1>1, <1>4, RefuseErrors, ContinueErrors DEF CleanContract, Locked
<1>5. CASE CleanName(r)
  BY <1>1, <1>5, RefuseErrors, ContinueErrors DEF CleanName, Locked
<1>6. CASE ValidateForm(r)
  <2>1. pc[r] = "form" /\ req[r].op = "save"
    BY <1>1, <1>6 DEF ValidateForm, PlaceOK
  <2>2. QED
    BY <1>6, <2>1, RefuseErrors, ContinueErrors DEF ValidateForm, Portfolio
<1>7. CASE IndexName(r)
  <2>1. pc[r] = "index" /\ req[r].op \in {"edit_business", "save"}
    BY <1>1, <1>7 DEF IndexName, PlaceOK
  <2>2. Taken(req[r].object, req[r].text) => BeatenToName(r)
    BY <1>1, <2>1 DEF FaultOK
  <2>3. QED
    BY <1>7, <2>1, <2>2, RefuseErrors, ContinueErrors DEF IndexName, Locked
<1>8. CASE CheckContract(r)
  <2>1. pc[r] = "check" /\ req[r].op \in {"add_contract", "deactivate_contract"}
    BY <1>1, <1>8 DEF CheckContract, PlaceOK
  <2>2. Refuse(r, "invalid") \/ Continue(r, "insert") \/ Continue(r, "commit")
    BY <1>8 DEF CheckContract
  <2>3. QED
    BY <2>1, <2>2, RefuseErrors, ContinueErrors DEF Locked
<1>9. CASE RefuseIdentity(r)
  BY <1>1, <1>9, RefuseErrors DEF RefuseIdentity, FaultOK
<1>10. CASE ValidateGrant(r)
  BY <1>1, <1>10, RefuseErrors, ContinueErrors DEF ValidateGrant, Locked
<1>11. CASE Crash(r)
  BY <1>11, RefuseErrors DEF Crash
<1>12. QED
  BY <1>2, <1>3, <1>4, <1>5, <1>6, <1>7, <1>8, <1>9, <1>10, <1>11, LockStepErrors, InsertErrors, LoadErrors,
     CommitStepErrors, DeadlockErrors
  DEF Statement

LEMMA StepErrors == IInv /\ ErrorsInv /\ [Next]_vars => ErrorsInv'
<1> SUFFICES ASSUME IInv, ErrorsInv, [Next]_vars PROVE ErrorsInv'
  OBVIOUS
<1>1. ASSUME NEW r \in Requests, Arrival(r) PROVE ErrorsInv'
  BY <1>1, ArrivalArrives, ArriveErrors
<1>2. CASE UNCHANGED vars
  <2>1. UNCHANGED <<row, lock, inserting, granting, pc, req, before>>
    BY <1>2 DEF vars, rows, locks
  <2>2. QED
    BY <2>1 DEF ErrorsInv, OwnsOK, FaultOK, MetAddition, BeatenToName, Overlap, Stored, Taken,
                Peers
<1>3. QED
  BY <1>1, <1>2, StatementErrors DEF Next, Quiescent

\* Whatever portfolio services and pages do at once, none ends in an unhandled error
\* unless a page that adds a row runs meanwhile, or another request has given another
\* organization the name that the form or full_clean found free.
THEOREM ErrorsExplained == Spec => []ErrorsAreContested
<1>1. Init => ErrorsInv
  BY NoneAssumption DEF Init, ErrorsInv, OwnsOK, FaultOK, NoRequest
<1>2. ErrorsInv => ErrorsAreContested
  BY DEF ErrorsInv, FaultOK, MetAddition, ErrorsAreContested
<1>3. QED
  BY <1>1, <1>2, Invariance, StepErrors, PTL DEF Spec
=============================================================================
