-------------------------- MODULE AccountTheorems --------------------------
(***************************************************************************)
(* Safety of AccountProofs for every set of requests, accounts, addresses  *)
(* and codes.  The inductive invariant IInv says what each request knows   *)
(* and which rows it holds at each statement, who claims which address,    *)
(* and how the codes that were used and those that are pending relate.     *)
(* OwnsInv says which requests hold a lock at all: it bounds who can wait  *)
(* for whom.  KeysOK, at the end, leaves a key for every code that is about *)
(* to be issued.                                                           *)
(***************************************************************************)
EXTENDS AccountProofs, FiniteSetTheorems, TLAPS

UsedEvent == [request : Requests, user : Users, purpose : Purposes, proof : Proofs]

ProofRow == [purpose : Purposes \cup {None}, user : Users \cup {None},
             email : Emails \cup {None}, expired : BOOLEAN, consumed : BOOLEAN,
             older : SUBSET UsedEvent]

Request == [op : Operations \cup {"none"}, user : Users \cup {None},
            email : Emails \cup {None}, proof : Proofs \cup {None},
            active : BOOLEAN, verified : BOOLEAN]

Reads == [user : Users \cup {None}, email : Emails \cup {None},
          row : Account \cup {None}]

Types ==
    /\ account \in [Users -> Account]
    /\ proof \in [Proofs -> ProofRow]
    /\ used \subseteq UsedEvent
    /\ proofLock \in [Proofs -> Requests \cup {None}]
    /\ userLock \in [Users -> Requests \cup {None}]
    /\ pc \in [Requests -> {"idle"} \cup Working \cup Answered]
    /\ req \in [Requests -> Request]
    /\ reads \in [Requests -> Reads]

RowOK(p) ==
    \/ proof[p] = NoProof
    \/ /\ proof[p].purpose \in Purposes
       /\ proof[p].user \in Users
       /\ proof[p].purpose = "email_change" => proof[p].email \in Emails

\* Statements run with the code's row locked, and with the user's as well.
HoldingProof == {"lockUser", "checkEmail", "updateEmail", "siblings", "notify", "commit"}

HoldingUser == HoldingProof \ {"lockUser"}

\* A request that arrived names what its operation works on.
Arrived(r) ==
    /\ pc[r] \in HoldingProof \cup {"lockProof"} =>
          /\ req[r].op \in DOMAIN Consumers
          /\ req[r].proof \in Proofs /\ Issued(req[r].proof)
    /\ pc[r] \in {"find", "insert"} =>
          /\ req[r].op \in DOMAIN Issuers
          /\ req[r].op # "request_password_reset" => req[r].user \in Users
          /\ req[r].op = "request_email_change" => req[r].email \in Emails
    /\ pc[r] = "insert" => reads[r].user \in Users
    /\ pc[r] \in {"load", "save"} => req[r].user \in Users /\ req[r].email \in Emails
    /\ pc[r] = "save" => reads[r].row \in Account
    /\ pc[r] \in {"checkEmail", "updateEmail", "notify"} => Confirms(r)

HoldsProof(r) ==
    pc[r] \in HoldingProof =>
        /\ proofLock[req[r].proof] = r
        /\ Pending(req[r].proof)
        /\ proof[req[r].proof].purpose = Consumers[req[r].op]
        /\ proof[req[r].proof].user = reads[r].user
        /\ reads[r].user \in Users

HoldsUser(r) ==
    pc[r] \in HoldingUser =>
        /\ userLock[reads[r].user] = r
        /\ reads[r].email = account[reads[r].user].email
        /\ req[r].op = "activate_account" =>
              ~account[reads[r].user].active /\ ~account[reads[r].user].verified

HoldsSiblings(r) ==
    pc[r] \in {"notify", "commit"} => \A p \in Siblings(r) : proofLock[p] = r

Notified(r) ==
    pc[r] = "commit" /\ Confirms(r) =>
        [request |-> r, to |-> reads[r].email] \in notified

Knows(r) ==
    Arrived(r) /\ HoldsProof(r) /\ HoldsUser(r) /\ HoldsSiblings(r) /\ Notified(r)

\* A request that has written an address is the only one to have written it.
Claiming(r) == Confirms(r) /\ pc[r] \in {"siblings", "notify", "commit"}

Claimed(r) == proof[req[r].proof].email

ClaimsOK ==
    \A r \in Requests : Claiming(r) =>
        /\ ~TakenByOther(Claimed(r), reads[r].user)
        /\ \A s \in Requests \ {r} : Claiming(s) => Claimed(s) # Claimed(r)

\* What was used is consumed, and what is still pending was issued after it.
UsedAreConsumed ==
    \A e \in used : /\ proof[e.proof].consumed
                    /\ proof[e.proof].purpose = e.purpose
                    /\ proof[e.proof].user = e.user

PendingAreNewer ==
    \A p \in Proofs, f \in used :
        Pending(p) /\ f.user = proof[p].user /\ f.purpose = proof[p].purpose =>
            f \in proof[p].older

IInv ==
    /\ Types
    /\ \A p \in Proofs : RowOK(p)
    /\ \A r \in Requests : Knows(r)
    /\ ClaimsOK
    /\ EmailsAreUnique
    /\ UsedAreConsumed
    /\ PendingAreNewer
    /\ OlderProofsDie

-----------------------------------------------------------------------------
(* The records of the model.                                               *)

LEMMA OperationNames ==
    /\ DOMAIN Issuers = {"issue_activation", "request_password_reset",
                         "request_email_change"}
    /\ DOMAIN Consumers = {"activate_account", "reset_password", "confirm_email_change"}
    /\ \A op \in DOMAIN Issuers : Issuers[op] \in Purposes
    /\ \A op \in DOMAIN Consumers : Consumers[op] \in Purposes
    /\ \A op \in DOMAIN Consumers :
          Consumers[op] = "email_change" => op = "confirm_email_change"
    /\ \A op \in DOMAIN Issuers :
          Issuers[op] = "email_change" => op = "request_email_change"
    /\ Consumers["confirm_email_change"] = "email_change"
BY DEF Issuers, Consumers, Purposes

LEMMA EmptyRecords ==
    /\ NoProof \in ProofRow /\ NoProof.purpose = None
    /\ NoRequest \in Request
    /\ NoReads \in Reads
    /\ None \notin Purposes
BY NoneAssumption DEF NoProof, Code, ProofRow, NoRequest, Asked, Request, NoReads, Reads

\* A mailed code is a row.
LEMMA CodeIsRow ==
    ASSUME NEW purpose \in Purposes \cup {None}, NEW u \in Users \cup {None},
           NEW email \in Emails \cup {None}, NEW past \in SUBSET UsedEvent
    PROVE  Code(purpose, u, email, past) \in ProofRow
BY DEF Code, ProofRow

LEMMA CodesAreRows ==
    ASSUME NEW code \in Codes
    PROVE  /\ code \in ProofRow /\ code.purpose \in Purposes /\ code.user \in Users
           /\ code.purpose = "email_change" => code.email \in Emails
<1>1. PICK purpose \in Purposes, u \in Users, email \in Emails :
        code = Code(purpose, u, IF purpose = "email_change" THEN email ELSE None, {})
  BY DEF Codes
<1>2. code \in ProofRow
  BY <1>1, CodeIsRow
<1>3. QED
  BY <1>1, <1>2 DEF Code

-----------------------------------------------------------------------------
\* Nobody has come yet, and the mailed codes have not been used.
LEMMA InitIInv == Init => IInv
<1> SUFFICES ASSUME Init PROVE IInv
  OBVIOUS
<1> USE DEF Init
<1>1. PICK start \in Starts : account = start.account /\ proof = start.proof
  OBVIOUS
<1>2. \A p \in Proofs : proof[p] = NoProof \/ proof[p] \in Codes
  BY <1>1, StartsAssumption
<1>3. \A p \in Proofs : proof[p] \in ProofRow /\ RowOK(p)
  BY <1>2, CodesAreRows, EmptyRecords DEF RowOK
<1>4. proof \in [Proofs -> ProofRow]
  BY <1>1, <1>3, StartsAssumption
<1>5. Types
  BY <1>1, <1>4, EmptyRecords, StartsAssumption DEF Types
<1>6. \A r \in Requests : Knows(r)
  BY DEF Knows, Arrived, HoldsProof, HoldsUser, HoldsSiblings, Notified, HoldingProof,
     HoldingUser
<1>7. ClaimsOK
  BY DEF ClaimsOK, Claiming
<1>8. EmailsAreUnique
  BY <1>1, StartsAssumption DEF EmailsAreUnique
<1>9. UsedAreConsumed /\ PendingAreNewer /\ OlderProofsDie
  BY DEF UsedAreConsumed, PendingAreNewer, OlderProofsDie
<1>10. QED
  BY <1>3, <1>5, <1>6, <1>7, <1>8, <1>9 DEF IInv

-----------------------------------------------------------------------------
\* Codes that a step leaves in their rows, as another request sees them.
CodesKept(q) ==
    /\ \A p \in Proofs : Issued(p) =>
          /\ proof'[p].purpose = proof[p].purpose
          /\ proof'[p].user = proof[p].user
          /\ proof'[p].email = proof[p].email
    /\ \A p \in Proofs : Pending(p) /\ proofLock[p] = q => ~proof'[p].consumed
    /\ \A p \in Proofs : ~proof'[p].consumed /\ proof'[p].purpose # None /\ ~Pending(p) =>
          userLock[proof'[p].user] # q

LocksKept(q) ==
    /\ \A p \in Proofs : proofLock[p] = q => proofLock'[p] = q
    /\ \A u \in Users : userLock[u] = q => userLock'[u] = q

LocalKept(q) == pc'[q] = pc[q] /\ req'[q] = req[q] /\ reads'[q] = reads[q]

\* What a request knows survives the steps of others that leave it the rows
\* it has locked.
LEMMA Undisturbed ==
    ASSUME IInv, NEW q \in Requests, LocalKept(q), LocksKept(q), CodesKept(q),
           \A u \in Users : userLock[u] = q => account'[u] = account[u],
           notified \subseteq notified'
    PROVE  Knows(q)'
<1>1. Knows(q) /\ Types
  BY DEF IInv
<1>2. Arrived(q)'
  BY <1>1, EmptyRecords DEF Knows, Arrived, LocalKept, CodesKept, Issued, Confirms
<1>3. HoldsProof(q)'
  <2>1. pc[q] \in HoldingProof => req[q].proof \in Proofs /\ Issued(req[q].proof)
    BY <1>1 DEF Knows, Arrived
  <2>2. QED
    BY <1>1, <2>1 DEF Knows, HoldsProof, LocalKept, LocksKept, CodesKept, Pending, Issued
<1>4. HoldsUser(q)'
  <2>1. pc[q] \in HoldingUser => reads[q].user \in Users
    BY <1>1 DEF Knows, HoldsProof, HoldingUser
  <2>2. QED
    BY <1>1, <2>1 DEF Knows, HoldsUser, LocalKept, LocksKept
<1>5. HoldsSiblings(q)'
  <2> SUFFICES ASSUME pc[q] \in {"notify", "commit"},
                      NEW p \in Proofs, p # req[q].proof,
                      proof'[p].purpose # None, ~proof'[p].consumed,
                      proof'[p].user = reads[q].user,
                      proof'[p].purpose = Consumers[req[q].op]
               PROVE  proofLock'[p] = q
    BY DEF HoldsSiblings, LocalKept, Siblings, Pending, Issued
  <2>1. userLock[reads[q].user] = q
    BY <1>1 DEF Knows, HoldsUser, HoldingUser, HoldingProof
  <2>2. Pending(p)
    BY <2>1 DEF CodesKept
  <2>3. p \in Siblings(q)
    BY <2>2 DEF CodesKept, Siblings, Pending
  <2>4. QED
    BY <1>1, <2>3 DEF Knows, HoldsSiblings, LocksKept
<1>6. Notified(q)'
  BY <1>1 DEF Knows, Notified, LocalKept, Confirms
<1>7. QED
  BY <1>2, <1>3, <1>4, <1>5, <1>6 DEF Knows

\* The address a request claims: the one it claimed already, or a free one.
MayClaim(r) ==
    Claiming(r)' =>
        /\ req'[r] = req[r] /\ reads'[r] = reads[r]
        /\ \/ Claiming(r)
           \/ /\ ~TakenByOther(Claimed(r), reads[r].user)
              /\ \A s \in Requests \ {r} : Claiming(s) => Claimed(s) # Claimed(r)

\* A step that writes no row preserves the invariant when the request that
\* takes it knows what its next statement relies on.
LEMMA NoWrites ==
    ASSUME IInv, NEW r \in Requests, Types', Knows(r)', MayClaim(r),
           account' = account, proof' = proof, used' = used,
           notified \subseteq notified',
           \A q \in Requests \ {r} : LocalKept(q) /\ LocksKept(q)
    PROVE  IInv'
<1>1. ASSUME NEW q \in Requests PROVE Knows(q)'
  <2>1. CASE q = r
    BY <2>1
  <2>2. CASE q # r
    <3>1. CodesKept(q)
      BY DEF CodesKept, Pending, Issued
    <3>2. QED
      BY <2>2, <3>1, Undisturbed
  <2>3. QED
    BY <2>1, <2>2
<1>2. ClaimsOK'
  <2>1. ASSUME NEW q \in Requests, Claiming(q)'
        PROVE  /\ req'[q] = req[q] /\ reads'[q] = reads[q]
               /\ q # r => Claiming(q)
    BY <2>1 DEF MayClaim, LocalKept, Claiming, Confirms
  <2>2. ASSUME NEW q \in Requests, Claiming(q)'
        PROVE  ~TakenByOther(Claimed(q), reads[q].user)
    BY <2>1, <2>2 DEF IInv, ClaimsOK, MayClaim
  <2>3. ASSUME NEW q \in Requests, NEW s \in Requests \ {q}, Claiming(q)', Claiming(s)'
        PROVE  Claimed(q) # Claimed(s)
    BY <2>1, <2>3 DEF IInv, ClaimsOK, MayClaim
  <2>4. QED
    BY <2>1, <2>2, <2>3 DEF ClaimsOK, Claimed, TakenByOther
<1>3. \A p \in Proofs : RowOK(p)'
  BY DEF IInv, RowOK
<1>4. EmailsAreUnique' /\ UsedAreConsumed' /\ PendingAreNewer' /\ OlderProofsDie'
  BY DEF IInv, EmailsAreUnique, UsedAreConsumed, PendingAreNewer, OlderProofsDie,
     Pending, Issued
<1>5. QED
  BY <1>1, <1>2, <1>3, <1>4 DEF IInv

-----------------------------------------------------------------------------
(* One lemma for each action.                                              *)

\* Ending a transaction frees the request's own rows and no other.
LEMMA ReleaseKeeps ==
    ASSUME Types, NEW r \in Requests, Release(r)
    PROVE  /\ proofLock' \in [Proofs -> Requests \cup {None}]
           /\ userLock' \in [Users -> Requests \cup {None}]
           /\ \A q \in Requests \ {r} : LocksKept(q)
BY DEF Types, Release, LocksKept

\* Nothing is asked of a request that was answered.
LEMMA AnsweredKnows ==
    ASSUME NEW r \in Requests, pc'[r] \in Answered
    PROVE  Knows(r)' /\ ~Claiming(r)'
BY DEF Knows, Arrived, HoldsProof, HoldsUser, HoldsSiblings, Notified, HoldingProof,
   HoldingUser, Answered, Claiming

LEMMA AnswerKeeps ==
    ASSUME IInv, NEW r \in Requests, NEW how \in Answered, Answer(r, how)
    PROVE  IInv'
<1> USE DEF Answer
<1>1. Types
  BY DEF IInv
<1>2. pc'[r] = how /\ \A q \in Requests \ {r} : LocalKept(q)
  BY <1>1 DEF Types, LocalKept
<1>3. /\ proofLock' \in [Proofs -> Requests \cup {None}]
      /\ userLock' \in [Users -> Requests \cup {None}]
      /\ \A q \in Requests \ {r} : LocksKept(q)
  BY <1>1, ReleaseKeeps
<1>4. Types'
  BY <1>1, <1>3 DEF Types
<1>5. Knows(r)' /\ ~Claiming(r)'
  BY <1>2, AnsweredKnows
<1>6. QED
  BY <1>2, <1>3, <1>4, <1>5, NoWrites DEF MayClaim

\* A step that keeps its request's locks and writes no row.
LEMMA AdvanceKeeps ==
    ASSUME IInv, NEW r \in Requests, NEW next \in Working,
           pc' = [pc EXCEPT ![r] = next],
           UNCHANGED <<account, proof, used, req>>,
           notified \subseteq notified',
           proofLock' \in [Proofs -> Requests \cup {None}],
           userLock' \in [Users -> Requests \cup {None}],
           reads' \in [Requests -> Reads],
           \A q \in Requests \ {r} : reads'[q] = reads[q] /\ LocksKept(q),
           Knows(r)', MayClaim(r)
    PROVE  IInv'
<1>1. Types'
  BY DEF IInv, Types
<1>2. \A q \in Requests \ {r} : LocalKept(q)
  BY DEF IInv, Types, LocalKept
<1>3. QED
  BY <1>1, <1>2, NoWrites

LEMMA ArriveKeeps ==
    ASSUME IInv, NEW r \in Requests, NEW request \in Request,
           NEW first \in {"find", "lockProof", "load"}, Arrive(r, request, first),
           first = "find" =>
              /\ request.op \in DOMAIN Issuers
              /\ request.op # "request_password_reset" => request.user \in Users
              /\ request.op = "request_email_change" => request.email \in Emails,
           first = "lockProof" =>
              /\ request.op \in DOMAIN Consumers
              /\ request.proof \in Proofs /\ Issued(request.proof),
           first = "load" => request.user \in Users /\ request.email \in Emails
    PROVE  IInv'
<1> USE DEF Arrive
<1>1. /\ req' = [req EXCEPT ![r] = request] /\ pc' = [pc EXCEPT ![r] = first]
      /\ Types
  BY DEF IInv
<1>2. pc'[r] = first /\ req'[r] = request
  BY <1>1 DEF Types
<1>3. Types'
  BY <1>1 DEF Types, Working, locks
<1>4. \A q \in Requests \ {r} : LocalKept(q) /\ LocksKept(q)
  BY <1>1 DEF Types, LocalKept, LocksKept, locks
<1>5. Knows(r)'
  BY <1>2 DEF Knows, Arrived, HoldsProof, HoldsUser, HoldsSiblings, Notified,
     HoldingProof, HoldingUser, Issued
<1>6. MayClaim(r)
  BY <1>2 DEF MayClaim, Claiming
<1>7. QED
  BY <1>3, <1>4, <1>5, <1>6, NoWrites

LEMMA ArrivalKeeps ==
    ASSUME IInv, NEW r \in Requests, Arrival(r)
    PROVE  IInv'
<1> USE DEF Asked, Request, Operations
<1>1. Types
  BY DEF IInv
<1>2. ASSUME NEW email \in Emails, RequestPasswordReset(r, email) PROVE IInv'
  <2> DEFINE request == Asked("request_password_reset", None, email, None)
  <2>1. /\ request \in Request /\ request.op = "request_password_reset"
        /\ request.op \in DOMAIN Issuers
    BY OperationNames
  <2>2. Arrive(r, request, "find")
    BY <1>2 DEF RequestPasswordReset
  <2> HIDE DEF request, Asked, Request
  <2>3. QED
    BY <2>1, <2>2, ArriveKeeps
<1>3. ASSUME NEW u \in Users, IssueActivation(r, u) PROVE IInv'
  <2> DEFINE request == Asked("issue_activation", u, None, None)
  <2>1. /\ request \in Request /\ request.op = "issue_activation" /\ request.user = u
        /\ request.op \in DOMAIN Issuers
    BY OperationNames
  <2>2. Arrive(r, request, "find")
    BY <1>3 DEF IssueActivation
  <2> HIDE DEF request, Asked, Request
  <2>3. QED
    BY <2>1, <2>2, ArriveKeeps
<1>4. ASSUME NEW u \in Users, NEW email \in Emails, RequestEmailChange(r, u, email)
      PROVE  IInv'
  <2> DEFINE request == Asked("request_email_change", u, email, None)
  <2>1. /\ request \in Request /\ request.op \in DOMAIN Issuers
        /\ request.user = u /\ request.email = email
    BY OperationNames
  <2>2. Arrive(r, request, "find")
    BY <1>4 DEF RequestEmailChange
  <2> HIDE DEF request, Asked, Request
  <2>3. QED
    BY <2>1, <2>2, ArriveKeeps
<1>5. ASSUME NEW op \in DOMAIN Consumers, NEW u \in Users, NEW p \in Proofs,
             UseProof(r, op, u, p)
      PROVE  IInv'
  <2> DEFINE request == Asked(op, IF op = "confirm_email_change" THEN u ELSE None, None, p)
  <2>1. request \in Request /\ request.op = op /\ request.proof = p
    OBVIOUS
  <2>2. Arrive(r, request, "lockProof") /\ Issued(p)
    BY <1>5 DEF UseProof
  <2> HIDE DEF request, Asked, Request
  <2>3. QED
    BY <2>1, <2>2, ArriveKeeps
<1>6. ASSUME NEW u \in Users, NEW email \in Emails, NEW active \in BOOLEAN,
             OperatorSave(r, u, email, active)
      PROVE  IInv'
  <2> DEFINE request == [op |-> "operator_save", user |-> u, email |-> email,
                         proof |-> None, active |-> active,
                         verified |-> account[u].verified]
  <2>1. account[u] \in Account
    BY <1>1 DEF Types
  <2>2. request \in Request /\ request.user = u /\ request.email \in Emails
    BY <2>1 DEF Account
  <2>3. Arrive(r, request, "load")
    BY <1>6 DEF OperatorSave
  <2> HIDE DEF request, Asked, Request
  <2>4. QED
    BY <2>2, <2>3, ArriveKeeps
<1>7. QED
  BY <1>2, <1>3, <1>4, <1>5, <1>6 DEF Arrival

\* The fields that statements read into keep their types.
LEMMA ReadsTyped ==
    ASSUME Types, NEW r \in Requests
    PROVE  /\ \A u \in Users \cup {None} :
                 LET new == [reads EXCEPT ![r].user = u] IN
                    /\ new \in [Requests -> Reads]
                    /\ new[r].user = u /\ new[r].email = reads[r].email
                    /\ \A q \in Requests \ {r} : new[q] = reads[q]
           /\ \A email \in Emails :
                 LET new == [reads EXCEPT ![r].email = email] IN
                    /\ new \in [Requests -> Reads]
                    /\ new[r].email = email /\ new[r].user = reads[r].user
                    /\ \A q \in Requests \ {r} : new[q] = reads[q]
           /\ \A a \in Account :
                 LET new == [reads EXCEPT ![r].row = a] IN
                    /\ new \in [Requests -> Reads]
                    /\ new[r].row = a
                    /\ \A q \in Requests \ {r} : new[q] = reads[q]
<1>1. reads \in [Requests -> Reads]
  BY DEF Types
<1>2. QED
  BY <1>1 DEF Reads

\* A locked row keeps its holder when another request locks free rows.
LEMMA FreeLocks ==
    ASSUME Types, NEW r \in Requests,
           NEW P \in SUBSET Proofs, \A p \in P : proofLock[p] \in {None, r},
           proofLock' = [p \in Proofs |-> IF p \in P THEN r ELSE proofLock[p]],
           NEW U \in SUBSET Users, \A u \in U : userLock[u] \in {None, r},
           userLock' = [u \in Users |-> IF u \in U THEN r ELSE userLock[u]]
    PROVE  /\ proofLock' \in [Proofs -> Requests \cup {None}]
           /\ userLock' \in [Users -> Requests \cup {None}]
           /\ \A q \in Requests \ {r} : LocksKept(q)
BY NoneAssumption DEF Types, LocksKept

\* What a pending code's row says.
LEMMA PendingRow ==
    ASSUME IInv, NEW p \in Proofs, Issued(p)
    PROVE  /\ proof[p].purpose \in Purposes /\ proof[p].user \in Users
           /\ proof[p].purpose = "email_change" => proof[p].email \in Emails
BY EmptyRecords DEF IInv, RowOK, Issued

LEMMA FindKeeps ==
    ASSUME IInv, NEW r \in Requests, Find(r)
    PROVE  IInv'
<1> DEFINE u == req[r].user
           found == CASE req[r].op = "issue_activation" ->
                           {v \in {u} : ~account[v].active /\ ~account[v].verified}
                      [] req[r].op = "request_password_reset" -> Addressee(req[r].email)
                      [] req[r].op = "request_email_change" ->
                           {v \in {u} : ~TakenByOther(req[r].email, v)}
<1>1. pc[r] = "find" /\ Types /\ Arrived(r)
  BY DEF Find, IInv, Knows
<1>2. \/ \E how \in Answered : Answer(r, how)
      \/ \E v \in found : reads' = [reads EXCEPT ![r].user = v] /\ Continue(r, "insert")
  BY DEF Find, Answered
<1>3. ASSUME NEW v \in found, reads' = [reads EXCEPT ![r].user = v], Continue(r, "insert")
      PROVE  IInv'
  <2>1. v \in Users
    BY <1>1, <1>3, OperationNames DEF Arrived, Addressee
  <2>2. /\ reads' \in [Requests -> Reads] /\ reads'[r].user = v
        /\ \A q \in Requests \ {r} : reads'[q] = reads[q]
    BY <1>1, <1>3, <2>1, ReadsTyped
  <2>3. /\ pc' = [pc EXCEPT ![r] = "insert"] /\ pc'[r] = "insert"
        /\ UNCHANGED <<account, proof, used, notified, proofLock, userLock, req>>
    BY <1>1, <1>3 DEF Continue, locks, Types
  <2>4. Knows(r)' /\ MayClaim(r)
    BY <1>1, <2>1, <2>2, <2>3 DEF Knows, Arrived, HoldsProof, HoldsUser, HoldsSiblings,
       Notified, HoldingProof, HoldingUser, MayClaim, Claiming
  <2>5. \A q \in Requests \ {r} : LocksKept(q)
    BY <2>3 DEF LocksKept
  <2>6. QED
    BY <1>1, <2>2, <2>3, <2>4, <2>5, AdvanceKeeps DEF Types, Working
<1>4. QED
  BY <1>2, <1>3, AnswerKeeps

LEMMA LockProofKeeps ==
    ASSUME IInv, NEW r \in Requests, LockProof(r)
    PROVE  IInv'
<1> DEFINE p == req[r].proof
<1>1. pc[r] = "lockProof" /\ Types /\ Arrived(r) /\ proofLock[p] = None
  BY DEF LockProof, IInv, Knows
<1>2. req[r].op \in DOMAIN Consumers /\ p \in Proofs /\ Issued(p)
  BY <1>1 DEF Arrived
<1>3. \/ Answer(r, "invalid")
      \/ /\ Finds(r)
         /\ proofLock' = [proofLock EXCEPT ![p] = r]
         /\ reads' = [reads EXCEPT ![r].user = proof[p].user]
         /\ pc' = [pc EXCEPT ![r] = "lockUser"]
         /\ UNCHANGED <<account, proof, used, notified, userLock, req>>
  BY DEF LockProof
<1>4. CASE /\ Finds(r)
           /\ proofLock' = [proofLock EXCEPT ![p] = r]
           /\ reads' = [reads EXCEPT ![r].user = proof[p].user]
           /\ pc' = [pc EXCEPT ![r] = "lockUser"]
           /\ UNCHANGED <<account, proof, used, notified, userLock, req>>
  <2>1. /\ proof[p].user \in Users /\ Pending(p)
        /\ proof[p].purpose = Consumers[req[r].op]
    BY <1>2, <1>4, PendingRow DEF Finds, Pending
  <2>2. /\ reads' \in [Requests -> Reads] /\ reads'[r].user = proof[p].user
        /\ \A q \in Requests \ {r} : reads'[q] = reads[q]
    BY <1>1, <1>4, <2>1, ReadsTyped
  <2>3. /\ proofLock' \in [Proofs -> Requests \cup {None}] /\ proofLock'[p] = r
        /\ userLock' \in [Users -> Requests \cup {None}]
        /\ \A q \in Requests \ {r} : LocksKept(q)
    BY <1>1, <1>2, <1>4, NoneAssumption DEF Types, LocksKept
  <2>4. pc'[r] = "lockUser"
    BY <1>1, <1>4 DEF Types
  <2>5. Arrived(r)' /\ HoldsUser(r)' /\ HoldsSiblings(r)' /\ Notified(r)' /\ MayClaim(r)
    BY <1>2, <1>4, <2>4 DEF Arrived, HoldsUser, HoldsSiblings, Notified, HoldingUser,
       HoldingProof, MayClaim, Claiming, Issued
  <2>6. HoldsProof(r)'
    BY <1>4, <2>1, <2>2, <2>3 DEF HoldsProof, Pending, Issued
  <2>7. QED
    BY <1>4, <2>2, <2>3, <2>5, <2>6, AdvanceKeeps DEF Knows, Working
<1>5. QED
  BY <1>3, <1>4, AnswerKeeps DEF Answered

LEMMA LockUserKeeps ==
    ASSUME IInv, NEW r \in Requests, LockUser(r)
    PROVE  IInv'
<1> DEFINE u == reads[r].user
           next == IF Confirms(r) THEN "checkEmail" ELSE "siblings"
<1>1. pc[r] = "lockUser" /\ Types /\ Knows(r) /\ userLock[u] = None
  BY DEF LockUser, IInv
<1>2. Arrived(r) /\ HoldsProof(r) /\ u \in Users
  BY <1>1 DEF Knows, HoldsProof, HoldingProof
<1>3. \/ Answer(r, "invalid")
      \/ /\ req[r].op = "activate_account" => Activatable(r)
         /\ userLock' = [userLock EXCEPT ![u] = r]
         /\ reads' = [reads EXCEPT ![r].email = account[u].email]
         /\ pc' = [pc EXCEPT ![r] = next]
         /\ UNCHANGED <<account, proof, used, notified, proofLock, req>>
  BY DEF LockUser
<1>4. CASE /\ req[r].op = "activate_account" => Activatable(r)
           /\ userLock' = [userLock EXCEPT ![u] = r]
           /\ reads' = [reads EXCEPT ![r].email = account[u].email]
           /\ pc' = [pc EXCEPT ![r] = next]
           /\ UNCHANGED <<account, proof, used, notified, proofLock, req>>
  <2>1. account[u].email \in Emails
    BY <1>1, <1>2 DEF Types, Account
  <2>2. /\ reads' \in [Requests -> Reads]
        /\ reads'[r].user = u /\ reads'[r].email = account[u].email
        /\ \A q \in Requests \ {r} : reads'[q] = reads[q]
    BY <1>1, <1>4, <2>1, ReadsTyped
  <2>3. /\ proofLock' \in [Proofs -> Requests \cup {None}]
        /\ userLock' \in [Users -> Requests \cup {None}] /\ userLock'[u] = r
        /\ \A q \in Requests \ {r} : LocksKept(q)
    BY <1>1, <1>2, <1>4, NoneAssumption DEF Types, LocksKept
  <2>4. pc'[r] = next
    BY <1>1, <1>4 DEF Types
  <2>5. Arrived(r)' /\ HoldsSiblings(r)' /\ Notified(r)' /\ MayClaim(r)
    BY <1>1, <1>2, <1>4, <2>4 DEF Arrived, HoldsSiblings, Notified, HoldingProof, MayClaim,
       Claiming, Issued, Confirms
  <2>6. HoldsProof(r)'
    BY <1>1, <1>2, <1>4, <2>2 DEF HoldsProof, HoldingProof, Pending, Issued
  <2>7. HoldsUser(r)'
    BY <1>4, <2>2, <2>3 DEF HoldsUser, Activatable
  <2>8. QED
    BY <1>4, <2>2, <2>3, <2>5, <2>6, <2>7, AdvanceKeeps DEF Knows, Working
<1>5. QED
  BY <1>3, <1>4, AnswerKeeps DEF Answered

\* The request works on with the same locks and the same reads.
LEMMA SameReads ==
    ASSUME IInv, NEW r \in Requests, NEW next \in Working,
           pc' = [pc EXCEPT ![r] = next],
           UNCHANGED <<account, proof, used, locks, req, reads>>,
           notified \subseteq notified',
           pc[r] \in HoldingUser, next \in HoldingUser,
           next \in {"checkEmail", "updateEmail", "notify"} => Confirms(r),
           HoldsSiblings(r)', Notified(r)', MayClaim(r)
    PROVE  IInv'
<1> USE DEF locks
<1>1. Types /\ Arrived(r) /\ HoldsProof(r) /\ HoldsUser(r) /\ pc'[r] = next
  BY DEF IInv, Types, Knows
<1>2. Arrived(r)'
  BY <1>1 DEF Arrived, HoldingUser, HoldingProof, Issued, Confirms
<1>3. HoldsProof(r)'
  BY <1>1 DEF HoldsProof, HoldingUser, Pending, Issued
<1>4. HoldsUser(r)'
  BY <1>1 DEF HoldsUser
<1>5. /\ proofLock' \in [Proofs -> Requests \cup {None}]
      /\ userLock' \in [Users -> Requests \cup {None}]
      /\ reads' \in [Requests -> Reads]
      /\ \A q \in Requests \ {r} : reads'[q] = reads[q] /\ LocksKept(q)
  BY <1>1 DEF Types, LocksKept
<1>6. QED
  BY <1>2, <1>3, <1>4, <1>5, AdvanceKeeps DEF Knows

LEMMA CheckEmailKeeps ==
    ASSUME IInv, NEW r \in Requests, CheckEmail(r)
    PROVE  IInv'
<1>1. pc[r] = "checkEmail" /\ Confirms(r)
  BY DEF CheckEmail, IInv, Knows, Arrived
<1>2. CASE Answer(r, "invalid")
  BY <1>2, AnswerKeeps DEF Answered
<1>3. CASE Continue(r, "updateEmail") /\ UNCHANGED reads
  <2>1. pc'[r] = "updateEmail"
    BY <1>3 DEF IInv, Types, Continue
  <2>2. HoldsSiblings(r)' /\ Notified(r)' /\ MayClaim(r)
    BY <2>1 DEF HoldsSiblings, Notified, MayClaim, Claiming
  <2>3. QED
    BY <1>1, <1>3, <2>2, SameReads DEF Continue, Working, HoldingUser, HoldingProof
<1>4. QED
  BY <1>2, <1>3 DEF CheckEmail

LEMMA UpdateEmailKeeps ==
    ASSUME IInv, NEW r \in Requests, UpdateEmail(r)
    PROVE  IInv'
<1>1. /\ pc[r] = "updateEmail" /\ Confirms(r)
      /\ Claimants(r, Claimed(r)) = {}
  BY DEF UpdateEmail, IInv, Knows, Arrived, Claimed
<1>2. CASE Answer(r, "invalid")
  BY <1>2, AnswerKeeps DEF Answered
<1>3. CASE /\ ~TakenByOther(Claimed(r), reads[r].user)
           /\ Continue(r, "siblings") /\ UNCHANGED reads
  <2>1. pc'[r] = "siblings"
    BY <1>3 DEF IInv, Types, Continue
  <2>2. \A s \in Requests \ {r} : Claiming(s) => Claimed(s) # Claimed(r)
    BY <1>1 DEF Claimants, Claiming, Claimed
  <2>3. HoldsSiblings(r)' /\ Notified(r)' /\ MayClaim(r)
    BY <1>3, <2>1, <2>2 DEF HoldsSiblings, Notified, MayClaim, Continue
  <2>4. QED
    BY <1>1, <1>3, <2>3, SameReads DEF Continue, Working, HoldingUser, HoldingProof
<1>4. QED
  BY <1>2, <1>3 DEF UpdateEmail, Claimed

LEMMA CloseSiblingsKeeps ==
    ASSUME IInv, NEW r \in Requests, CloseSiblings(r)
    PROVE  IInv'
<1> DEFINE next == IF Confirms(r) THEN "notify" ELSE "commit"
<1> USE DEF CloseSiblings
<1>1. pc[r] = "siblings" /\ Types /\ Knows(r) /\ pc'[r] = next
  BY DEF IInv, Types
<1>2. Arrived(r) /\ HoldsProof(r) /\ HoldsUser(r) /\ req[r].proof \in Proofs
  BY <1>1 DEF Knows, Arrived, HoldingProof
<1>3. /\ proofLock' \in [Proofs -> Requests \cup {None}]
      /\ userLock' \in [Users -> Requests \cup {None}]
      /\ \A q \in Requests \ {r} : LocksKept(q)
      /\ \A p \in Siblings(r) : proofLock'[p] = r
  BY <1>1, NoneAssumption DEF Types, LocksKept, Siblings
<1>4. proofLock'[req[r].proof] = r
  BY <1>1, <1>2 DEF HoldsProof, HoldingProof, Siblings
<1>5. Arrived(r)' /\ Notified(r)'
  BY <1>1, <1>2 DEF Arrived, HoldingProof, Notified, Issued, Confirms
<1>6. HoldsProof(r)' /\ HoldsUser(r)'
  BY <1>1, <1>2, <1>4 DEF HoldsProof, HoldsUser, HoldingUser, HoldingProof, Pending, Issued
<1>7. HoldsSiblings(r)'
  BY <1>3 DEF HoldsSiblings, Siblings, Pending, Issued
<1>8. MayClaim(r)
  BY <1>1 DEF MayClaim, Claiming, Confirms
<1>9. reads' \in [Requests -> Reads] /\ \A q \in Requests \ {r} : reads'[q] = reads[q]
  BY <1>1 DEF Types
<1>10. QED
  BY <1>3, <1>5, <1>6, <1>7, <1>8, <1>9, AdvanceKeeps DEF Knows, Working

LEMMA NotifyKeeps ==
    ASSUME IInv, NEW r \in Requests, Notify(r)
    PROVE  IInv'
<1> USE DEF Notify
<1>1. pc[r] = "notify" /\ Types /\ HoldsSiblings(r) /\ Confirms(r) /\ pc'[r] = "commit"
  BY DEF IInv, Types, Knows, Arrived
<1>2. HoldsSiblings(r)'
  BY <1>1 DEF HoldsSiblings, Siblings, Pending, Issued, locks
<1>3. Notified(r)' /\ MayClaim(r)
  BY <1>1 DEF Notified, MayClaim, Claiming
<1>4. QED
  BY <1>1, <1>2, <1>3, SameReads DEF Working, HoldingUser, HoldingProof

LEMMA LoadKeeps ==
    ASSUME IInv, NEW r \in Requests, Load(r)
    PROVE  IInv'
<1>1. pc[r] = "load" /\ Types /\ Arrived(r)
  BY DEF Load, IInv, Knows
<1>2. CASE Answer(r, "invalid")
  BY <1>2, AnswerKeeps DEF Answered
<1>3. CASE /\ reads' = [reads EXCEPT ![r].row = account[req[r].user]]
           /\ Continue(r, "save")
  <2>1. account[req[r].user] \in Account
    BY <1>1 DEF Types, Arrived
  <2>2. /\ reads' \in [Requests -> Reads] /\ reads'[r].row = account[req[r].user]
        /\ \A q \in Requests \ {r} : reads'[q] = reads[q]
    BY <1>1, <1>3, <2>1, ReadsTyped
  <2>3. /\ pc' = [pc EXCEPT ![r] = "save"] /\ pc'[r] = "save"
        /\ UNCHANGED <<account, proof, used, notified, proofLock, userLock, req>>
    BY <1>1, <1>3 DEF Continue, locks, Types
  <2>4. Knows(r)' /\ MayClaim(r)
    BY <1>1, <2>1, <2>2, <2>3 DEF Knows, Arrived, HoldsProof, HoldsUser, HoldsSiblings,
       Notified, HoldingProof, HoldingUser, MayClaim, Claiming
  <2>5. \A q \in Requests \ {r} : LocksKept(q)
    BY <2>3 DEF LocksKept
  <2>6. QED
    BY <1>1, <2>2, <2>3, <2>4, <2>5, AdvanceKeeps DEF Types, Working
<1>4. QED
  BY <1>2, <1>3 DEF Load

\* The foreign key check of a new code waits for whoever works on the account,
\* so the code is no sibling that a request has overlooked.
LEMMA InsertProofKeeps ==
    ASSUME IInv, NEW r \in Requests, NEW p \in Proofs, InsertProof(r, p)
    PROVE  IInv'
<1> DEFINE code == Code(Issuers[req[r].op], reads[r].user,
               IF req[r].op = "request_email_change" THEN req[r].email ELSE None, used)
<1>1. /\ pc[r] = "insert" /\ ~Issued(p) /\ userLock[reads[r].user] = None
      /\ proof' = [proof EXCEPT ![p] = code] /\ pc' = [pc EXCEPT ![r] = "ok"]
      /\ UNCHANGED <<account, used, notified, proofLock, userLock, req, reads>>
  BY DEF InsertProof, locks
<1>2. Types /\ Arrived(r)
  BY DEF IInv, Knows
<1>3. /\ code \in ProofRow /\ code.purpose \in Purposes /\ code.user = reads[r].user
      /\ code.user \in Users /\ code.older = used
      /\ code.purpose = "email_change" => code.email \in Emails
  <2>1. /\ req[r].op \in DOMAIN Issuers /\ reads[r].user \in Users
        /\ req[r].op = "request_email_change" => req[r].email \in Emails
    BY <1>1, <1>2 DEF Arrived
  <2>2. Issuers[req[r].op] \in Purposes
    BY <2>1, OperationNames
  <2>3. code \in ProofRow
    BY <1>2, <2>1, <2>2, CodeIsRow DEF Types
  <2>4. QED
    BY <2>1, <2>2, <2>3, OperationNames DEF Code
<1> HIDE DEF code
<1>4. /\ proof'[p] = code /\ pc'[r] = "ok"
      /\ \A q \in Proofs \ {p} : proof'[q] = proof[q]
      /\ \A q \in Requests \ {r} : pc'[q] = pc[q]
  BY <1>1, <1>2 DEF Types
<1>5. Types'
  BY <1>1, <1>2, <1>3 DEF Types, Answered
<1>6. ASSUME NEW q \in Requests PROVE Knows(q)'
  <2>1. CASE q = r
    BY <1>4, <2>1, AnsweredKnows DEF Answered
  <2>2. CASE q # r
    <3>1. LocalKept(q) /\ LocksKept(q)
      BY <1>1, <1>4, <2>2 DEF LocalKept, LocksKept
    <3>2. CodesKept(q)
      BY <1>1, <1>3, <1>4, NoneAssumption DEF CodesKept, Pending, Issued
    <3>3. QED
      BY <1>1, <3>1, <3>2, Undisturbed
  <2>3. QED
    BY <2>1, <2>2
<1>7. ClaimsOK'
  <2>1. ASSUME NEW s \in Requests, Claiming(s)'
        PROVE  Claiming(s) /\ Claimed(s)' = Claimed(s)
    <3>1. Claiming(s)
      BY <1>1, <1>4, <2>1 DEF Claiming, Confirms
    <3>2. req[s].proof \in Proofs /\ Issued(req[s].proof)
      BY <3>1 DEF IInv, Knows, Arrived, Claiming, HoldingProof
    <3>3. QED
      BY <1>1, <1>4, <3>1, <3>2 DEF Claimed
  <2>2. QED
    BY <1>1, <2>1 DEF IInv, ClaimsOK, TakenByOther
<1>8. \A q \in Proofs : RowOK(q)'
  BY <1>3, <1>4 DEF IInv, RowOK, NoProof
<1>9. EmailsAreUnique'
  BY <1>1 DEF IInv, EmailsAreUnique
<1>10. \A e \in used : e.proof \in Proofs /\ e.proof # p
  BY <1>1, <1>2, EmptyRecords DEF IInv, Types, UsedAreConsumed, Issued, UsedEvent
<1>11. UsedAreConsumed' /\ OlderProofsDie'
  BY <1>1, <1>4, <1>10 DEF IInv, UsedAreConsumed, OlderProofsDie
<1>12. PendingAreNewer'
  BY <1>1, <1>3, <1>4 DEF IInv, PendingAreNewer, Pending, Issued
<1>13. QED
  BY <1>5, <1>6, <1>7, <1>8, <1>9, <1>11, <1>12 DEF IInv

\* What using a code writes to the account.
LEMMA ChangedAccount ==
    ASSUME IInv, NEW r \in Requests, pc[r] = "commit"
    PROVE  /\ Changed(r) \in Account
           /\ Changed(r).email =
                IF Confirms(r) THEN Claimed(r) ELSE account[reads[r].user].email
<1> DEFINE old == account[reads[r].user]
<1>1. Types /\ Arrived(r) /\ HoldsProof(r) /\ reads[r].user \in Users /\ old \in Account
  BY DEF IInv, Knows, HoldsProof, HoldingProof, Types
<1>2. req[r].op \in {"activate_account", "reset_password", "confirm_email_change"}
  BY <1>1, OperationNames DEF Arrived, HoldingProof
<1>3. CASE req[r].op = "activate_account"
  <2>1. Changed(r) = [old EXCEPT !.password = r, !.active = TRUE, !.verified = TRUE]
    BY <1>3 DEF Changed
  <2>2. [old EXCEPT !.password = r] \in Account /\ [old EXCEPT !.password = r].email = old.email
    BY <1>1 DEF Account
  <2> DEFINE a == [old EXCEPT !.password = r]
             b == [a EXCEPT !.active = TRUE]
  <2>3. b \in Account /\ b.email = old.email
    <3> HIDE DEF a
    <3>1. a \in Account /\ a.email = old.email
      BY <2>2 DEF a
    <3>2. QED
      BY <3>1 DEF Account
  <2>4. [b EXCEPT !.verified = TRUE] \in Account
        /\ [b EXCEPT !.verified = TRUE].email = old.email
    <3> HIDE DEF b
    <3>1. QED
      BY <2>3 DEF Account
  <2>5. Changed(r) = [b EXCEPT !.verified = TRUE]
    BY <2>1
  <2>6. QED
    BY <1>3, <2>4, <2>5 DEF Confirms
<1>4. CASE req[r].op = "reset_password"
  BY <1>1, <1>4 DEF Changed, Account, Confirms
<1>5. CASE req[r].op = "confirm_email_change"
  <2>1. Claimed(r) \in Emails
    BY <1>1, <1>5, PendingRow, OperationNames DEF Arrived, HoldsProof, HoldingProof, Claimed
  <2>2. Changed(r) = [old EXCEPT !.email = Claimed(r), !.verified = TRUE]
    BY <1>5 DEF Changed, Claimed
  <2> DEFINE a == [old EXCEPT !.email = Claimed(r)]
  <2>3. a \in Account /\ a.email = Claimed(r)
    BY <1>1, <2>1 DEF Account
  <2>4. [a EXCEPT !.verified = TRUE] \in Account
        /\ [a EXCEPT !.verified = TRUE].email = Claimed(r)
    <3> HIDE DEF a
    <3>1. QED
      BY <2>3 DEF Account
  <2>5. QED
    BY <1>5, <2>2, <2>4 DEF Confirms
<1>6. QED
  BY <1>2, <1>3, <1>4, <1>5

\* What the commit does to the codes: it consumes its own and its siblings.
Consumed(r) == {req[r].proof} \cup Siblings(r)

LEMMA ConsumedRows ==
    ASSUME IInv, NEW r \in Requests, Commit(r)
    PROVE  /\ proof' \in [Proofs -> ProofRow]
           /\ \A p \in Proofs :
                 /\ proof'[p].purpose = proof[p].purpose
                 /\ proof'[p].user = proof[p].user
                 /\ proof'[p].email = proof[p].email
                 /\ proof'[p].older = proof[p].older
                 /\ proof'[p].consumed = (proof[p].consumed \/ p \in Consumed(r))
           /\ \A p \in Proofs : Issued(p)' = Issued(p)
           /\ \A p \in Proofs \ Consumed(r) : proof'[p] = proof[p]
<1>1. /\ proof \in [Proofs -> ProofRow]
      /\ proof' = [p \in Proofs |->
                     IF p \in Consumed(r) THEN [proof[p] EXCEPT !.consumed = TRUE]
                                          ELSE proof[p]]
  BY DEF IInv, Types, Commit, Consumed
<1>2. ASSUME NEW p \in Proofs
      PROVE  LET new == [proof[p] EXCEPT !.consumed = TRUE]
             IN  /\ new \in ProofRow /\ new.consumed = TRUE
                 /\ new.purpose = proof[p].purpose /\ new.user = proof[p].user
                 /\ new.email = proof[p].email /\ new.older = proof[p].older
  BY <1>1 DEF ProofRow
<1>3. \A p \in Proofs : proof[p].consumed \in BOOLEAN
  BY <1>1 DEF ProofRow
<1> HIDE DEF Consumed
<1>4. proof' \in [Proofs -> ProofRow]
  BY <1>1, <1>2
<1>5. \A p \in Proofs :
                 /\ proof'[p].purpose = proof[p].purpose
                 /\ proof'[p].user = proof[p].user
                 /\ proof'[p].email = proof[p].email
                 /\ proof'[p].older = proof[p].older
  BY <1>1, <1>2
<1>6. ASSUME NEW p \in Proofs
      PROVE  proof'[p].consumed = (proof[p].consumed \/ p \in Consumed(r))
  <2>1. CASE p \in Consumed(r)
    BY <1>1, <1>2, <2>1
  <2>2. CASE p \notin Consumed(r)
    BY <1>1, <1>3, <2>2
  <2>3. QED
    BY <2>1, <2>2
<1>7. QED
  BY <1>1, <1>4, <1>5, <1>6 DEF Issued

LEMMA CommitKeeps ==
    ASSUME IInv, NEW r \in Requests, Commit(r)
    PROVE  IInv'
<1> DEFINE p == req[r].proof
           u == reads[r].user
<1>1. /\ pc[r] = "commit" /\ account' = [account EXCEPT ![u] = Changed(r)]
      /\ used' = used \cup {Event(r)} /\ pc' = [pc EXCEPT ![r] = "ok"]
      /\ Release(r) /\ UNCHANGED <<notified, req, reads>>
  BY DEF Commit
<1>2. /\ Types /\ Knows(r) /\ Arrived(r) /\ HoldsProof(r) /\ HoldsUser(r)
      /\ HoldsSiblings(r) /\ u \in Users /\ p \in Proofs /\ Pending(p)
      /\ userLock[u] = r /\ \A q \in Consumed(r) : proofLock[q] = r
  BY <1>1 DEF IInv, Knows, HoldsProof, HoldsUser, HoldsSiblings, Arrived, HoldingUser,
     HoldingProof, Consumed
<1>3. /\ Changed(r) \in Account
      /\ Changed(r).email = IF Confirms(r) THEN Claimed(r) ELSE account[u].email
  BY <1>1, ChangedAccount
<1>4. /\ account' \in [Users -> Account] /\ account'[u] = Changed(r)
      /\ \A v \in Users \ {u} : account'[v] = account[v]
  BY <1>1, <1>2, <1>3 DEF Types
<1>5. Event(r) \in UsedEvent
      /\ Event(r).user = u /\ Event(r).purpose = proof[p].purpose /\ Event(r).proof = p
  BY <1>1, <1>2, OperationNames DEF Event, UsedEvent, HoldsProof, Arrived, HoldingProof
<1>6. /\ proofLock' \in [Proofs -> Requests \cup {None}]
      /\ userLock' \in [Users -> Requests \cup {None}]
      /\ \A q \in Requests \ {r} : LocksKept(q)
  BY <1>1, <1>2, ReleaseKeeps
<1>7. pc'[r] = "ok" /\ \A q \in Requests \ {r} : LocalKept(q)
  BY <1>1, <1>2 DEF Types, LocalKept
<1>8. Types'
  BY <1>1, <1>2, <1>4, <1>5, <1>6, ConsumedRows DEF Types, Answered
<1>9. ASSUME NEW q \in Requests PROVE Knows(q)'
  <2>1. CASE q = r
    BY <1>7, <2>1, AnsweredKnows DEF Answered
  <2>2. CASE q # r
    <3>1. CodesKept(q)
      BY <1>2, <2>2, ConsumedRows DEF CodesKept, Pending, Issued
    <3>2. QED
      BY <1>1, <1>2, <1>4, <1>6, <1>7, <2>2, <3>1, Undisturbed
  <2>3. QED
    BY <2>1, <2>2
<1>10. ClaimsOK'
  <2>1. ASSUME NEW s \in Requests, Claiming(s)'
        PROVE  /\ s # r /\ Claiming(s) /\ Claimed(s)' = Claimed(s)
               /\ reads'[s] = reads[s]
    <3>1. s # r /\ Claiming(s)
      BY <1>1, <1>7, <2>1 DEF Claiming, Confirms, LocalKept
    <3>2. req[s].proof \in Proofs
      BY <3>1 DEF IInv, Knows, Arrived, Claiming, HoldingProof
    <3>3. QED
      BY <1>1, <3>1, <3>2, ConsumedRows DEF Claimed
  <2>2. ASSUME NEW s \in Requests, Claiming(s)'
        PROVE  ~TakenByOther(Claimed(s), reads[s].user)'
    <3> SUFFICES ASSUME NEW v \in Users \ {reads[s].user},
                        account'[v].email = Claimed(s)
                 PROVE  FALSE
      BY <2>1, <2>2 DEF TakenByOther
    <3>1. account[v].email # Claimed(s)
      BY <2>1, <2>2 DEF IInv, ClaimsOK, TakenByOther
    <3>2. v = u /\ Confirms(r) /\ Claimed(r) = Claimed(s)
      BY <1>3, <1>4, <3>1
    <3>3. Claiming(r)
      BY <1>1, <3>2 DEF Claiming
    <3>4. QED
      BY <2>1, <2>2, <3>2, <3>3 DEF IInv, ClaimsOK
  <2>3. QED
    BY <2>1, <2>2 DEF IInv, ClaimsOK
<1>11. \A q \in Proofs : RowOK(q)'
  <2> SUFFICES ASSUME NEW q \in Proofs PROVE RowOK(q)'
    OBVIOUS
  <2>1. CASE q \in Consumed(r)
    <3>1. Issued(q)
      BY <1>2, <2>1 DEF Consumed, Siblings, Pending
    <3>2. QED
      BY <3>1, PendingRow, ConsumedRows DEF RowOK
  <2>2. CASE q \notin Consumed(r)
    BY <2>2, ConsumedRows DEF IInv, RowOK
  <2>3. QED
    BY <2>1, <2>2
<1>12. EmailsAreUnique'
  <2> SUFFICES ASSUME NEW v \in Users, NEW w \in Users, v # w,
                      account'[v].email = account'[w].email
               PROVE  FALSE
    BY DEF EmailsAreUnique
  <2>1. account[v].email # account[w].email
    BY DEF IInv, EmailsAreUnique
  <2>2. Confirms(r)
    BY <1>3, <1>4, <2>1
  <2>3. ~TakenByOther(Claimed(r), u)
    BY <1>1, <2>2 DEF IInv, ClaimsOK, Claiming
  <2>4. QED
    BY <1>3, <1>4, <2>1, <2>2, <2>3 DEF TakenByOther
<1>13. UsedAreConsumed'
  <2>1. \A e \in used : e.proof \in Proofs
    BY <1>2 DEF Types, UsedEvent
  <2>2. p \in Consumed(r)
    BY DEF Consumed
  <2>3. proof[p].user = u
    BY <1>1, <1>2 DEF HoldsProof, HoldingProof
  <2>4. \A q \in Proofs : proof[q].consumed \/ q \in Consumed(r) => proof'[q].consumed
    BY ConsumedRows
  <2>5. ASSUME NEW e \in used
        PROVE  /\ proof'[e.proof].consumed
               /\ proof'[e.proof].purpose = e.purpose /\ proof'[e.proof].user = e.user
    BY <2>1, <2>4, ConsumedRows DEF IInv, UsedAreConsumed
  <2>6. /\ proof'[p].consumed
        /\ proof'[p].purpose = Event(r).purpose /\ proof'[p].user = Event(r).user
    BY <1>2, <1>5, <2>2, <2>3, <2>4, ConsumedRows
  <2>7. QED
    BY <1>1, <1>5, <2>5, <2>6 DEF UsedAreConsumed
<1>14. PendingAreNewer'
  <2> SUFFICES ASSUME NEW q \in Proofs, NEW f \in used', Pending(q)',
                      f.user = proof[q].user, f.purpose = proof[q].purpose
               PROVE  f \in proof[q].older
    BY ConsumedRows DEF PendingAreNewer
  <2>1. Pending(q) /\ q \notin Consumed(r)
    BY ConsumedRows DEF Pending
  <2>2. f # Event(r)
    <3>1. proof[p].purpose = Consumers[req[r].op]
      BY <1>1, <1>2 DEF HoldsProof, HoldingProof
    <3>2. QED
      BY <1>5, <2>1, <3>1 DEF Consumed, Siblings
  <2>3. QED
    BY <1>1, <2>1, <2>2 DEF IInv, PendingAreNewer
<1>15. OlderProofsDie'
  <2> SUFFICES ASSUME NEW e \in used', NEW f \in used', e # f, e.user = f.user,
                      e.purpose = f.purpose
               PROVE  e \in proof[f.proof].older \/ f \in proof[e.proof].older
    <3>1. \A g \in used' : g.proof \in Proofs
      BY <1>8 DEF Types, UsedEvent
    <3>2. QED
      BY <3>1, ConsumedRows DEF OlderProofsDie
  <2>1. \A g \in used : g.user = u /\ g.purpose = proof[p].purpose => g \in proof[p].older
    BY <1>1, <1>2 DEF IInv, PendingAreNewer, HoldsProof, HoldingProof
  <2>2. QED
    BY <1>1, <1>5, <2>1 DEF IInv, OlderProofsDie
<1>16. QED
  BY <1>8, <1>9, <1>10, <1>11, <1>12, <1>13, <1>14, <1>15 DEF IInv

\* The operator's page writes an address only while nobody claims it.
LEMMA SaveKeeps ==
    ASSUME IInv, NEW r \in Requests, Save(r)
    PROVE  IInv'
<1> DEFINE u == req[r].user
           row == reads[r].row
           new == [row EXCEPT !.email = req[r].email, !.verified = req[r].verified,
                              !.active = req[r].active]
<1>1. /\ pc[r] = "save" /\ Types /\ userLock[u] = None /\ Claimants(r, req[r].email) = {}
      /\ u \in Users /\ row \in Account /\ req[r].email \in Emails
  BY DEF Save, IInv, Knows, Arrived
<1>2. CASE Answer(r, "error")
  BY <1>2, AnswerKeeps DEF Answered
<1>3. CASE /\ ~TakenByOther(req[r].email, u)
           /\ account' = [account EXCEPT ![u] = new]
           /\ pc' = [pc EXCEPT ![r] = "ok"]
           /\ UNCHANGED <<proof, used, notified, locks, req, reads>>
  <2> DEFINE a == [row EXCEPT !.email = req[r].email]
             b == [a EXCEPT !.verified = req[r].verified]
  <2>1. req[r].verified \in BOOLEAN /\ req[r].active \in BOOLEAN
    BY <1>1 DEF Types, Request
  <2>2. a \in Account /\ a.email = req[r].email
    BY <1>1 DEF Account
  <2>3. b \in Account /\ b.email = req[r].email
    <3> HIDE DEF a
    <3>1. QED
      BY <2>1, <2>2 DEF Account
  <2>4. /\ [b EXCEPT !.active = req[r].active] \in Account
        /\ [b EXCEPT !.active = req[r].active].email = req[r].email
    <3> HIDE DEF b
    <3>1. QED
      BY <2>1, <2>3 DEF Account
  <2>5. new \in Account /\ new.email = req[r].email
    BY <2>4
  <2> HIDE DEF new, a, b
  <2>6. /\ account' \in [Users -> Account] /\ account'[u] = new
        /\ \A v \in Users \ {u} : account'[v] = account[v]
    BY <1>1, <1>3, <2>5 DEF Types
  <2>7. pc'[r] = "ok" /\ \A q \in Requests \ {r} : LocalKept(q)
    BY <1>1, <1>3 DEF Types, LocalKept
  <2>8. Types'
    BY <1>1, <1>3, <2>6 DEF Types, locks, Answered
  <2>9. ASSUME NEW q \in Requests PROVE Knows(q)'
    <3>1. CASE q = r
      BY <2>7, <3>1, AnsweredKnows DEF Answered
    <3>2. CASE q # r
      <4>1. LocksKept(q) /\ CodesKept(q)
        BY <1>3 DEF locks, LocksKept, CodesKept, Pending, Issued
      <4>2. \A v \in Users : userLock[v] = q => account'[v] = account[v]
        BY <1>1, <2>6, NoneAssumption
      <4>3. QED
        BY <1>3, <2>7, <3>2, <4>1, <4>2, Undisturbed
    <3>3. QED
      BY <3>1, <3>2
  <2>10. ClaimsOK'
    <3>1. ASSUME NEW s \in Requests, Claiming(s)'
          PROVE  /\ s # r /\ Claiming(s) /\ Claimed(s)' = Claimed(s)
                 /\ reads'[s] = reads[s]
      BY <1>3, <2>7, <3>1 DEF Claiming, Confirms, LocalKept, Claimed
    <3>2. ASSUME NEW s \in Requests, Claiming(s)'
          PROVE  ~TakenByOther(Claimed(s), reads[s].user)'
      <4>1. req[r].email # Claimed(s)
        BY <1>1, <3>1, <3>2 DEF Claimants, Claiming, Claimed
      <4>2. QED
        BY <2>5, <2>6, <3>1, <3>2, <4>1 DEF IInv, ClaimsOK, TakenByOther
    <3>3. QED
      BY <3>1, <3>2 DEF IInv, ClaimsOK
  <2>11. EmailsAreUnique'
    BY <1>3, <2>5, <2>6 DEF IInv, EmailsAreUnique, TakenByOther
  <2>12. /\ \A q \in Proofs : RowOK(q)'
         /\ UsedAreConsumed' /\ PendingAreNewer' /\ OlderProofsDie'
    BY <1>3 DEF IInv, RowOK, UsedAreConsumed, PendingAreNewer, OlderProofsDie, Pending,
       Issued
  <2>13. QED
    BY <2>8, <2>9, <2>10, <2>11, <2>12 DEF IInv
<1>4. QED
  BY <1>2, <1>3 DEF Save

LEMMA ExpireKeeps ==
    ASSUME IInv, NEW p \in Proofs, Expire(p)
    PROVE  IInv'
<1>1. /\ Issued(p) /\ proof' = [proof EXCEPT ![p].expired = TRUE]
      /\ UNCHANGED <<account, used, notified, proofLock, userLock, pc, req, reads>>
  BY DEF Expire, locks
<1>2. Types
  BY DEF IInv
<1>3. proof' \in [Proofs -> ProofRow]
  BY <1>1, <1>2 DEF Types, ProofRow
<1>4. \A q \in Proofs : /\ proof'[q].purpose = proof[q].purpose
                        /\ proof'[q].user = proof[q].user
                        /\ proof'[q].email = proof[q].email
                        /\ proof'[q].older = proof[q].older
                        /\ proof'[q].consumed = proof[q].consumed
                        /\ q # p => proof'[q] = proof[q]
  BY <1>1, <1>2 DEF Types, ProofRow
<1>5. Types'
  BY <1>1, <1>2, <1>3 DEF Types
<1>6. ASSUME NEW q \in Requests PROVE Knows(q)'
  <2>1. LocalKept(q) /\ LocksKept(q) /\ CodesKept(q)
    BY <1>1, <1>4 DEF LocalKept, LocksKept, CodesKept, Pending, Issued
  <2>2. QED
    BY <1>1, <2>1, Undisturbed
<1>7. ClaimsOK'
  <2>1. ASSUME NEW s \in Requests, Claiming(s)'
        PROVE  Claiming(s) /\ Claimed(s)' = Claimed(s)
    <3>1. Claiming(s)
      BY <1>1, <2>1 DEF Claiming, Confirms
    <3>2. req[s].proof \in Proofs
      BY <3>1 DEF IInv, Knows, Arrived, Claiming, HoldingProof
    <3>3. QED
      BY <1>1, <1>4, <3>1, <3>2 DEF Claimed
  <2>2. QED
    BY <1>1, <2>1 DEF IInv, ClaimsOK, TakenByOther
<1>8. \A q \in Proofs : RowOK(q)'
  BY <1>1, <1>4, PendingRow DEF IInv, RowOK
<1>9. EmailsAreUnique'
  BY <1>1 DEF IInv, EmailsAreUnique
<1>10. \A e \in used : e.proof \in Proofs
  BY <1>2 DEF Types, UsedEvent
<1>11. UsedAreConsumed' /\ PendingAreNewer' /\ OlderProofsDie'
  BY <1>1, <1>4, <1>10 DEF IInv, UsedAreConsumed, PendingAreNewer, OlderProofsDie, Pending,
     Issued
<1>12. QED
  BY <1>5, <1>6, <1>7, <1>8, <1>9, <1>11 DEF IInv

-----------------------------------------------------------------------------
LEMMA StepIInv == IInv /\ [Next]_vars => IInv'
<1> SUFFICES ASSUME IInv, [Next]_vars PROVE IInv'
  OBVIOUS
<1>1. CASE UNCHANGED vars
  BY <1>1 DEF vars, locks, IInv, Types, RowOK, Knows, Arrived, HoldsProof, HoldsUser,
     HoldsSiblings, Siblings, Notified, ClaimsOK, Claiming, Claimed, TakenByOther,
     Confirms, Pending, Issued, EmailsAreUnique, UsedAreConsumed, PendingAreNewer,
     OlderProofsDie
<1>2. ASSUME NEW r \in Requests, Arrival(r) PROVE IInv'
  BY <1>2, ArrivalKeeps
<1>3. ASSUME NEW r \in Requests, Statement(r) PROVE IInv'
  <2>1. CASE Find(r) \/ LockProof(r) \/ LockUser(r)
    BY <2>1, FindKeeps, LockProofKeeps, LockUserKeeps
  <2>2. CASE \E p \in Proofs : InsertProof(r, p)
    BY <2>2, InsertProofKeeps
  <2>3. CASE CheckEmail(r) \/ UpdateEmail(r) \/ CloseSiblings(r) \/ Notify(r)
    BY <2>3, CheckEmailKeeps, UpdateEmailKeeps, CloseSiblingsKeeps, NotifyKeeps
  <2>4. CASE Commit(r) \/ Load(r) \/ Save(r)
    BY <2>4, CommitKeeps, LoadKeeps, SaveKeeps
  <2>5. CASE DeadlockAbort(r)
    BY <2>5, AnswerKeeps DEF DeadlockAbort, Answered
  <2>6. QED
    BY <1>3, <2>1, <2>2, <2>3, <2>4, <2>5 DEF Statement
<1>4. ASSUME NEW r \in Requests, RefusePassword(r) \/ Crash(r) PROVE IInv'
  BY <1>4, AnswerKeeps DEF RefusePassword, Crash, Answered
<1>5. ASSUME NEW p \in Proofs, Expire(p) PROVE IInv'
  BY <1>5, ExpireKeeps
<1>6. CASE Quiescent
  BY <1>1, <1>6 DEF Quiescent
<1>7. QED
  BY <1>1, <1>2, <1>3, <1>4, <1>5, <1>6 DEF Next

THEOREM Invariance == Spec => []IInv
BY InitIInv, StepIInv, PTL DEF Spec

\* Rows, requests and locks always have their types: accounts keep an address,
\* and codes a purpose and an account, whatever the services write.
THEOREM TypeCorrect == Spec => []TypeOK
<1>1. IInv => TypeOK
  <2> SUFFICES ASSUME IInv PROVE TypeOK
    OBVIOUS
  <2>1. Types /\ \A p \in Proofs : RowOK(p)
    BY DEF IInv
  <2>2. \A r \in Requests : reads[r].user \in Users \cup {None}
    BY <2>1 DEF Types, Reads
  <2>3. QED
    BY <2>1, <2>2 DEF Types, TypeOK, RowOK
<1>2. QED
  BY <1>1, Invariance, PTL

\* A code mailed before another of its account and purpose was used is never
\* used itself, for any number of requests that hold such codes.
THEOREM OlderCodesDie == Spec => []OlderProofsDie
<1>1. IInv => OlderProofsDie
  BY DEF IInv
<1>2. QED
  BY <1>1, Invariance, PTL

\* No two accounts ever have one address, although every check of it is an
\* unlocked read and the operator's page writes what it showed.
THEOREM AddressesStayUnique == Spec => []EmailsAreUnique
<1>1. IInv => EmailsAreUnique
  BY DEF IInv
<1>2. QED
  BY <1>1, Invariance, PTL

-----------------------------------------------------------------------------
\* The steps that write accounts, codes or evidence.
LEMMA WhoWrites ==
    ASSUME [Next]_vars
    PROVE  \/ UNCHANGED <<account, proof, used>>
           \/ \E r \in Requests : \/ \E p \in Proofs : InsertProof(r, p)
                                  \/ Commit(r) \/ (Save(r) /\ ~Answer(r, "error"))
           \/ \E p \in Proofs : Expire(p)
<1>1. CASE UNCHANGED vars \/ Quiescent
  BY <1>1 DEF vars, Quiescent
<1>2. ASSUME NEW r \in Requests, NEW how, Answer(r, how)
      PROVE  UNCHANGED <<account, proof, used>>
  BY <1>2 DEF Answer
<1>3. ASSUME NEW r \in Requests, Arrival(r) PROVE UNCHANGED <<account, proof, used>>
  <2>1. \E request, first : Arrive(r, request, first)
    <3>1. ASSUME NEW email, RequestPasswordReset(r, email)
          PROVE  \E request, first : Arrive(r, request, first)
      BY <3>1 DEF RequestPasswordReset
    <3>2. ASSUME NEW u, IssueActivation(r, u)
          PROVE  \E request, first : Arrive(r, request, first)
      BY <3>2 DEF IssueActivation
    <3>3. ASSUME NEW u, NEW email, RequestEmailChange(r, u, email)
          PROVE  \E request, first : Arrive(r, request, first)
      BY <3>3 DEF RequestEmailChange
    <3>4. ASSUME NEW op, NEW u, NEW p, UseProof(r, op, u, p)
          PROVE  \E request, first : Arrive(r, request, first)
      BY <3>4 DEF UseProof
    <3>5. ASSUME NEW u, NEW email, NEW active, OperatorSave(r, u, email, active)
          PROVE  \E request, first : Arrive(r, request, first)
      BY <3>5 DEF OperatorSave
    <3>6. QED
      BY <1>3, <3>1, <3>2, <3>3, <3>4, <3>5 DEF Arrival
  <2>2. QED
    BY <2>1 DEF Arrive
<1>4. ASSUME NEW r \in Requests,
             \/ Find(r) \/ CheckEmail(r) \/ UpdateEmail(r) \/ Load(r)
      PROVE  UNCHANGED <<account, proof, used>>
  <2>1. (\E how : Answer(r, how)) \/ (\E next : Continue(r, next))
    BY <1>4 DEF Find, CheckEmail, UpdateEmail, Load
  <2>2. QED
    BY <1>2, <2>1 DEF Continue
<1>5. ASSUME NEW r \in Requests, LockProof(r) \/ LockUser(r)
      PROVE  UNCHANGED <<account, proof, used>>
  BY <1>2, <1>5 DEF LockProof, LockUser
<1>6. ASSUME NEW r \in Requests, CloseSiblings(r) \/ Notify(r)
      PROVE  UNCHANGED <<account, proof, used>>
  BY <1>6 DEF CloseSiblings, Notify
<1>7. ASSUME NEW r \in Requests, DeadlockAbort(r) \/ RefusePassword(r) \/ Crash(r)
      PROVE  UNCHANGED <<account, proof, used>>
  BY <1>2, <1>7 DEF DeadlockAbort, RefusePassword, Crash
<1>8. QED
  BY <1>1, <1>2, <1>3, <1>4, <1>5, <1>6, <1>7 DEF Next, Statement

\* Whoever confirms a new address, the message went to the one that it
\* replaces, also when the address had changed since the request arrived.
THEOREM ReplacedAddressNotified == Spec => OldAddressNotified
<1>1. IInv /\ [Next]_vars =>
        [\A e \in used' \ used : e.purpose = "email_change" =>
           [request |-> e.request, to |-> account[e.user].email] \in notified]_vars
  <2> SUFFICES ASSUME IInv, [Next]_vars, NEW e \in used' \ used,
                      e.purpose = "email_change"
               PROVE  [request |-> e.request, to |-> account[e.user].email] \in notified
    OBVIOUS
  <2>1. PICK r \in Requests : Commit(r)
    BY WhoWrites DEF InsertProof, Save, Expire, Answer
  <2>2. e = Event(r) /\ pc[r] = "commit"
    BY <2>1 DEF Commit
  <2>3. /\ e.request = r /\ e.user = reads[r].user /\ e.purpose = Consumers[req[r].op]
    BY <2>2 DEF Event
  <2>4. Confirms(r) /\ reads[r].email = account[reads[r].user].email
    BY <2>2, <2>3, OperationNames DEF IInv, Knows, Arrived, HoldsUser, HoldingUser,
       HoldingProof, Confirms
  <2>5. QED
    BY <2>2, <2>3, <2>4 DEF IInv, Knows, Notified
<1>2. QED
  BY <1>1, Invariance, PTL DEF Spec, OldAddressNotified

-----------------------------------------------------------------------------
(* AccountProofs implements AccountLedger: a commit uses a code, a saved    *)
(* page overrides an account, every other step but an insert is a stutter.  *)

Entry(p) == [state |-> IF ~Issued(p) THEN "unissued"
                       ELSE IF proof[p].consumed THEN "closed" ELSE "open",
             purpose |-> proof[p].purpose, user |-> proof[p].user,
             email |-> proof[p].email]

codes == [p \in Proofs |-> Entry(p)]

LEMMA LedgerRow ==
    ASSUME NEW p \in Proofs
    PROVE  /\ codes[p] = Entry(p)
           /\ codes[p].purpose = proof[p].purpose
           /\ codes[p].user = proof[p].user
           /\ codes[p].email = proof[p].email
           /\ codes[p].state = IF ~Issued(p) THEN "unissued"
                               ELSE IF proof[p].consumed THEN "closed" ELSE "open"
           /\ codes[p].state = "open" <=> Pending(p)
  BY DEF codes, Entry, Pending

LEMMA UnissuedRow ==
    ASSUME NEW p \in Proofs, proof[p] = NoProof
    PROVE  Entry(p) = Ledger!Unissued
  BY NoneAssumption DEF NoProof, Code, Entry, Issued, Ledger!Unissued

LEMMA InitLedger == Init => Ledger!Init
<1> SUFFICES ASSUME Init PROVE Ledger!Init
  OBVIOUS
<1>1. PICK start \in Starts : account = start.account /\ proof = start.proof
  BY DEF Init
<1>2. Ledger!EmailsUnique
  BY <1>1, StartsAssumption DEF Ledger!EmailsUnique
<1>3. ASSUME NEW p \in Proofs
      PROVE  Entry(p) = Ledger!Unissued \/ Ledger!Mailed(Entry(p))
  <2>1. CASE proof[p] = NoProof
    BY <2>1, UnissuedRow
  <2>2. CASE proof[p] \in Codes
    <3>1. proof[p].purpose \in Purposes /\ proof[p].user \in Users /\ ~proof[p].consumed
      BY <2>2, CodesAreRows DEF Codes, Code
    <3>2. Issued(p)
      BY <3>1, EmptyRecords DEF Issued
    <3>3. QED
      BY <3>1, <3>2 DEF Entry, Ledger!Mailed
  <2>3. QED
    BY <1>1, <2>1, <2>2, StartsAssumption
<1>4. QED
  BY <1>2, <1>3 DEF Ledger!Init, Entry

LEMMA IssueLedger ==
    ASSUME IInv, NEW r \in Requests, NEW p \in Proofs, InsertProof(r, p)
    PROVE  /\ codes[p] = Ledger!Unissued
           /\ Ledger!Mailed(codes'[p])
           /\ codes' = [codes EXCEPT ![p] = codes'[p]]
           /\ UNCHANGED account
<1> DEFINE code == Code(Issuers[req[r].op], reads[r].user,
               IF req[r].op = "request_email_change" THEN req[r].email ELSE None, used)
<1>1. /\ pc[r] = "insert" /\ ~Issued(p) /\ proof' = [proof EXCEPT ![p] = code]
      /\ UNCHANGED account
  BY DEF InsertProof
<1>2. Types /\ Arrived(r) /\ RowOK(p)
  BY DEF IInv, Knows
<1>3. code.purpose \in Purposes /\ code.user \in Users /\ ~code.consumed
  <2>1. req[r].op \in DOMAIN Issuers /\ reads[r].user \in Users
    BY <1>1, <1>2 DEF Arrived
  <2>2. QED
    BY <2>1, OperationNames DEF Code
<1> HIDE DEF code
<1>4. proof'[p] = code /\ \A q \in Proofs \ {p} : proof'[q] = proof[q]
  BY <1>1, <1>2 DEF Types
<1>5. proof[p] = NoProof
  BY <1>1, <1>2, EmptyRecords DEF RowOK, Issued
<1>6. Ledger!Mailed(Entry(p)')
  BY <1>3, <1>4, EmptyRecords DEF Ledger!Mailed, Entry, Issued
<1>7. \A q \in Proofs \ {p} : Entry(q)' = Entry(q)
  BY <1>4 DEF Entry, Issued
<1>8. QED
  BY <1>1, <1>5, <1>6, <1>7, UnissuedRow DEF codes

\* What Changed writes is what the ledger lets a code of the purpose change.
LEMMA ChangeLedger ==
    ASSUME IInv, NEW r \in Requests, pc[r] = "commit"
    PROVE  Ledger!Change(Consumers[req[r].op], account[reads[r].user], Changed(r),
                         Claimed(r))
<1> DEFINE old == account[reads[r].user]
           new == Changed(r)
<1>1. /\ Types /\ Arrived(r) /\ HoldsUser(r) /\ reads[r].user \in Users
      /\ old \in Account
  BY DEF IInv, Knows, HoldsProof, HoldingProof, Types
<1>2. req[r].op \in {"activate_account", "reset_password", "confirm_email_change"}
  BY <1>1, OperationNames DEF Arrived, HoldingProof
<1>3. CASE req[r].op = "activate_account"
  <2>1. ~old.active /\ ~old.verified
    BY <1>1, <1>3 DEF HoldsUser, HoldingUser, HoldingProof
  <2>2. new = [old EXCEPT !.password = r, !.active = TRUE, !.verified = TRUE]
    BY <1>3 DEF Changed
  <2>3. new.password = r
    <3> DEFINE a == [old EXCEPT !.password = r]
               b == [a EXCEPT !.active = TRUE]
    <3>1. a.password = r /\ a \in Account
      BY <1>1 DEF Account
    <3>2. b.password = r /\ b \in Account
      <4> HIDE DEF a
      <4> QED
        BY <3>1 DEF Account
    <3>3. [b EXCEPT !.verified = TRUE].password = r
      <4> HIDE DEF b
      <4> QED
        BY <3>2 DEF Account
    <3>4. QED
      BY <2>2, <3>3
  <2>4. Consumers[req[r].op] = "activation"
    BY <1>3 DEF Consumers
  <2> HIDE DEF old, new
  <2>5. Ledger!Change("activation", old, new, Claimed(r))
    BY <2>1, <2>2, <2>3 DEF Ledger!Change
  <2>6. QED
    BY <2>4, <2>5 DEF old, new
<1>4. CASE req[r].op = "reset_password"
  <2>1. new = [old EXCEPT !.password = r]
    BY <1>4 DEF Changed
  <2>2. new.password = r
    BY <1>1, <2>1 DEF Account
  <2>3. Consumers[req[r].op] = "password_reset"
    BY <1>4 DEF Consumers
  <2> HIDE DEF old, new
  <2>4. Ledger!Change("password_reset", old, new, Claimed(r))
    BY <2>1, <2>2 DEF Ledger!Change
  <2>5. QED
    BY <2>3, <2>4 DEF old, new
<1>5. CASE req[r].op = "confirm_email_change"
  <2>1. new = [old EXCEPT !.email = Claimed(r), !.verified = TRUE]
    BY <1>5 DEF Changed, Claimed
  <2>2. Consumers[req[r].op] = "email_change"
    BY <1>5 DEF Consumers
  <2> HIDE DEF old, new
  <2>3. Ledger!Change("email_change", old, new, Claimed(r))
    BY <2>1 DEF Ledger!Change
  <2>4. QED
    BY <2>2, <2>3 DEF old, new
<1>6. QED
  BY <1>2, <1>3, <1>4, <1>5

\* A commit closes exactly the open codes of its account and purpose.
LEMMA ClosedLedger ==
    ASSUME IInv, NEW r \in Requests, Commit(r), NEW p \in Proofs, p = req[r].proof
    PROVE  codes' = [q \in Proofs |->
              IF /\ codes[q].state = "open" /\ codes[q].user = codes[p].user
                 /\ codes[q].purpose = codes[p].purpose
                 THEN [codes[q] EXCEPT !.state = "closed"] ELSE codes[q]]
<1> DEFINE closed(q) == /\ codes[q].state = "open" /\ codes[q].user = codes[p].user
                        /\ codes[q].purpose = codes[p].purpose
<1>1. /\ p \in Proofs /\ Pending(p) /\ proof[p].user = reads[r].user
      /\ proof[p].purpose = Consumers[req[r].op]
  BY DEF Commit, IInv, Knows, Arrived, HoldsProof, HoldingProof
<1>2. \A q \in Proofs : closed(q) <=> q \in Consumed(r)
  BY <1>1, LedgerRow DEF Consumed, Siblings, Pending
<1>3. ASSUME NEW q \in Proofs
      PROVE  Entry(q)' = IF q \in Consumed(r)
                            THEN [codes[q] EXCEPT !.state = "closed"] ELSE codes[q]
  <2>1. /\ proof'[q].purpose = proof[q].purpose /\ proof'[q].user = proof[q].user
        /\ proof'[q].email = proof[q].email /\ Issued(q)' = Issued(q)
    BY ConsumedRows
  <2>2. CASE q \in Consumed(r)
    <3>1. Issued(q) /\ proof'[q].consumed
      BY <1>1, <2>2, ConsumedRows DEF Consumed, Siblings, Pending
    <3>2. Entry(q)' = [state |-> "closed", purpose |-> proof[q].purpose,
                       user |-> proof[q].user, email |-> proof[q].email]
      BY <2>1, <3>1 DEF Entry
    <3>3. [Entry(q) EXCEPT !.state = "closed"] =
             [state |-> "closed", purpose |-> proof[q].purpose,
              user |-> proof[q].user, email |-> proof[q].email]
      BY DEF Entry
    <3>4. QED
      BY <2>2, <3>2, <3>3, LedgerRow
  <2>3. CASE q \notin Consumed(r)
    BY <2>3, ConsumedRows, LedgerRow DEF Entry, Issued
  <2>4. QED
    BY <2>2, <2>3
<1>4. codes' = [q \in Proofs |-> Entry(q)']
  BY DEF codes
<1> HIDE DEF closed
<1>5. codes' = [q \in Proofs |->
         IF closed(q) THEN [codes[q] EXCEPT !.state = "closed"] ELSE codes[q]]
  BY <1>2, <1>3, <1>4
<1>6. QED
  BY <1>5 DEF closed

ledgerVars == <<account, codes>>

LEMMA StepLedger == IInv /\ IInv' /\ [Next]_vars => [Ledger!Next]_ledgerVars
<1> SUFFICES ASSUME IInv, IInv', [Next]_vars
             PROVE  Ledger!Next \/ ledgerVars' = ledgerVars
  OBVIOUS
<1> USE DEF ledgerVars
<1>1. CASE UNCHANGED <<account, proof, used>>
  BY <1>1 DEF codes, Entry, Issued
<1>2. ASSUME NEW r \in Requests, NEW p \in Proofs, InsertProof(r, p)
      PROVE  Ledger!Next
  BY <1>2, IssueLedger DEF Ledger!Next, Ledger!Issue, codes, Entry
<1>3. ASSUME NEW r \in Requests, Commit(r)
      PROVE  Ledger!Next
  <2> DEFINE u == reads[r].user
  <2>1. PICK p \in Proofs : p = req[r].proof /\ Pending(p) /\ proof[p].user = u
                            /\ u \in Users /\ proof[p].purpose = Consumers[req[r].op]
    BY <1>3 DEF Commit, IInv, Knows, Arrived, HoldsProof, HoldingProof
  <2>2. account' = [account EXCEPT ![u] = account'[u]] /\ account'[u] = Changed(r)
    BY <1>3, <2>1 DEF Commit, IInv, Types
  <2>3. codes[p].state = "open" /\ codes[p].user = u
        /\ codes[p].purpose = Consumers[req[r].op] /\ codes[p].email = Claimed(r)
    BY <2>1, LedgerRow DEF Claimed
  <2>4. Ledger!Change(codes[p].purpose, account[u], account'[u], codes[p].email)
    BY <1>3, <2>2, <2>3, ChangeLedger DEF Commit
  <2>5. Ledger!EmailsUnique'
    BY DEF IInv, EmailsAreUnique, Ledger!EmailsUnique
  <2>6. codes' = [q \in Proofs |->
            IF /\ codes[q].state = "open" /\ codes[q].user = codes[p].user
               /\ codes[q].purpose = codes[p].purpose
               THEN [codes[q] EXCEPT !.state = "closed"] ELSE codes[q]]
    BY <1>3, <2>1, ClosedLedger
  <2>7. Ledger!Use(p)
    BY <2>2, <2>3, <2>4, <2>5, <2>6 DEF Ledger!Use, Ledger!Open, codes, Entry
  <2>8. QED
    BY <2>7 DEF Ledger!Next
<1>4. ASSUME NEW r \in Requests, Save(r), ~Answer(r, "error")
      PROVE  Ledger!Next
  <2> DEFINE u == req[r].user
  <2>1. u \in Users
    BY <1>4 DEF Save, IInv, Knows, Arrived
  <2>2. account' = [account EXCEPT ![u] = account'[u]] /\ UNCHANGED proof
    BY <1>4, <2>1 DEF Save, IInv, Types
  <2>3. Ledger!EmailsUnique'
    BY DEF IInv, EmailsAreUnique, Ledger!EmailsUnique
  <2>4. codes' = codes
    BY <2>2 DEF codes, Entry, Issued
  <2>5. Ledger!Override(u)
    BY <2>2, <2>3, <2>4 DEF Ledger!Override, codes, Entry
  <2>6. QED
    BY <2>1, <2>5 DEF Ledger!Next
<1>5. ASSUME NEW p \in Proofs, Expire(p)
      PROVE  ledgerVars' = ledgerVars
  <2>1. account' = account /\ proof' = [proof EXCEPT ![p].expired = TRUE]
    BY <1>5 DEF Expire
  <2>2. \A q \in Proofs : Entry(q)' = Entry(q)
    BY <2>1 DEF IInv, Types, ProofRow, Entry, Issued
  <2>3. QED
    BY <2>1, <2>2 DEF codes
<1>6. QED
  BY <1>1, <1>2, <1>3, <1>4, <1>5, WhoWrites

\* For any number of requests, accounts and codes, using a code changes its
\* account as the ledger lets its purpose change it and closes the codes mailed
\* before, and nothing else but the operator's page changes an account.
THEOREM Refinement == Spec => ImplementsLedger
<1>1. Init => Ledger!Init
  BY InitLedger
<1>2. IInv /\ IInv' /\ [Next]_vars => [Ledger!Next]_ledgerVars
  BY StepLedger
<1>3. QED
  BY <1>1, <1>2, Invariance, PTL
     DEF Spec, ImplementsLedger, Ledger!Spec, ledgerVars, codes, Entry

-----------------------------------------------------------------------------
(* Deadlocks.  OwnsInv is the converse of what Knows says of locks: a lock *)
(* is held only by a request that its statement needs it for.              *)

Owns(r) ==
    /\ \A p \in Proofs : proofLock[p] = r =>
          /\ pc[r] \in HoldingProof
          /\ p = req[r].proof \/ pc[r] \in {"notify", "commit"}
    /\ \A u \in Users : userLock[u] = r => pc[r] \in HoldingUser /\ reads[r].user = u

OwnsInv == \A r \in Requests : Owns(r)

LEMMA InitOwns == Init => OwnsInv
  BY NoneAssumption DEF Init, OwnsInv, Owns

\* Locks go from or to the request that takes the step.
LEMMA OwnsStep ==
    ASSUME OwnsInv, NEW r \in Requests,
           \A q \in Requests \ {r} : /\ pc'[q] = pc[q] /\ req'[q] = req[q]
                                     /\ reads'[q] = reads[q],
           \A p \in Proofs : proofLock'[p] \in {proofLock[p], None, r},
           \A u \in Users : userLock'[u] \in {userLock[u], None, r},
           Owns(r)'
    PROVE  OwnsInv'
<1>1. ASSUME NEW q \in Requests \ {r} PROVE Owns(q)'
  <2>1. Owns(q) /\ q # None /\ q # r
    BY NoneAssumption DEF OwnsInv
  <2>2. \A p \in Proofs : proofLock'[p] = q => proofLock[p] = q
    BY <2>1
  <2>3. \A u \in Users : userLock'[u] = q => userLock[u] = q
    BY <2>1
  <2>4. QED
    BY <2>1, <2>2, <2>3 DEF Owns
<1>2. QED
  BY <1>1 DEF OwnsInv

LEMMA AnswerOwns ==
    ASSUME IInv, OwnsInv, NEW r \in Requests, NEW how, Answer(r, how)
    PROVE  OwnsInv'
<1>1. \A p \in Proofs : proofLock'[p] = IF proofLock[p] = r THEN None ELSE proofLock[p]
  BY DEF Answer, Release
<1>2. \A u \in Users : userLock'[u] = IF userLock[u] = r THEN None ELSE userLock[u]
  BY DEF Answer, Release
<1>3. \A q \in Requests \ {r} : pc'[q] = pc[q] /\ req'[q] = req[q] /\ reads'[q] = reads[q]
  BY DEF Answer, IInv, Types
<1>4. r # None
  BY NoneAssumption
<1>5. Owns(r)'
  BY <1>1, <1>2, <1>4 DEF Owns
<1>6. QED
  BY <1>1, <1>2, <1>3, <1>5, OwnsStep

\* A statement that takes no lock, of a request that goes on or ends without any.
LEMMA KeepsOwns ==
    ASSUME IInv, OwnsInv, NEW r \in Requests, NEW next, pc' = [pc EXCEPT ![r] = next],
           UNCHANGED locks, req'[r].proof = req[r].proof \/ pc[r] \notin HoldingProof,
           \A q \in Requests \ {r} : req'[q] = req[q] /\ reads'[q] = reads[q],
           \/ pc[r] \notin HoldingProof
           \/ /\ reads'[r].user = reads[r].user
              /\ next \in HoldingProof
              /\ pc[r] \in HoldingUser => next \in HoldingUser
              /\ pc[r] \in {"notify", "commit"} => next \in {"notify", "commit"}
    PROVE  OwnsInv'
<1>1. pc'[r] = next /\ \A q \in Requests \ {r} : pc'[q] = pc[q]
  BY DEF IInv, Types
<1>2. UNCHANGED <<proofLock, userLock>> /\ Owns(r)
  BY DEF locks, OwnsInv
<1>3. Owns(r)'
  BY <1>1, <1>2 DEF Owns, HoldingUser
<1>4. QED
  BY <1>1, <1>2, <1>3, OwnsStep

LEMMA LockProofOwns ==
    ASSUME IInv, OwnsInv, NEW r \in Requests, LockProof(r) PROVE OwnsInv'
<1>1. CASE Answer(r, "invalid")
  BY <1>1, AnswerOwns
<1>2. CASE /\ proofLock' = [proofLock EXCEPT ![req[r].proof] = r]
           /\ reads' = [reads EXCEPT ![r].user = proof[req[r].proof].user]
           /\ pc' = [pc EXCEPT ![r] = "lockUser"]
           /\ UNCHANGED <<account, proof, used, notified, userLock, req>>
  <2>1. Owns(r) /\ pc[r] = "lockProof"
    BY DEF OwnsInv, LockProof
  <2>2. /\ pc'[r] = "lockUser"
        /\ \A q \in Requests \ {r} : pc'[q] = pc[q] /\ reads'[q] = reads[q]
    BY <1>2 DEF IInv, Types
  <2>3. \A p \in Proofs : proofLock'[p] = IF p = req[r].proof THEN r ELSE proofLock[p]
    BY <1>2 DEF IInv, Types
  <2>4. Owns(r)'
    BY <1>2, <2>1, <2>2, <2>3 DEF Owns, HoldingProof, HoldingUser
  <2>5. QED
    BY <1>2, <2>2, <2>3, <2>4, OwnsStep
<1>3. QED
  BY <1>1, <1>2 DEF LockProof

LEMMA LockUserOwns ==
    ASSUME IInv, OwnsInv, NEW r \in Requests, LockUser(r) PROVE OwnsInv'
<1>1. CASE Answer(r, "invalid")
  BY <1>1, AnswerOwns
<1>2. CASE /\ userLock' = [userLock EXCEPT ![reads[r].user] = r]
           /\ reads' = [reads EXCEPT ![r].email = account[reads[r].user].email]
           /\ pc' = [pc EXCEPT ![r] = IF Confirms(r) THEN "checkEmail" ELSE "siblings"]
           /\ UNCHANGED <<account, proof, used, notified, proofLock, req>>
  <2>1. Owns(r) /\ pc[r] = "lockUser" /\ reads[r] \in Reads
    BY DEF OwnsInv, LockUser, IInv, Types
  <2>2. /\ pc'[r] \in {"checkEmail", "siblings"} /\ reads'[r].user = reads[r].user
        /\ \A q \in Requests \ {r} : pc'[q] = pc[q] /\ reads'[q] = reads[q]
    BY <1>2, <2>1 DEF IInv, Types, Reads
  <2>3. \A u \in Users : userLock'[u] = IF u = reads[r].user THEN r ELSE userLock[u]
    BY <1>2 DEF IInv, Types
  <2>4. Owns(r)'
    BY <1>2, <2>1, <2>2, <2>3 DEF Owns, HoldingProof, HoldingUser
  <2>5. QED
    BY <1>2, <2>2, <2>3, <2>4, OwnsStep
<1>3. QED
  BY <1>1, <1>2 DEF LockUser

LEMMA CloseSiblingsOwns ==
    ASSUME IInv, OwnsInv, NEW r \in Requests, CloseSiblings(r) PROVE OwnsInv'
<1>1. /\ pc[r] = "siblings" /\ Owns(r)
      /\ proofLock' = [p \in Proofs |-> IF p \in Siblings(r) THEN r ELSE proofLock[p]]
      /\ pc' = [pc EXCEPT ![r] = IF Confirms(r) THEN "notify" ELSE "commit"]
      /\ UNCHANGED <<account, proof, used, notified, userLock, req, reads>>
  BY DEF CloseSiblings, OwnsInv
<1>2. pc'[r] \in {"notify", "commit"} /\ \A q \in Requests \ {r} : pc'[q] = pc[q]
  BY <1>1 DEF IInv, Types
<1>3. Owns(r)'
  BY <1>1, <1>2 DEF Owns, HoldingProof, HoldingUser
<1>4. \A p \in Proofs : proofLock'[p] \in {proofLock[p], None, r}
  BY <1>1
<1>5. QED
  BY <1>1, <1>2, <1>3, <1>4, OwnsStep

LEMMA CommitOwns ==
    ASSUME IInv, OwnsInv, NEW r \in Requests, Commit(r) PROVE OwnsInv'
<1>1. \A p \in Proofs : proofLock'[p] = IF proofLock[p] = r THEN None ELSE proofLock[p]
  BY DEF Commit, Release
<1>2. \A u \in Users : userLock'[u] = IF userLock[u] = r THEN None ELSE userLock[u]
  BY DEF Commit, Release
<1>3. \A q \in Requests \ {r} : pc'[q] = pc[q] /\ req'[q] = req[q] /\ reads'[q] = reads[q]
  BY DEF Commit, IInv, Types
<1>4. r # None
  BY NoneAssumption
<1>5. Owns(r)'
  BY <1>1, <1>2, <1>4 DEF Owns
<1>6. QED
  BY <1>1, <1>2, <1>3, <1>5, OwnsStep

LEMMA ArrivalOwns ==
    ASSUME IInv, OwnsInv, NEW r \in Requests, Arrival(r) PROVE OwnsInv'
<1>1. PICK request, first : Arrive(r, request, first)
  BY DEF Arrival, RequestPasswordReset, IssueActivation, RequestEmailChange, UseProof, OperatorSave
<1>2. /\ pc[r] = "idle" /\ pc' = [pc EXCEPT ![r] = first] /\ UNCHANGED <<locks, reads>>
      /\ req' = [req EXCEPT ![r] = request]
  BY <1>1 DEF Arrive
<1>3. \A q \in Requests \ {r} : req'[q] = req[q]
  BY <1>2 DEF IInv, Types
<1>4. QED
  BY <1>2, <1>3, KeepsOwns DEF HoldingProof

LEMMA ReadsOwns ==
    ASSUME IInv, OwnsInv, NEW r \in Requests,
           \/ Find(r) \/ \E p \in Proofs : InsertProof(r, p)
           \/ CheckEmail(r) \/ UpdateEmail(r) \/ Notify(r) \/ Load(r) \/ Save(r)
    PROVE  OwnsInv'
<1>1. ASSUME NEW how, Answer(r, how) PROVE OwnsInv'
  BY <1>1, AnswerOwns
<1>2. ASSUME NEW next, Continue(r, next), UNCHANGED reads,
             pc[r] \in {"checkEmail", "updateEmail"}, next \in {"updateEmail", "siblings"}
      PROVE  OwnsInv'
  BY <1>2, KeepsOwns DEF Continue, HoldingProof, HoldingUser
<1>3. ASSUME NEW next, Continue(r, next), pc[r] \in {"find", "load"},
             \A q \in Requests \ {r} : reads'[q] = reads[q]
      PROVE  OwnsInv'
  BY <1>3, KeepsOwns DEF Continue, HoldingProof
<1>4. CASE Find(r)
  BY <1>1, <1>3, <1>4 DEF Find, IInv, Types
<1>5. CASE \E p \in Proofs : InsertProof(r, p)
  BY <1>5, KeepsOwns DEF InsertProof, HoldingProof
<1>6. CASE CheckEmail(r)
  BY <1>1, <1>2, <1>6 DEF CheckEmail
<1>7. CASE UpdateEmail(r)
  BY <1>1, <1>2, <1>7 DEF UpdateEmail
<1>8. CASE Notify(r)
  BY <1>8, KeepsOwns DEF Notify, HoldingProof, HoldingUser
<1>9. CASE Load(r)
  BY <1>1, <1>3, <1>9 DEF Load, IInv, Types
<1>10. CASE Save(r)
  BY <1>1, <1>10, KeepsOwns DEF Save, HoldingProof
<1>11. QED
  BY <1>4, <1>5, <1>6, <1>7, <1>8, <1>9, <1>10

LEMMA StepOwns == IInv /\ OwnsInv /\ [Next]_vars => OwnsInv'
<1> SUFFICES ASSUME IInv, OwnsInv, [Next]_vars PROVE OwnsInv'
  OBVIOUS
<1>1. CASE UNCHANGED vars
  BY <1>1 DEF vars, locks, OwnsInv, Owns
<1>2. ASSUME NEW r \in Requests, Statement(r) PROVE OwnsInv'
  <2>1. DeadlockAbort(r) => OwnsInv'
    BY AnswerOwns DEF DeadlockAbort
  <2>2. QED
    BY <1>2, <2>1, ReadsOwns, LockProofOwns, LockUserOwns, CloseSiblingsOwns, CommitOwns
       DEF Statement
<1>3. ASSUME NEW r \in Requests, Arrival(r) PROVE OwnsInv'
  BY <1>3, ArrivalOwns
<1>4. ASSUME NEW r \in Requests, RefusePassword(r) \/ Crash(r) PROVE OwnsInv'
  BY <1>4, AnswerOwns DEF RefusePassword, Crash
<1>5. ASSUME NEW p \in Proofs, Expire(p) PROVE OwnsInv'
  BY <1>5 DEF Expire, locks, OwnsInv, Owns
<1>6. QED
  BY <1>1, <1>2, <1>3, <1>4, <1>5 DEF Next, Quiescent

-----------------------------------------------------------------------------
\* Whoever a request waits for holds something; only these three statements do
\* both, and only the second of them takes further locks of other kinds.
LEMMA Blockers ==
    ASSUME IInv, OwnsInv, NEW r \in Requests, NEW q \in Requests, q # r, q \in BlockedBy(r)
    PROVE  /\ pc[q] \in HoldingProof
           /\ pc[r] = "lockUser" => pc[q] \in HoldingUser /\ userLock[reads[r].user] = q
           /\ pc[r] = "updateEmail" => pc[q] \in {"siblings", "notify", "commit"}
           /\ pc[r] = "siblings" =>
                 \/ pc[q] \in {"notify", "commit"}
                 \/ /\ pc[q] = "lockUser" /\ req[q].op = req[r].op
                    /\ reads[q].user = reads[r].user
                    /\ userLock[reads[q].user] = r
<1>1. Knows(r) /\ Knows(q) /\ Owns(q) /\ q # None
  BY NoneAssumption DEF IInv, OwnsInv
<1>2. ASSUME NEW email, q \in Claimants(r, email)
      PROVE  pc[q] \in {"siblings", "notify", "commit"}
  BY <1>2 DEF Claimants
<1>3. CASE pc[r] = "lockProof"
  BY <1>1, <1>3 DEF BlockedBy, Owns, Knows, Arrived
<1>4. CASE pc[r] = "insert"
  BY <1>1, <1>4 DEF BlockedBy, Owns, Knows, Arrived, HoldingUser
<1>5. CASE pc[r] = "lockUser"
  BY <1>1, <1>5 DEF BlockedBy, Owns, Knows, HoldsProof, HoldingProof, HoldingUser
<1>6. CASE pc[r] = "save"
  BY <1>1, <1>2, <1>6 DEF BlockedBy, Owns, Knows, Arrived, HoldingUser, HoldingProof
<1>7. CASE pc[r] = "updateEmail"
  BY <1>2, <1>7 DEF BlockedBy, HoldingProof
<1>8. CASE pc[r] = "siblings"
  <2>1. PICK p \in Siblings(r) : proofLock[p] = q
    BY <1>8 DEF BlockedBy
  <2>2. /\ p \in Proofs /\ proof[p].user = reads[r].user
        /\ proof[p].purpose = Consumers[req[r].op]
    BY <2>1 DEF Siblings
  <2>3. pc[q] \in HoldingProof /\ (p = req[q].proof \/ pc[q] \in {"notify", "commit"})
    BY <1>1, <2>1, <2>2 DEF Owns
  <2>4. userLock[reads[r].user] = r /\ req[r].op \in DOMAIN Consumers
    BY <1>1, <1>8 DEF Knows, HoldsUser, Arrived, HoldingUser, HoldingProof
  <2>5. CASE pc[q] \notin {"notify", "commit"}
    <3>1. /\ p = req[q].proof /\ proof[p].purpose = Consumers[req[q].op]
          /\ proof[p].user = reads[q].user /\ req[q].op \in DOMAIN Consumers
      BY <1>1, <2>3, <2>5 DEF Knows, HoldsProof, Arrived
    <3>2. req[q].op = req[r].op
      BY <2>2, <2>4, <3>1 DEF Consumers
    <3>3. pc[q] \notin HoldingUser
      BY <1>1, <2>2, <2>4, <3>1 DEF Knows, HoldsUser
    <3>4. QED
      BY <1>8, <2>2, <2>3, <2>4, <3>1, <3>2, <3>3 DEF HoldingUser
  <2>6. QED
    BY <1>8, <2>3, <2>5
<1>9. QED
  BY <1>3, <1>4, <1>5, <1>6, <1>7, <1>8 DEF BlockedBy

\* Requests deadlock in pairs, however many there are: one that closes the other
\* codes of an account, and one that has locked such a code and waits for the
\* account's row.
THEOREM DeadlocksArePairs == Spec => []DeadlocksAreSiblings
<1>1. ASSUME IInv, OwnsInv PROVE DeadlocksAreSiblings
  <2> SUFFICES ASSUME NEW S \in SUBSET Requests, Cycle(S)
               PROVE  \A r, s \in S : /\ req[r].op \in DOMAIN Consumers
                                      /\ req[r].op = req[s].op
                                      /\ reads[r].user = reads[s].user
    BY DEF DeadlocksAreSiblings
  <2>1. /\ S # {} /\ \A r \in S : \E q \in S \ {r} : q \in BlockedBy(r)
        /\ \A T \in SUBSET S : T \notin {{}, S} => ~Waits(T)
    BY DEF Cycle, Waits
  <2>2. \A r \in S : BlockedBy(r) # {}
    BY <2>1
  <2>3. \A r \in S : pc[r] \in {"lockProof", "lockUser", "insert", "save", "updateEmail",
                                "siblings"}
    BY <2>2 DEF BlockedBy
  <2>4. ASSUME NEW r \in S PROVE pc[r] \in HoldingProof
    <3> SUFFICES ASSUME pc[r] \notin HoldingProof PROVE FALSE
      OBVIOUS
    <3>1. \A s \in S \ {r} : r \notin BlockedBy(s)
      BY Blockers, <1>1
    <3>2. Waits(S \ {r})
      BY <2>1, <3>1 DEF Waits
    <3>3. S \ {r} # {}
      BY <2>1
    <3>4. QED
      BY <2>1, <3>2, <3>3
  <2>5. \A r \in S : pc[r] \in {"lockUser", "updateEmail", "siblings"}
    BY <2>3, <2>4 DEF HoldingProof
  <2>6. \E q \in S : pc[q] = "siblings"
    <3>1. PICK r \in S : TRUE
      BY <2>1
    <3>2. PICK q \in S \ {r} : q \in BlockedBy(r)
      BY <2>1
    <3>3. pc[r] = "siblings" \/ pc[q] \in {"updateEmail", "siblings"}
      BY <1>1, <2>5, <3>2, Blockers DEF HoldingUser, HoldingProof
    <3>4. CASE pc[q] = "updateEmail"
      <4>1. PICK s \in S \ {q} : s \in BlockedBy(q)
        BY <2>1
      <4>2. QED
        BY <1>1, <2>5, <3>4, <4>1, Blockers
    <3>5. QED
      BY <3>3, <3>4
  <2>7. PICK q \in S : pc[q] = "siblings"
    BY <2>6
  <2>8. PICK s \in S \ {q} : s \in BlockedBy(q)
    BY <2>1
  <2>9. /\ pc[s] = "lockUser" /\ req[s].op = req[q].op /\ reads[s].user = reads[q].user
        /\ userLock[reads[s].user] = q
    BY <1>1, <2>5, <2>7, <2>8, Blockers
  <2>10. q \in BlockedBy(s)
    BY <2>9 DEF BlockedBy
  <2>11. Waits({q, s})
    BY <2>8, <2>10 DEF Waits
  <2>12. S = {q, s}
    BY <2>1, <2>8, <2>11
  <2>13. req[q].op \in DOMAIN Consumers
    BY <1>1, <2>7 DEF IInv, Knows, Arrived, HoldingProof
  <2>14. QED
    BY <2>9, <2>12, <2>13
<1>2. QED
  BY <1>1, Invariance, InitOwns, StepOwns, PTL DEF Spec

-----------------------------------------------------------------------------
(* Progress.  That requests are answered rests on two facts: nothing can    *)
(* keep a request busy for ever, and requests never all wait.               *)

\* Statements a request has ahead of it, the one it runs next included, at most.
AheadAt(statement) ==
    CASE statement = "lockProof" -> 7
      [] statement = "lockUser" -> 6
      [] statement = "checkEmail" -> 5
      [] statement = "updateEmail" -> 4
      [] statement = "siblings" -> 3
      [] statement \in {"notify", "find", "load"} -> 2
      [] statement \in {"commit", "insert", "save"} -> 1
      [] OTHER -> 0

Ahead(r) == AheadAt(pc[r])

Moves(r) == Statement(r) \/ RefusePassword(r) \/ Crash(r)

\* Every statement brings its request closer to an answer, and nothing that
\* others do takes a request further from it or reopens one that was answered:
\* no request has more than seven statements.
StatementsRunOut ==
    [][\A r \in Requests :
          /\ Moves(r) => Ahead(r)' < Ahead(r)
          /\ pc[r] # "idle" => Ahead(r)' < Ahead(r) \/ pc'[r] = pc[r]
          /\ pc[r] \in Answered => pc'[r] = pc[r]]_vars

\* From one statement to the next.
GoesOn(a, b) ==
    \/ a = "find" /\ b = "insert"
    \/ a = "lockProof" /\ b = "lockUser"
    \/ a = "lockUser" /\ b \in {"checkEmail", "siblings"}
    \/ a = "checkEmail" /\ b = "updateEmail"
    \/ a = "updateEmail" /\ b = "siblings"
    \/ a = "siblings" /\ b \in {"notify", "commit"}
    \/ a = "notify" /\ b = "commit"
    \/ a = "load" /\ b = "save"

\* A statement takes its own request on, or answers it.
LEMMA MovesOn ==
    ASSUME IInv, NEW r \in Requests, Moves(r)
    PROVE  /\ pc[r] \in Working /\ req' = req
           /\ \A q \in Requests \ {r} : pc'[q] = pc[q]
           /\ GoesOn(pc[r], pc'[r]) \/ pc'[r] \in Answered
<1> DEFINE Effect ==
      /\ pc[r] \in Working /\ req' = req
      /\ \A q \in Requests \ {r} : pc'[q] = pc[q]
      /\ GoesOn(pc[r], pc'[r]) \/ pc'[r] \in Answered
<1>1. pc \in [Requests -> {"idle"} \cup Working \cup Answered]
  BY DEF IInv, Types
<1>2. ASSUME NEW how \in Answered, Answer(r, how), pc[r] \in Working PROVE Effect
  BY <1>1, <1>2 DEF Answer
<1>3. ASSUME NEW next, pc' = [pc EXCEPT ![r] = next], req' = req, pc[r] \in Working,
             GoesOn(pc[r], next) \/ next = "ok"
      PROVE  Effect
  BY <1>1, <1>3 DEF Answered
<1> HIDE DEF Effect
<1>4. ASSUME Find(r) PROVE Effect
  BY <1>2, <1>3, <1>4 DEF Find, Continue, Working, Answered, GoesOn
<1>5. ASSUME NEW p \in Proofs, InsertProof(r, p) PROVE Effect
  BY <1>3, <1>5 DEF InsertProof, Working
<1>6. ASSUME LockProof(r) PROVE Effect
  BY <1>2, <1>3, <1>6 DEF LockProof, Working, Answered, GoesOn
<1>7. ASSUME LockUser(r) PROVE Effect
  <2>1. pc[r] = "lockUser"
    BY <1>7 DEF LockUser
  <2>2. CASE Answer(r, "invalid")
    BY <1>2, <2>1, <2>2 DEF Working, Answered
  <2>3. CASE ~Answer(r, "invalid")
    <3>1. PICK next \in {"checkEmail", "siblings"} : pc' = [pc EXCEPT ![r] = next]
      BY <1>7, <2>3 DEF LockUser
    <3>2. req' = req
      BY <1>7, <2>3 DEF LockUser
    <3>3. QED
      BY <1>3, <2>1, <3>1, <3>2 DEF Working, GoesOn
  <2>4. QED
    BY <2>2, <2>3
<1>8. ASSUME CheckEmail(r) \/ UpdateEmail(r) PROVE Effect
  BY <1>2, <1>3, <1>8 DEF CheckEmail, UpdateEmail, Continue, Working, Answered, GoesOn
<1>9. ASSUME CloseSiblings(r) PROVE Effect
  <2>1. PICK next \in {"notify", "commit"} : pc' = [pc EXCEPT ![r] = next]
    BY <1>9 DEF CloseSiblings
  <2>2. QED
    BY <1>3, <1>9, <2>1 DEF CloseSiblings, Working, GoesOn
<1>10. ASSUME Notify(r) PROVE Effect
  BY <1>3, <1>10 DEF Notify, Working, GoesOn
<1>11. ASSUME Commit(r) PROVE Effect
  BY <1>3, <1>11 DEF Commit, Working
<1>12. ASSUME Load(r) PROVE Effect
  BY <1>2, <1>3, <1>12 DEF Load, Continue, Working, Answered, GoesOn
<1>13. ASSUME Save(r) PROVE Effect
  BY <1>2, <1>3, <1>13 DEF Save, Working, Answered
<1>14. ASSUME DeadlockAbort(r) PROVE Effect
  <2>1. BlockedBy(r) # {}
    BY <1>14 DEF DeadlockAbort, Cycle, Waits
  <2>2. pc[r] \in Working
    BY <2>1 DEF BlockedBy, Working
  <2>3. QED
    BY <1>2, <1>14, <2>2 DEF DeadlockAbort, Answered
<1>15. ASSUME RefusePassword(r) \/ Crash(r) PROVE Effect
  BY <1>2, <1>15 DEF RefusePassword, Crash, Working, Answered
<1>16. Effect
  BY <1>4, <1>5, <1>6, <1>7, <1>8, <1>9, <1>10, <1>11, <1>12, <1>13, <1>14, <1>15
     DEF Moves, Statement
<1>17. QED
  BY <1>16 DEF Effect

LEMMA MovesDescend ==
    ASSUME IInv, NEW r \in Requests, Moves(r)
    PROVE  Ahead(r)' < Ahead(r)
<1>1. CASE GoesOn(pc[r], pc'[r])
  BY <1>1 DEF GoesOn, Ahead, AheadAt
<1>2. CASE pc'[r] \in Answered
  <2>1. Ahead(r)' = 0
    BY <1>2 DEF Ahead, AheadAt, Answered
  <2>2. pc[r] \in Working
    BY MovesOn
  <2>3. Ahead(r) > 0
    BY <2>2 DEF Ahead, AheadAt, Working
  <2>4. QED
    BY <2>1, <2>3
<1>3. QED
  BY <1>1, <1>2, MovesOn

LEMMA Arriving ==
    ASSUME NEW r \in Requests, Arrival(r)
    PROVE  \E request, first :
              /\ Arrive(r, request, first)
              /\ first = "find" => KeysLeft
              /\ first \notin {"insert"} \cup Answered
<1>1. CASE \E email \in Emails : RequestPasswordReset(r, email)
  BY <1>1 DEF RequestPasswordReset, Answered
<1>2. CASE \E u \in Users : IssueActivation(r, u)
  BY <1>2 DEF IssueActivation, Answered
<1>3. CASE \E u \in Users, email \in Emails : RequestEmailChange(r, u, email)
  BY <1>3 DEF RequestEmailChange, Answered
<1>4. CASE \E u \in Users, op \in DOMAIN Consumers, p \in Proofs : UseProof(r, op, u, p)
  BY <1>4 DEF UseProof, Answered
<1>5. CASE \E u \in Users, email \in Emails, active \in BOOLEAN :
               OperatorSave(r, u, email, active)
  BY <1>5 DEF OperatorSave, Answered
<1>6. QED
  BY <1>1, <1>2, <1>3, <1>4, <1>5 DEF Arrival

\* No request can be kept busy for ever.
THEOREM AnswersApproach == Spec => StatementsRunOut
<1>1. IInv /\ [Next]_vars =>
        [\A r \in Requests :
            /\ Moves(r) => Ahead(r)' < Ahead(r)
            /\ pc[r] # "idle" => Ahead(r)' < Ahead(r) \/ pc'[r] = pc[r]
            /\ pc[r] \in Answered => pc'[r] = pc[r]]_vars
  <2> SUFFICES ASSUME IInv, [Next]_vars, NEW r \in Requests
               PROVE  /\ Moves(r) => Ahead(r)' < Ahead(r)
                      /\ pc[r] # "idle" => Ahead(r)' < Ahead(r) \/ pc'[r] = pc[r]
                      /\ pc[r] \in Answered => pc'[r] = pc[r]
    OBVIOUS
  <2>1. Moves(r) => Ahead(r)' < Ahead(r) /\ pc[r] \in Working
    BY MovesDescend, MovesOn
  <2>2. ASSUME NEW q \in Requests, Arrival(q)
        PROVE  pc[q] = "idle" /\ (q # r => pc'[r] = pc[r])
    BY <2>2, Arriving DEF Arrive, IInv, Types
  <2>3. CASE (\E p \in Proofs : Expire(p)) \/ Quiescent \/ UNCHANGED vars
    BY <2>1, <2>3 DEF Expire, Quiescent, vars
  <2>4. CASE \E q \in Requests \ {r} : Arrival(q) \/ Moves(q)
    BY <2>1, <2>2, <2>4, MovesOn
  <2>5. CASE Arrival(r) \/ Moves(r)
    BY <2>1, <2>2, <2>5 DEF Working, Answered
  <2>6. QED
    BY <2>3, <2>4, <2>5 DEF Next, Moves
<1>2. QED
  BY <1>1, Invariance, PTL DEF Spec, StatementsRunOut

-----------------------------------------------------------------------------
(* Requests that issue codes find a key for them.                          *)

Issuing == {r \in Requests : req[r].op \in DOMAIN Issuers /\ pc[r] \in {"find", "insert"}}

FreeKeys == {p \in Proofs : ~Issued(p)}

KeysOK == IsFiniteSet(Issuing) /\ Cardinality(Issuing) <= Cardinality(FreeKeys)

LEMMA FreeKeysFinite ==
    IsFiniteSet(FreeKeys) /\ Cardinality(FreeKeys) \in Nat
<1>1. FreeKeys \subseteq Proofs
  BY DEF FreeKeys
<1>2. QED
  BY <1>1, KeysAssumption, FS_Subset, FS_CardinalityType

LEMMA InitKeys == Init => KeysOK
<1> SUFFICES ASSUME Init PROVE KeysOK
  OBVIOUS
<1>1. Issuing = {}
  BY DEF Init, Issuing
<1>2. QED
  BY <1>1, FreeKeysFinite, FS_EmptySet DEF KeysOK

\* Fewer requests that issue codes, and as many keys.
LEMMA FewerIssue ==
    ASSUME KeysOK, Issuing' \subseteq Issuing, FreeKeys' = FreeKeys
    PROVE  KeysOK'
<1>1. IsFiniteSet(Issuing') /\ Cardinality(Issuing') <= Cardinality(Issuing)
  BY FS_Subset DEF KeysOK
<1>2. Cardinality(Issuing') \in Nat /\ Cardinality(Issuing) \in Nat
  BY <1>1, FS_CardinalityType DEF KeysOK
<1>3. QED
  BY <1>1, <1>2, FreeKeysFinite DEF KeysOK

LEMMA ArrivalKeys ==
    ASSUME IInv, KeysOK, NEW r \in Requests, Arrival(r) PROVE KeysOK'
<1>1. PICK request, first : /\ Arrive(r, request, first)
                            /\ first = "find" => KeysLeft
                            /\ first \notin {"insert"} \cup Answered
  BY Arriving
<1>2. /\ pc[r] = "idle" /\ pc'[r] = first /\ proof' = proof
      /\ \A q \in Requests \ {r} : pc'[q] = pc[q] /\ req'[q] = req[q]
  BY <1>1 DEF Arrive, IInv, Types
<1>3. FreeKeys' = FreeKeys /\ r \notin Issuing /\ Issuing' \subseteq Issuing \cup {r}
  BY <1>2 DEF FreeKeys, Issued, Issuing
<1>4. CASE first # "find"
  BY <1>1, <1>2, <1>3, <1>4, FewerIssue DEF Issuing
<1>5. CASE first = "find"
  <2>1. Cardinality(Issuing) < Cardinality(FreeKeys)
    BY <1>1, <1>5 DEF KeysLeft, Issuing, FreeKeys
  <2>2. /\ IsFiniteSet(Issuing \cup {r})
        /\ Cardinality(Issuing \cup {r}) = Cardinality(Issuing) + 1
    BY <1>3, FS_AddElement DEF KeysOK
  <2>3. IsFiniteSet(Issuing') /\ Cardinality(Issuing') <= Cardinality(Issuing) + 1
    BY <1>3, <2>2, FS_Subset
  <2>4. Cardinality(Issuing') \in Nat /\ Cardinality(Issuing) \in Nat
    BY <2>3, FS_CardinalityType DEF KeysOK
  <2>5. QED
    BY <1>3, <2>1, <2>3, <2>4, FreeKeysFinite DEF KeysOK
<1>6. QED
  BY <1>4, <1>5

LEMMA InsertKeys ==
    ASSUME IInv, KeysOK, NEW r \in Requests, NEW p \in Proofs, InsertProof(r, p)
    PROVE  KeysOK'
<1>1. /\ pc[r] = "insert" /\ ~Issued(p) /\ req' = req
      /\ req[r].op \in DOMAIN Issuers
      /\ pc' = [pc EXCEPT ![r] = "ok"]
      /\ \E email, u : proof' = [proof EXCEPT ![p] = Code(Issuers[req[r].op], u, email, used)]
  BY DEF InsertProof, IInv, Knows, Arrived
<1>2. r \in Issuing /\ Issuing' = Issuing \ {r}
  BY <1>1 DEF IInv, Types, Issuing
<1>3. p \in FreeKeys /\ FreeKeys' = FreeKeys \ {p}
  <2>1. proof'[p].purpose = Issuers[req[r].op] /\ Issuers[req[r].op] # None
    BY <1>1, OperationNames, EmptyRecords DEF IInv, Types, Code
  <2>2. \A q \in Proofs \ {p} : proof'[q] = proof[q]
    BY <1>1 DEF IInv, Types
  <2>3. QED
    BY <1>1, <2>1, <2>2 DEF FreeKeys, Issued
<1>4. /\ IsFiniteSet(Issuing') /\ Cardinality(Issuing') = Cardinality(Issuing) - 1
      /\ Cardinality(FreeKeys') = Cardinality(FreeKeys) - 1
  BY <1>2, <1>3, FreeKeysFinite, FS_RemoveElement DEF KeysOK
<1>5. Cardinality(Issuing) \in Nat
  BY FS_CardinalityType DEF KeysOK
<1>6. QED
  BY <1>4, <1>5, FreeKeysFinite DEF KeysOK

LEMMA StepKeys == IInv /\ KeysOK /\ [Next]_vars => KeysOK'
<1> SUFFICES ASSUME IInv, KeysOK, [Next]_vars PROVE KeysOK'
  OBVIOUS
<1>1. CASE \E r \in Requests : Arrival(r)
  BY <1>1, ArrivalKeys
<1>2. CASE \E r \in Requests, p \in Proofs : InsertProof(r, p)
  BY <1>2, InsertKeys
<1>3. CASE ~\E r \in Requests, p \in Proofs : InsertProof(r, p)
  <2>1. ASSUME \A p \in Proofs : proof'[p].purpose = proof[p].purpose,
               Issuing' \subseteq Issuing
        PROVE  KeysOK'
    BY <2>1, FewerIssue DEF FreeKeys, Issued
  <2>2. ASSUME NEW r \in Requests, Moves(r) PROVE KeysOK'
    <3>1. Issuing' \subseteq Issuing
      BY <2>2, MovesOn DEF Issuing, GoesOn, Answered
    <3>2. \A p \in Proofs : proof'[p].purpose = proof[p].purpose
      <4>1. CASE Commit(r)
        BY <4>1 DEF Commit, IInv, Types, ProofRow
      <4>2. CASE proof' = proof
        BY <4>2
      <4>3. QED
        BY <1>3, <2>2, <4>1, <4>2 DEF Moves, Statement, Find, LockProof, LockUser, CheckEmail,
           UpdateEmail, CloseSiblings, Notify, Load, Save, DeadlockAbort, RefusePassword, Crash,
           Continue, Answer
    <3>3. QED
      BY <2>1, <3>1, <3>2
  <2>3. ASSUME NEW p \in Proofs, Expire(p) PROVE KeysOK'
    <3>1. \A q \in Proofs : proof'[q].purpose = proof[q].purpose
      BY <2>3 DEF Expire, IInv, Types, ProofRow
    <3>2. Issuing' = Issuing
      BY <2>3 DEF Expire, Issuing
    <3>3. QED
      BY <2>1, <3>1, <3>2
  <2>4. CASE Quiescent \/ UNCHANGED vars
    BY <2>1, <2>4 DEF Quiescent, vars, Issuing
  <2>5. QED
    BY <1>1, <2>2, <2>3, <2>4 DEF Next, Moves
<1>4. QED
  BY <1>1, <1>2, <1>3

\* A key is left for every code that is about to be inserted.
LEMMA KeyLeft ==
    ASSUME IInv, KeysOK, NEW r \in Requests, pc[r] = "insert"
    PROVE  \E p \in Proofs : ~Issued(p)
<1>1. r \in Issuing
  BY DEF IInv, Knows, Arrived, Issuing
<1>2. Cardinality(Issuing) # 0
  BY <1>1, FS_EmptySet DEF KeysOK
<1>3. FreeKeys # {}
  <2>1. Cardinality(Issuing) \in Nat
    BY FS_CardinalityType DEF KeysOK
  <2>2. QED
    BY <1>2, <2>1, FS_EmptySet DEF KeysOK
<1>4. QED
  BY <1>3 DEF FreeKeys

-----------------------------------------------------------------------------
(* Somebody is ready: it waits for nobody and has what it needs, or it is  *)
(* in a cycle, of which PostgreSQL aborts one.                             *)

Free(r) ==
    /\ BlockedBy(r) \subseteq {None}
    /\ pc[r] = "insert" => \E p \in Proofs : ~Issued(p)

Ready(r) ==
    /\ pc[r] \in Working
    /\ Free(r) \/ \E S \in SUBSET Requests : r \in S /\ Cycle(S)

SomebodyIsReady ==
    (\E r \in Requests : pc[r] \in Working) => \E r \in Requests : Ready(r)

\* A request waits for others, never for itself.
LEMMA BlockedTyped ==
    ASSUME IInv, OwnsInv, NEW r \in Requests
    PROVE  BlockedBy(r) \subseteq (Requests \ {r}) \cup {None}
<1>1. Knows(r) /\ Owns(r) /\ Types
  BY DEF IInv, OwnsInv
<1>2. CASE pc[r] = "lockProof"
  BY <1>1, <1>2 DEF BlockedBy, Knows, Arrived, Types, Owns, HoldingProof
<1>3. CASE pc[r] = "insert"
  BY <1>1, <1>3 DEF BlockedBy, Knows, Arrived, Types, Owns, HoldingUser, HoldingProof
<1>4. CASE pc[r] = "lockUser"
  BY <1>1, <1>4 DEF BlockedBy, Knows, HoldsProof, Types, Owns, HoldingUser, HoldingProof
<1>5. CASE pc[r] = "save"
  BY <1>1, <1>5 DEF BlockedBy, Knows, Arrived, Types, Owns, HoldingUser, HoldingProof, Claimants
<1>6. CASE pc[r] = "updateEmail"
  BY <1>6 DEF BlockedBy, Claimants
<1>7. CASE pc[r] = "siblings"
  <2>1. \A p \in Siblings(r) : proofLock[p] \in (Requests \ {r}) \cup {None}
    BY <1>1, <1>7 DEF Siblings, Types, Owns
  <2>2. QED
    BY <1>7, <2>1 DEF BlockedBy
<1>8. QED
  BY <1>2, <1>3, <1>4, <1>5, <1>6, <1>7 DEF BlockedBy

\* However many requests run, they never all wait: whoever is waited for either
\* goes on, or closes the other codes of its account, and then only a request in
\* a deadlock with it can keep it waiting.
THEOREM SomebodyAlwaysReady == Spec => []SomebodyIsReady
<1>1. IInv /\ OwnsInv /\ KeysOK => SomebodyIsReady
  <2> SUFFICES ASSUME IInv, OwnsInv, KeysOK, \A r \in Requests : ~Ready(r)
               PROVE  \A r \in Requests : pc[r] \notin Working
    BY DEF SomebodyIsReady
  <2>1. ASSUME NEW r \in Requests, pc[r] \in Working
        PROVE  \E q \in Requests : q # r /\ q \in BlockedBy(r)
    <3>1. ~Free(r)
      BY <2>1 DEF Ready
    <3>2. pc[r] = "insert" => \E p \in Proofs : ~Issued(p)
      BY KeyLeft
    <3>3. QED
      BY <3>1, <3>2, BlockedTyped DEF Free
  <2>2. ASSUME NEW r \in Requests PROVE pc[r] \notin {"checkEmail", "notify", "commit"}
    <3>1. pc[r] \in {"checkEmail", "notify", "commit"} =>
            BlockedBy(r) = {} /\ pc[r] \in Working
      BY DEF BlockedBy, Working
    <3>2. QED
      BY <2>1, <3>1
  <2>3. ASSUME NEW r \in Requests PROVE pc[r] # "siblings"
    <3> SUFFICES ASSUME pc[r] = "siblings" PROVE FALSE
      OBVIOUS
    <3>1. PICK q \in Requests : q # r /\ q \in BlockedBy(r)
      BY <2>1 DEF Working
    <3>2. pc[q] = "lockUser" /\ userLock[reads[q].user] = r
      BY <2>2, <3>1, Blockers
    <3>3. r \in BlockedBy(q)
      BY <3>2 DEF BlockedBy
    <3>4. Cycle({q, r})
      <4>1. Waits({q, r})
        BY <3>1, <3>3 DEF Waits
      <4>2. ASSUME NEW T \in SUBSET {q, r}, T \notin {{}, {q, r}} PROVE ~Waits(T)
        <5>1. T = {q} \/ T = {r}
          BY <4>2
        <5>2. QED
          BY <5>1 DEF Waits
      <4>3. QED
        BY <4>1, <4>2 DEF Cycle
    <3>5. QED
      BY <3>4 DEF Ready, Working
  <2>4. ASSUME NEW r \in Requests PROVE pc[r] # "updateEmail"
    BY <2>1, <2>2, <2>3, Blockers DEF Working
  <2>5. ASSUME NEW r \in Requests PROVE pc[r] # "lockUser"
    BY <2>1, <2>2, <2>3, <2>4, Blockers DEF Working, HoldingUser, HoldingProof
  <2>6. QED
    BY <2>1, <2>2, <2>3, <2>4, <2>5, Blockers DEF HoldingProof
<1>2. QED
  BY <1>1, Invariance, InitOwns, StepOwns, InitKeys, StepKeys, PTL DEF Spec
=============================================================================
