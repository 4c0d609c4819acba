--------------------------- MODULE AccountProofs ---------------------------
(***************************************************************************)
(* The codes mailed to activate an account, to reset its password and to   *)
(* verify a new address (accounts/services.py), and the operator who saves *)
(* the same account from the admin.                                        *)
(*                                                                         *)
(* As in PlanVersions a request's transaction runs statement by statement  *)
(* under READ COMMITTED and its writes become visible with its commit.     *)
(***************************************************************************)
EXTENDS FiniteSets, Naturals

CONSTANTS
    Requests,   \* HTTP requests, one service call each
    Users,      \* account rows
    Emails,     \* addresses
    Proofs,     \* primary keys that proof rows may take
    Starts,     \* the accounts and the mailed codes there may be at the start
    Ops,        \* the operations requests may ask for
    None        \* no user, address, proof or request

Purposes == {"activation", "password_reset", "email_change"}

\* The operations that issue codes and those that use them, by purpose.
Issuers == [issue_activation |-> "activation",
            request_password_reset |-> "password_reset",
            request_email_change |-> "email_change"]

Consumers == [activate_account |-> "activation",
              reset_password |-> "password_reset",
              confirm_email_change |-> "email_change"]

Operations == DOMAIN Issuers \cup DOMAIN Consumers \cup {"operator_save"}

ASSUME NoneAssumption ==
    None \notin Requests \cup Users \cup Emails \cup Proofs \cup Purposes
ASSUME OpsAssumption == Ops \subseteq Operations
ASSUME KeysAssumption == IsFiniteSet(Proofs)

VARIABLES
    account,    \* committed user rows
    proof,      \* committed proof rows
    used,       \* committed security events, with the proof that each used
    notified,   \* messages sent to the addresses that were replaced
    proofLock,  \* holder of each proof row's lock
    userLock,   \* holder of each user row's lock
    pc,         \* the statement each request runs next
    req,        \* what each request asks for
    reads       \* what its transaction has read so far

locks == <<proofLock, userLock>>
vars == <<account, proof, used, notified, locks, pc, req, reads>>

-----------------------------------------------------------------------------
(* Rows and requests.                                                      *)

\* password is the request that set it, None for the one before all requests.
Account == [email : Emails, active : BOOLEAN, verified : BOOLEAN,
            password : Requests \cup {None}]

\* past is history: the events recorded when the row was committed.
Code(purpose, user, email, past) ==
    [purpose |-> purpose, user |-> user, email |-> email, expired |-> FALSE,
     consumed |-> FALSE, older |-> past]

NoProof == Code(None, None, None, {})

Codes == {Code(purpose, u, IF purpose = "email_change" THEN email ELSE None, {}) :
            purpose \in Purposes, u \in Users, email \in Emails}

ASSUME StartsAssumption ==
    \A start \in Starts :
        /\ start.account \in [Users -> Account]
        /\ \A u, v \in Users :
              start.account[u].email = start.account[v].email => u = v
        /\ start.proof \in [Proofs -> Codes \cup {NoProof}]

Issued(p) == proof[p].purpose # None

Pending(p) == Issued(p) /\ ~proof[p].consumed

Asked(op, user, email, p) ==
    [op |-> op, user |-> user, email |-> email, proof |-> p,
     active |-> FALSE, verified |-> FALSE]

NoRequest == Asked("none", None, None, None)

\* user: the account worked on; email: its address under the lock; row: the
\* account as the admin loaded it.
NoReads == [user |-> None, email |-> None, row |-> None]

Event(r) == [request |-> r, user |-> reads[r].user,
             purpose |-> Consumers[req[r].op], proof |-> req[r].proof]

Working == {"find", "insert", "lockProof", "lockUser", "checkEmail", "updateEmail",
            "siblings", "notify", "commit", "load", "save"}

Answered == {"ok", "invalid", "error", "crashed"}

Confirms(r) == req[r].op = "confirm_email_change"

TakenByOther(email, u) == \E v \in Users \ {u} : account[v].email = email

-----------------------------------------------------------------------------
(* What every statement is built from.                                     *)

Release(r) ==
    /\ proofLock' = [p \in Proofs |-> IF proofLock[p] = r THEN None ELSE proofLock[p]]
    /\ userLock' = [u \in Users |-> IF userLock[u] = r THEN None ELSE userLock[u]]

\* The request is answered without a write, or its transaction rolls back.
Answer(r, how) ==
    /\ pc' = [pc EXCEPT ![r] = how]
    /\ Release(r)
    /\ UNCHANGED <<account, proof, used, notified, req, reads>>

Continue(r, next) ==
    /\ pc' = [pc EXCEPT ![r] = next]
    /\ UNCHANGED <<account, proof, used, notified, locks, req>>

-----------------------------------------------------------------------------
(* Requests arrive.  Codes come from the messages that carried them, so    *)
(* their rows exist; they may be used in any form, by anyone who has them. *)

Arrive(r, request, first) ==
    /\ pc[r] = "idle"
    /\ request.op \in Ops
    /\ req' = [req EXCEPT ![r] = request]
    /\ pc' = [pc EXCEPT ![r] = first]
    /\ UNCHANGED <<account, proof, used, notified, locks, reads>>

\* A bound of the model: no more requests that issue codes than keys for them.
KeysLeft == Cardinality({r \in Requests : /\ req[r].op \in DOMAIN Issuers
                                          /\ pc[r] \in {"find", "insert"}})
              < Cardinality({p \in Proofs : ~Issued(p)})

IssueActivation(r, u) ==
    /\ KeysLeft
    /\ Arrive(r, Asked("issue_activation", u, None, None), "find")

RequestPasswordReset(r, email) ==
    /\ KeysLeft
    /\ Arrive(r, Asked("request_password_reset", None, email, None), "find")

\* The form refuses the account's own address.
RequestEmailChange(r, u, email) ==
    /\ KeysLeft
    /\ account[u].active
    /\ email # account[u].email
    /\ Arrive(r, Asked("request_email_change", u, email, None), "find")

UseProof(r, op, u, p) ==
    /\ Issued(p)
    /\ op = "confirm_email_change" => account[u].active
    /\ Arrive(r, Asked(op, IF op = "confirm_email_change" THEN u ELSE None, None, p),
              "lockProof")

\* The page posts an address, and the verification that it showed.
OperatorSave(r, u, email, active) ==
    Arrive(r, [op |-> "operator_save", user |-> u, email |-> email,
               proof |-> None, active |-> active, verified |-> account[u].verified],
           "load")

-----------------------------------------------------------------------------
(* issue_activation, request_password_reset and request_email_change: one  *)
(* statement that reads and one that inserts, each its own transaction.    *)

\* The verified and active account that has an address, or nobody.
Addressee(email) ==
    {u \in Users : account[u].email = email /\ account[u].verified /\ account[u].active}

Find(r) ==
    LET u == req[r].user
        found == CASE req[r].op = "issue_activation" ->
                        {v \in {u} : ~account[v].active /\ ~account[v].verified}
                   [] req[r].op = "request_password_reset" -> Addressee(req[r].email)
                   [] req[r].op = "request_email_change" ->
                        {v \in {u} : ~TakenByOther(req[r].email, v)}
    IN  /\ pc[r] = "find"
        /\ IF found = {}
              THEN Answer(r, IF req[r].op = "request_password_reset"
                                THEN "ok" ELSE "error")
              ELSE \E v \in found :
                      /\ reads' = [reads EXCEPT ![r].user = v]
                      /\ Continue(r, "insert")

\* The deferred foreign key check waits for whoever holds the user's row.
InsertProof(r, p) ==
    /\ pc[r] = "insert"
    /\ ~Issued(p)
    /\ userLock[reads[r].user] = None
    /\ proof' = [proof EXCEPT ![p] =
          Code(Issuers[req[r].op], reads[r].user,
               IF req[r].op = "request_email_change" THEN req[r].email ELSE None, used)]
    /\ pc' = [pc EXCEPT ![r] = "ok"]
    /\ UNCHANGED <<account, used, notified, locks, req, reads>>

-----------------------------------------------------------------------------
(* activate_account, reset_password and confirm_email_change.              *)

\* Mutant: only the purpose is asked of the proof, not consumed_at.
FindsUsed(r) == proof[req[r].proof].purpose = Consumers[req[r].op]

\* What the statement that locks the proof asks of the row.
Finds(r) ==
    LET p == proof[req[r].proof] IN
        /\ p.purpose = Consumers[req[r].op]
        /\ ~p.consumed
        /\ Confirms(r) => p.user = req[r].user

\* activate_account's statement joins the user, whose row it also waits for
\* (LockUser), and looks at the expiry only then.
LockProof(r) ==
    LET p == req[r].proof IN
        /\ pc[r] = "lockProof"
        /\ proofLock[p] = None
        /\ IF Finds(r) /\ (proof[p].expired => req[r].op = "activate_account")
              THEN /\ proofLock' = [proofLock EXCEPT ![p] = r]
                   /\ reads' = [reads EXCEPT ![r].user = proof[p].user]
                   /\ pc' = [pc EXCEPT ![r] = "lockUser"]
                   /\ UNCHANGED <<account, proof, used, notified, userLock, req>>
              ELSE Answer(r, "invalid")

\* What activate_account asks when it has the user's row.
Activatable(r) ==
    LET u == reads[r].user IN
        ~proof[req[r].proof].expired /\ ~account[u].active /\ ~account[u].verified

LockUser(r) ==
    LET u == reads[r].user IN
        /\ pc[r] = "lockUser"
        /\ userLock[u] = None
        /\ IF req[r].op = "activate_account" => Activatable(r)
              THEN /\ userLock' = [userLock EXCEPT ![u] = r]
                   /\ reads' = [reads EXCEPT ![r].email = account[u].email]
                   /\ pc' = [pc EXCEPT ![r] = IF Confirms(r) THEN "checkEmail"
                                                            ELSE "siblings"]
                   /\ UNCHANGED <<account, proof, used, notified, proofLock, req>>
              ELSE Answer(r, "invalid")

CheckEmail(r) ==
    /\ pc[r] = "checkEmail"
    /\ IF TakenByOther(proof[req[r].proof].email, reads[r].user)
          THEN Answer(r, "invalid")
          ELSE Continue(r, "updateEmail") /\ UNCHANGED reads

\* The transactions that wrote an address, or over one, and have not ended.
Claimants(r, email) ==
    {s \in Requests \ {r} :
        /\ Confirms(s) /\ pc[s] \in {"siblings", "notify", "commit"}
        /\ email \in {reads[s].email, proof[req[s].proof].email}}

\* UPDATE of the address: the unique index makes it wait for transactions that
\* touch the address, and fail when somebody has it.
UpdateEmail(r) ==
    LET email == proof[req[r].proof].email IN
        /\ pc[r] = "updateEmail"
        /\ Claimants(r, email) = {}
        /\ IF TakenByOther(email, reads[r].user)
              THEN Answer(r, "invalid")
              ELSE Continue(r, "siblings") /\ UNCHANGED reads

\* validate_password refuses the password for this user.
RefusePassword(r) ==
    /\ pc[r] = "siblings"
    /\ ~Confirms(r)
    /\ Answer(r, "invalid")

\* Mutant: the other codes are left alone.
NoSiblings(r) == {}

\* Mutant: the codes of all purposes are closed.
AllPending(r) ==
    {p \in Proofs \ {req[r].proof} : Pending(p) /\ proof[p].user = reads[r].user}

\* The other pending codes of the account and purpose.
Siblings(r) ==
    {p \in Proofs \ {req[r].proof} :
        /\ Pending(p)
        /\ proof[p].user = reads[r].user
        /\ proof[p].purpose = Consumers[req[r].op]}

\* The UPDATE of the siblings waits for whoever holds one of them.  Nobody who
\* waits for a proof's row holds anything, so that it takes them one by one
\* makes no difference.
CloseSiblings(r) ==
    /\ pc[r] = "siblings"
    /\ \A p \in Siblings(r) : proofLock[p] = None
    /\ proofLock' = [p \in Proofs |-> IF p \in Siblings(r) THEN r ELSE proofLock[p]]
    /\ pc' = [pc EXCEPT ![r] = IF Confirms(r) THEN "notify" ELSE "commit"]
    /\ UNCHANGED <<account, proof, used, notified, userLock, req, reads>>

\* Mutant: the message goes to the new address.
NotifyNewAddress(r) ==
    /\ pc[r] = "notify"
    /\ notified' = notified \cup {[request |-> r, to |-> proof[req[r].proof].email]}
    /\ pc' = [pc EXCEPT ![r] = "commit"]
    /\ UNCHANGED <<account, proof, used, locks, req, reads>>

\* send_mail to the address that is replaced, before the commit.
Notify(r) ==
    /\ pc[r] = "notify"
    /\ notified' = notified \cup {[request |-> r, to |-> reads[r].email]}
    /\ pc' = [pc EXCEPT ![r] = "commit"]
    /\ UNCHANGED <<account, proof, used, locks, req, reads>>

Changed(r) ==
    LET old == account[reads[r].user] IN
        CASE req[r].op = "activate_account" ->
               [old EXCEPT !.password = r, !.active = TRUE, !.verified = TRUE]
          [] req[r].op = "reset_password" -> [old EXCEPT !.password = r]
          [] req[r].op = "confirm_email_change" ->
               [old EXCEPT !.email = proof[req[r].proof].email, !.verified = TRUE]

Commit(r) ==
    /\ pc[r] = "commit"
    /\ account' = [account EXCEPT ![reads[r].user] = Changed(r)]
    /\ proof' = [p \in Proofs |->
                   IF p = req[r].proof \/ p \in Siblings(r)
                      THEN [proof[p] EXCEPT !.consumed = TRUE] ELSE proof[p]]
    /\ used' = used \cup {Event(r)}
    /\ pc' = [pc EXCEPT ![r] = "ok"]
    /\ Release(r)
    /\ UNCHANGED <<notified, req, reads>>

-----------------------------------------------------------------------------
(* The operator's page: the row is loaded, and written whole with what the *)
(* page posted.                                                            *)

Load(r) ==
    /\ pc[r] = "load"
    /\ IF TakenByOther(req[r].email, req[r].user)
          THEN Answer(r, "invalid")
          ELSE /\ reads' = [reads EXCEPT ![r].row = account[req[r].user]]
               /\ Continue(r, "save")

\* The UPDATE and the commit are one step: no request that the UPDATE waits for can
\* want the row that it locks.
Save(r) ==
    LET u == req[r].user IN
        /\ pc[r] = "save"
        /\ userLock[u] = None
        /\ Claimants(r, req[r].email) = {}
        /\ IF TakenByOther(req[r].email, u)
              THEN Answer(r, "error")
              ELSE /\ account' = [account EXCEPT ![u] =
                        [reads[r].row EXCEPT !.email = req[r].email,
                                             !.verified = req[r].verified,
                                             !.active = req[r].active]]
                   /\ pc' = [pc EXCEPT ![r] = "ok"]
                   /\ UNCHANGED <<proof, used, notified, locks, req, reads>>

-----------------------------------------------------------------------------
(* How requests fail, and time.                                            *)

BlockedBy(r) ==
    CASE pc[r] = "lockProof" -> {proofLock[req[r].proof]}
      [] pc[r] \in {"lockUser", "insert"} -> {userLock[reads[r].user]}
      [] pc[r] = "save" -> {userLock[req[r].user]} \cup Claimants(r, req[r].email)
      [] pc[r] = "updateEmail" -> Claimants(r, proof[req[r].proof].email)
      [] pc[r] = "siblings" -> {proofLock[p] : p \in Siblings(r)}
      [] OTHER -> {}

Waits(S) == \A r \in S : BlockedBy(r) \cap (S \ {r}) # {}

\* A set of requests each of which waits for another of them, and no part of
\* which does.
Cycle(S) == /\ S # {}
            /\ Waits(S)
            /\ \A T \in SUBSET S : T \notin {{}, S} => ~Waits(T)

\* Mutant: deadlocks are never detected.
NeverAbort(r) == FALSE

\* PostgreSQL aborts one transaction of a cycle, and no view handles that.
DeadlockAbort(r) ==
    /\ \E S \in SUBSET Requests : r \in S /\ Cycle(S)
    /\ Answer(r, "error")

Crash(r) == pc[r] \in Working /\ Answer(r, "crashed")

Expire(p) ==
    /\ Issued(p) /\ ~proof[p].expired
    /\ proof' = [proof EXCEPT ![p].expired = TRUE]
    /\ UNCHANGED <<account, used, notified, locks, pc, req, reads>>

-----------------------------------------------------------------------------
Init ==
    /\ \E start \in Starts : account = start.account /\ proof = start.proof
    /\ used = {} /\ notified = {}
    /\ proofLock = [p \in Proofs |-> None]
    /\ userLock = [u \in Users |-> None]
    /\ pc = [r \in Requests |-> "idle"]
    /\ req = [r \in Requests |-> NoRequest]
    /\ reads = [r \in Requests |-> NoReads]

Arrival(r) ==
    \/ \E email \in Emails : RequestPasswordReset(r, email)
    \/ \E u \in Users :
          \/ IssueActivation(r, u)
          \/ \E email \in Emails : RequestEmailChange(r, u, email)
          \/ \E op \in DOMAIN Consumers, p \in Proofs : UseProof(r, op, u, p)
          \/ \E email \in Emails, active \in BOOLEAN : OperatorSave(r, u, email, active)

Statement(r) ==
    \/ Find(r) \/ \E p \in Proofs : InsertProof(r, p)
    \/ LockProof(r) \/ LockUser(r) \/ CheckEmail(r) \/ UpdateEmail(r)
    \/ CloseSiblings(r) \/ Notify(r) \/ Commit(r)
    \/ Load(r) \/ Save(r)
    \/ DeadlockAbort(r)

\* No request is running; the site waits for more.
Quiescent == (\A r \in Requests : pc[r] \notin Working) /\ UNCHANGED vars

Next ==
    \/ \E r \in Requests : Arrival(r) \/ Statement(r) \/ RefusePassword(r) \/ Crash(r)
    \/ \E p \in Proofs : Expire(p)
    \/ Quiescent

\* A live process runs its next statement, and PostgreSQL grants a free lock
\* and detects deadlocks.
Fairness == \A r \in Requests : WF_vars(Statement(r))

Spec == Init /\ [][Next]_vars

FairSpec == Spec /\ Fairness

-----------------------------------------------------------------------------
(* Properties.                                                             *)

\* The shape of the state, with accounts that always have an address.
TypeOK ==
    /\ account \in [Users -> Account]
    /\ \A p \in Proofs :
          proof[p] = NoProof \/ (proof[p].purpose \in Purposes /\ proof[p].user \in Users)
    /\ proofLock \in [Proofs -> Requests \cup {None}]
    /\ userLock \in [Users -> Requests \cup {None}]
    /\ pc \in [Requests -> {"idle"} \cup Working \cup Answered]
    /\ \A r \in Requests : reads[r].user \in Users \cup {None}

\* A code is used once, and none of the codes mailed for a purpose before one of
\* them was used works afterwards, although requests may have both in hand
\* (the sibling UPDATE of activate_account, reset_password and
\* _confirm_email_change).
OlderProofsDie ==
    \A e, f \in used :
        e # f /\ e.user = f.user /\ e.purpose = f.purpose =>
            e \in proof[f.proof].older \/ f \in proof[e.proof].older

\* No two accounts have one address, whoever confirms or saves it at once.
EmailsAreUnique ==
    \A u, v \in Users : account[u].email = account[v].email => u = v

\* The message about a change of address went to the address it replaced.
OldAddressNotified ==
    [][\A e \in used' \ used : e.purpose = "email_change" =>
          [request |-> e.request, to |-> account[e.user].email] \in notified]_vars

\* Requests deadlock only when they use codes of one account and purpose: each
\* holds its proof, one the user, and that one updates the other.
DeadlocksAreSiblings ==
    \A S \in SUBSET Requests : Cycle(S) =>
        \A r, s \in S : /\ req[r].op \in DOMAIN Consumers
                        /\ req[r].op = req[s].op
                        /\ reads[r].user = reads[s].user

\* Every request is answered, deadlocks included.
EveryRequestAnswered ==
    \A r \in Requests : pc[r] \in Working ~> pc[r] \in Answered

Ledger == INSTANCE AccountLedger WITH
    accounts <- account,
    proofs <- [p \in Proofs |->
                 [state |-> IF ~Issued(p) THEN "unissued"
                            ELSE IF proof[p].consumed THEN "closed" ELSE "open",
                  purpose |-> proof[p].purpose, user |-> proof[p].user,
                  email |-> proof[p].email]]

\* Using a code changes its account as its purpose says, under whatever races,
\* and nothing but codes and the operator's page changes an account.
ImplementsLedger == Ledger!Spec
=============================================================================
