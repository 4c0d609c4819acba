---------------------------- MODULE Invitations ----------------------------
(***************************************************************************)
(* Invitations of members: invite_member of enrollments/services.py with   *)
(* create_user and issue_activation, which it calls, statement by          *)
(* statement.                                                              *)
(*                                                                         *)
(* The service locks nothing before it writes: the member, the other       *)
(* members with its address and the account of that address are each read  *)
(* by a statement of its own, and the code is mailed before the commit.    *)
(* What keeps overlapping invitations apart are two unique indexes, on the *)
(* address of an account and on the account of a member.  Rows change when *)
(* their transaction commits.                                              *)
(***************************************************************************)
EXTENDS Naturals, FiniteSets

CONSTANTS
    Requests,    \* invitations
    Members,     \* rows of Member
    Accounts,    \* keys of rows of User
    Emails,      \* addresses, normalized
    Starts,      \* the rows there may be at first
    MaxChanges,  \* bound: changes by others
    None         \* no row, no address

ASSUME NoneAssumption == None \notin Members \cup Accounts \cup Emails

ASSUME MaxChangesAssumption == MaxChanges \in Nat

VARIABLES
    member,    \* the members
    account,   \* the accounts
    proof,     \* activation codes that are stored
    mailed,    \* activation codes that were sent
    audit,     \* events of audit/services.py
    pc,        \* the statement each invitation executes next
    req,       \* the member that it is for
    reads,     \* what it has read
    before,    \* history: the requests answered before it arrived
    moved,     \* history: accounts whose address has changed
    reviewed,  \* history: accounts whose flags the operator has set
    expired,   \* codes that are too old
    acted,     \* accounts that events of audit/services.py name as their actor
    erased,    \* keys of accounts that the operator has deleted
    changes    \* changes by others so far

rows == <<member, account, proof, mailed, audit>>
others == <<moved, reviewed, expired, acted, erased, changes>>
vars == <<rows, pc, req, reads, before, others>>

-----------------------------------------------------------------------------
(* Rows and requests.                                                      *)

Member == [email : Emails \cup {None}, account : Accounts \cup {None}, deleted : BOOLEAN]

Account == [email : Emails \cup {None}, active : BOOLEAN, verified : BOOLEAN]

\* A key that no row has yet.
NoAccount == [email |-> None, active |-> FALSE, verified |-> FALSE]

ASSUME StartsAssumption ==
    Starts \subseteq [member : [Members -> Member], account : [Accounts -> Account]]

\* A member that has an account at first has an active one.
ASSUME StartsLinkedAssumption ==
    \A s \in Starts, m \in Members :
        s.member[m].account # None => s.account[s.member[m].account].active

\* An account has an address that no other one has (uq_accounts_user_normalized_email).
ASSUME StartsUniqueAssumption ==
    \A s \in Starts, a \in Accounts :
        s.account[a] # NoAccount =>
            /\ s.account[a].email # None
            /\ \A b \in Accounts \ {a} : s.account[b].email # s.account[a].email

\* email: the member's; account: that of the address, created or not.
Reads == [email : Emails \cup {None}, account : Accounts \cup {None},
          active : BOOLEAN, created : BOOLEAN]

NoReads == [email |-> None, account |-> None, active |-> FALSE, created |-> FALSE]

Working == {"find", "review", "lookup", "linked", "insert", "link", "issue", "commit"}

\* refused: told to the actor; error: one that no view handles.
Answered == {"ok", "refused", "error", "crashed"}

\* Who has the account of an address, as committed.
Owners(e) == {a \in Accounts : account[a] # NoAccount /\ account[a].email = e}

\* Transactions that have inserted an account with the address, or set the
\* account of the member, and not committed.
Inserting(e) ==
    {q \in Requests : pc[q] \in {"link", "issue", "commit"} /\ reads[q].created
                      /\ reads[q].email = e}

Linking(m) == {q \in Requests : pc[q] \in {"issue", "commit"} /\ req[q] = m}

Used ==
    {a \in Accounts : account[a] # NoAccount} \cup erased \cup {reads[q].account : q \in Requests}

-----------------------------------------------------------------------------
(* What every statement is built from.                                     *)

Goto(r, next) == pc' = [pc EXCEPT ![r] = next]

Continue(r, next, newReads) ==
    /\ Goto(r, next)
    /\ reads' = [reads EXCEPT ![r] = newReads]
    /\ UNCHANGED <<rows, req, before, others>>

\* The transaction rolls back; what was mailed was mailed.
Refuse(r, why) == Continue(r, why, NoReads)

-----------------------------------------------------------------------------
(* Invitations.                                                            *)

\* member_invite, for the primary member of a Póliza that the actor sees.
Arrive(r, m) ==
    /\ pc[r] = "idle"
    /\ req' = [req EXCEPT ![r] = m]
    /\ Goto(r, "find")
    /\ before' = [before EXCEPT ![r] = {q \in Requests : pc[q] \in Answered}]
    /\ UNCHANGED <<rows, reads, others>>

\* _administered_member, which finds no deleted member for an administrator; the
\* operator is told to review it.  The account that is read here is judged a
\* statement later.
FindMember(r) ==
    LET m == member[req[r]] IN
        /\ pc[r] = "find"
        /\ IF m.email = None \/ m.deleted THEN Refuse(r, "refused")
           ELSE Continue(r, "review", [NoReads EXCEPT !.email = m.email, !.account = m.account])

\* No other member with the address is deleted, and the member had no account.
ReviewIdentity(r) ==
    /\ pc[r] = "review"
    /\ IF \/ \E n \in Members \ {req[r]} :
                member[n].email = reads[r].email /\ member[n].deleted
          \/ reads[r].account # None
          THEN Refuse(r, "refused") ELSE Continue(r, "lookup", reads[r])

LookupAccount(r) ==
    /\ pc[r] = "lookup"
    /\ \/ /\ Owners(reads[r].email) = {}
          /\ Continue(r, "insert", reads[r])
       \/ \E a \in Owners(reads[r].email) :
             IF account[a].active # account[a].verified THEN Refuse(r, "refused")
             ELSE Continue(r, "linked", [reads[r] EXCEPT !.account = a,
                                                         !.active = account[a].active])

\* Mutant: the account's own member is not looked for.
CheckNoMember(r) ==
    /\ pc[r] = "linked"
    /\ Continue(r, "link", reads[r])

\* hasattr(account, "member"), a query of its own.
CheckLinked(r) ==
    /\ pc[r] = "linked"
    /\ IF \E m \in Members : member[m].account = reads[r].account
          THEN Refuse(r, "refused") ELSE Continue(r, "link", reads[r])

\* create_user: the unique index waits for whoever inserts the same address.
InsertAccount(r) ==
    /\ pc[r] = "insert"
    /\ Inserting(reads[r].email) = {}
    /\ IF Owners(reads[r].email) # {} THEN Refuse(r, "error")
       ELSE /\ Accounts \ Used # {}
            /\ Continue(r, "link", [reads[r] EXCEPT !.account = CHOOSE a \in Accounts : a \notin Used,
                                                    !.created = TRUE])

Code(r) == [request |-> r, account |-> reads[r].account]

\* Transactions whose fate decides whether the member can have the account.
Rivals(r) ==
    Linking(req[r])
    \cup {q \in Requests : pc[q] \in {"issue", "commit"} /\ reads[q].account = reads[r].account}

Claimed(r) ==
    \E m \in Members \ {req[r]} : member[m].account = reads[r].account

\* Mutant: the code is mailed before the member is saved.
MailAndLink(r) ==
    /\ pc[r] = "link"
    /\ Rivals(r) = {}
    /\ mailed' = IF reads[r].active THEN mailed ELSE mailed \cup {Code(r)}
    /\ IF Claimed(r) THEN Goto(r, "error") ELSE Goto(r, "commit")
    /\ UNCHANGED <<member, account, proof, audit, req, reads, before, others>>

\* UPDATE of the member, whatever account it has by now: the row's lock, then
\* the unique index, wait for other invitations.
LinkMember(r) ==
    /\ pc[r] = "link"
    /\ Rivals(r) = {}
    /\ IF Claimed(r) THEN Refuse(r, "error")
       ELSE Continue(r, IF reads[r].active THEN "commit" ELSE "issue", reads[r])

\* Mutant: only an account that the invitation created gets a code.
IssueToCreated(r) ==
    /\ pc[r] = "issue"
    /\ Goto(r, "commit")
    /\ mailed' = IF reads[r].created THEN mailed \cup {Code(r)} ELSE mailed
    /\ UNCHANGED <<member, account, proof, audit, req, reads, before, others>>

\* issue_activation, for an account that was not active when it was read: the row
\* of the code is inserted and the code is mailed.
IssueActivation(r) ==
    /\ pc[r] = "issue"
    /\ Goto(r, "commit")
    /\ mailed' = mailed \cup {Code(r)}
    /\ UNCHANGED <<member, account, proof, audit, req, reads, before, others>>

\* The foreign keys of the member and of the code are checked at the commit.
Missing(r) == ~reads[r].created /\ account[reads[r].account] = NoAccount

FailCommit(r) ==
    /\ pc[r] = "commit"
    /\ Missing(r)
    /\ Refuse(r, "error")

Commit(r) ==
    LET a == reads[r].account IN
        /\ pc[r] = "commit"
        /\ ~Missing(r)
        /\ member' = [member EXCEPT ![req[r]].account = a]
        /\ account' = IF reads[r].created THEN [account EXCEPT ![a].email = reads[r].email]
                                          ELSE account
        /\ proof' = proof \cup (mailed \cap {Code(r)})
        /\ audit' = audit \cup {[request |-> r, member |-> req[r], account |-> a,
                                 created |-> reads[r].created]}
        /\ Goto(r, "ok")
        /\ reads' = [reads EXCEPT ![r] = NoReads]
        /\ UNCHANGED <<mailed, req, before, others>>

Crash(r) == pc[r] \in Working /\ Refuse(r, "crashed")

-----------------------------------------------------------------------------
(* What else happens to members and accounts, transactions of their own.   *)

Changed == changes < MaxChanges /\ changes' = changes + 1

\* Nothing under src/ deletes a member; a deleted one is never restored.
DeleteMember(m) ==
    /\ Changed
    /\ ~member[m].deleted /\ Linking(m) = {}
    /\ member' = [member EXCEPT ![m].deleted = TRUE]
    /\ UNCHANGED <<account, proof, mailed, audit, pc, req, reads, before>>
    /\ UNCHANGED <<moved, reviewed, expired, acted, erased>>

\* PROOF_LIFETIME has passed.
Expire(c) ==
    /\ Changed
    /\ c \in proof \ expired
    /\ expired' = expired \cup {c}
    /\ UNCHANGED <<rows, pc, req, reads, before, moved, reviewed, acted, erased>>

\* activate_account, with a stored code that has not expired.
Activate(a) ==
    /\ Changed
    /\ \E c \in proof \ expired : c.account = a
    /\ ~account[a].active /\ ~account[a].verified
    /\ account' = [account EXCEPT ![a].active = TRUE, ![a].verified = TRUE]
    /\ acted' = acted \cup {a}
    /\ UNCHANGED <<member, proof, mailed, audit, pc, req, reads, before>>
    /\ UNCHANGED <<moved, reviewed, expired, erased>>

\* The address is free, and nobody is about to take it.
Free(e) == Owners(e) = {} /\ Inserting(e) = {}

\* confirm_email_change, of who is signed in.
ConfirmEmail(a, e) ==
    /\ Changed
    /\ account[a].active /\ Free(e)
    /\ account' = [account EXCEPT ![a].email = e, ![a].verified = TRUE]
    /\ moved' = moved \cup {a}
    /\ acted' = acted \cup {a}
    /\ UNCHANGED <<member, proof, mailed, audit, pc, req, reads, before>>
    /\ UNCHANGED <<reviewed, expired, erased>>

\* The operator's page of an account, and the page that adds one.
ChangeEmail(a, e) ==
    /\ Changed
    /\ account[a] # NoAccount /\ Free(e)
    /\ account' = [account EXCEPT ![a].email = e]
    /\ moved' = moved \cup {a}
    /\ UNCHANGED <<member, proof, mailed, audit, pc, req, reads, before>>
    /\ UNCHANGED <<reviewed, expired, acted, erased>>

Review(a, active, verified) ==
    /\ Changed
    /\ account[a] # NoAccount
    /\ account' = [account EXCEPT ![a].active = active, ![a].verified = verified]
    /\ reviewed' = reviewed \cup {a}
    /\ UNCHANGED <<member, proof, mailed, audit, pc, req, reads, before>>
    /\ UNCHANGED <<moved, expired, acted, erased>>

AddAccount(a, e, active) ==
    /\ Changed
    /\ a \notin Used /\ Free(e)
    /\ account' = [account EXCEPT ![a] = [email |-> e, active |-> active, verified |-> FALSE]]
    /\ UNCHANGED <<member, proof, mailed, audit, pc, req, reads, before>>
    /\ UNCHANGED <<moved, reviewed, expired, acted, erased>>

\* The page deletes an account that is no member's and has not acted, and its codes
\* with it: Member.account and AuditEvent.actor are PROTECT, AccountProof.user CASCADE.
DeleteAccount(a) ==
    /\ Changed
    /\ account[a] # NoAccount /\ a \notin acted
    /\ \A m \in Members : member[m].account # a
    /\ account' = [account EXCEPT ![a] = NoAccount]
    /\ proof' = {c \in proof : c.account # a}
    /\ erased' = erased \cup {a}
    /\ UNCHANGED <<member, mailed, audit, pc, req, reads, before>>
    /\ UNCHANGED <<moved, reviewed, expired, acted>>

-----------------------------------------------------------------------------
Init ==
    /\ \E s \in Starts : member = s.member /\ account = s.account
    /\ proof = {} /\ mailed = {} /\ audit = {}
    /\ pc = [r \in Requests |-> "idle"]
    /\ req = [r \in Requests |-> None]
    /\ reads = [r \in Requests |-> NoReads]
    /\ before = [r \in Requests |-> {}]
    /\ moved = {} /\ reviewed = {} /\ expired = {} /\ erased = {} /\ changes = 0
    /\ acted \in SUBSET {a \in Accounts : account[a] # NoAccount}

Arrival(r) == \E m \in Members : Arrive(r, m)

Statement(r) ==
    \/ FindMember(r) \/ ReviewIdentity(r) \/ LookupAccount(r) \/ CheckLinked(r)
    \/ InsertAccount(r) \/ LinkMember(r) \/ IssueActivation(r) \/ FailCommit(r) \/ Commit(r)

Change ==
    \/ \E m \in Members : DeleteMember(m)
    \/ \E c \in proof : Expire(c)
    \/ \E a \in Accounts : Activate(a) \/ DeleteAccount(a)
    \/ \E a \in Accounts, e \in Emails : ConfirmEmail(a, e) \/ ChangeEmail(a, e)
    \/ \E a \in Accounts, active, verified \in BOOLEAN : Review(a, active, verified)
    \/ \E a \in Accounts, e \in Emails, active \in BOOLEAN : AddAccount(a, e, active)

\* No invitation is running; the site waits for more.
Quiescent == (\A r \in Requests : pc[r] \notin Working) /\ UNCHANGED vars

Next == (\E r \in Requests : Arrival(r) \/ Statement(r) \/ Crash(r)) \/ Change \/ Quiescent

Spec == Init /\ [][Next]_vars

-----------------------------------------------------------------------------
(* Properties.                                                             *)

\* The shape of the state.
TypeOK ==
    /\ member \in [Members -> Member]
    /\ account \in [Accounts -> Account]
    /\ mailed \in SUBSET [request : Requests, account : Accounts]
    /\ proof \subseteq mailed
    /\ audit \subseteq [request : Requests, member : Members, account : Accounts, created : BOOLEAN]
    /\ pc \in [Requests -> {"idle"} \cup Working \cup Answered]
    /\ req \in [Requests -> Members \cup {None}]
    /\ reads \in [Requests -> Reads]
    /\ before \in [Requests -> SUBSET Requests]
    /\ moved \subseteq Accounts /\ reviewed \subseteq Accounts
    /\ expired \subseteq mailed /\ acted \subseteq Accounts /\ erased \subseteq Accounts
    /\ changes \in 0 .. MaxChanges

Overlap(r, q) == r \notin before[q] /\ q \notin before[r]

\* invite_member reads the member's account without a lock.  A member is invited
\* twice only by requests that overlapped, and to one account which was there
\* before both; only when the address of one of its accounts has moved meanwhile
\* can one invitation replace the account that another has set.
InvitedOnce ==
    \A e, f \in audit :
        e.request # f.request /\ e.member = f.member =>
            /\ Overlap(e.request, f.request)
            /\ \/ e.account = f.account /\ ~e.created /\ ~f.created
               \/ \E g \in audit : g.member = e.member /\ g.account \in moved

\* The code is mailed before the commit: every code that was mailed is stored
\* unless its request is still running or its process died, or the operator has
\* deleted the account, under a running invitation too, whose commit then fails:
\* nothing else makes an invitation fail once the code is in the mail.
MailedCodesAreStored ==
    \A c \in mailed :
        c \in proof \/ pc[c.request] \in {"commit", "crashed"} \/ c.account \in erased

\* issue_activation judges the account that was read earlier, and the operator may
\* delete accounts and their codes: no member is left with an account that was
\* never activated and for which no code is stored, unless the operator closed it.
\* That code may have expired by then, and the member is not invited again.
InvitedHaveACode ==
    \A m \in Members :
        LET a == member[m].account IN
            a # None /\ a \notin reviewed /\ ~account[a].active =>
                \E c \in proof : c.account = a
=============================================================================
