------------------------- MODULE InvitationsProofs -------------------------
(***************************************************************************)
(* Safety of Invitations for every set of invitations, members, accounts   *)
(* and addresses.  The inductive invariant IInv says which account an      *)
(* invitation has in hand at each statement and what has become of every   *)
(* code in the mail.                                                       *)
(* OnceInv, inductive together with it, relates the invitations of one     *)
(* member and says what has become of the accounts that they found.        *)
(***************************************************************************)
EXTENDS Invitations, TLAPS

\* An invitation that has inserted its account, or is about to use one.
Inserted == {"link", "issue", "commit"}

Chosen == {"linked"} \cup Inserted

\* An account that was active when it was read still is, or the operator has
\* closed or deleted it; one that was not has a code by the time of the commit.
RequestOK(r) ==
    /\ pc[r] \in Working => req[r] \in Members
    /\ pc[r] \in {"idle"} \cup (Working \ Chosen) => ~reads[r].active
    /\ pc[r] \in Chosen =>
          /\ reads[r].account \in Accounts
          /\ reads[r].active =>
                account[reads[r].account].active \/ reads[r].account \in reviewed \cup erased
    /\ reads[r].created => ~reads[r].active
    /\ pc[r] = "commit" /\ ~reads[r].active => Code(r) \in mailed

\* MailedCodesAreStored, with the code that a running request is about to store.
CodeOK(c) ==
    \/ c \in proof
    \/ pc[c.request] = "commit" /\ c.account = reads[c.request].account
    \/ pc[c.request] = "crashed"
    \/ c.account \in erased

IInv ==
    /\ TypeOK
    /\ InvitedHaveACode
    /\ \A r \in Requests : RequestOK(r)
    /\ \A c \in mailed : CodeOK(c)

-----------------------------------------------------------------------------
(* What keeps a member from being invited twice.  The address of a member  *)
(* never changes, so all its invitations are about one address: two that   *)
(* commit have the account that had the address, unless it moved.          *)

Exists(a) == account[a] # NoAccount

\* Past the review of the member it found.
Reviewed == {"lookup", "linked", "insert"} \cup Inserted

\* One of the accounts that the invitations of a member set has another address now.
AnotherMoved(m) == \E g \in audit : g.member = m /\ g.account \in moved

\* An account that an invitation of m uses: it had the member's address.
Holds(a, m) == Exists(a) /\ (a \in moved \/ account[a].email = member[m].email)

\* The account in hand: nobody has the address of one that is being created, and
\* one that was found had it, or has been deleted.
InHand(r) ==
    /\ reads[r].created =>
          /\ pc[r] \in Inserted
          /\ ~Exists(reads[r].account) /\ reads[r].account \notin erased
          /\ Owners(reads[r].email) = {}
    /\ pc[r] \in {"review"} \cup Reviewed =>
          reads[r].email \in Emails /\ reads[r].email = member[req[r]].email
    /\ pc[r] \in {"linked"} \cup Inserted /\ ~reads[r].created =>
          Holds(reads[r].account, req[r]) \/ reads[r].account \in erased

\* Two invitations create neither one address nor one account.
Apart(r, q) ==
    reads[r].created /\ reads[q].created =>
        reads[r].email # reads[q].email /\ reads[r].account # reads[q].account

\* An invitation that arrives after another of its member was answered finds the
\* account that was set, and is refused.
Late(r) ==
    /\ \A q \in before[r] : pc[q] \in Answered
    /\ \A e \in audit : e.request \in before[r] /\ e.member = req[r] =>
          /\ pc[r] \notin Reviewed \cup {"ok"}
          /\ pc[r] = "review" => reads[r].account # None

\* CheckLinked finds the member of an account that an invitation created.
PastCheck(r) ==
    pc[r] \in Inserted /\ ~reads[r].created =>
        \A e \in audit :
            e.member = req[r] /\ e.created /\ e.account = reads[r].account =>
                AnotherMoved(req[r])

\* An account set for a member had its address, and the last one set is there; one
\* that another has replaced may be deleted.
EventOK(e) ==
    /\ pc[e.request] = "ok"
    /\ \A f \in audit : f.request = e.request => f = e
    /\ Holds(e.account, e.member) \/ AnotherMoved(e.member)
    /\ \E g \in audit : g.member = e.member /\ g.account = member[e.member].account

\* uq_accounts_user_normalized_email.
AccountOK(a) ==
    Exists(a) => /\ account[a].email # None
                 /\ \A b \in Accounts \ {a} : account[b].email # account[a].email

OnceInv ==
    /\ InvitedOnce
    /\ \A r \in Requests : InHand(r) /\ Late(r) /\ PastCheck(r)
    /\ \A r \in Requests : \A q \in Requests \ {r} : Apart(r, q)
    /\ \A e \in audit : EventOK(e)
    /\ \A a \in Accounts : AccountOK(a)
    /\ \A c \in proof : Exists(c.account)
    /\ \A a \in erased : ~Exists(a)

-----------------------------------------------------------------------------
LEMMA InitIInv == Init => IInv
<1> SUFFICES ASSUME Init PROVE IInv
  OBVIOUS
<1> PICK s \in Starts : member = s.member /\ account = s.account
  BY DEF Init
<1>1. member \in [Members -> Member] /\ account \in [Accounts -> Account]
  BY StartsAssumption
<1>2. NoReads \in Reads /\ ~NoReads.created
  BY DEF NoReads, Reads
<1>3. TypeOK
  BY <1>1, <1>2, MaxChangesAssumption DEF Init, TypeOK
<1>4. InvitedHaveACode
  BY StartsLinkedAssumption DEF InvitedHaveACode
<1>5. QED
  BY <1>3, <1>4 DEF Init, IInv, RequestOK, CodeOK, Working, Chosen, Inserted, NoReads

\* What a request knows does not depend on what others do, as long as they
\* leave active accounts active, but for the operator's reviews and deletions.
LEMMA Undisturbed ==
    ASSUME TypeOK, NEW q \in Requests, RequestOK(q),
           pc'[q] = pc[q], req'[q] = req[q], reads'[q] = reads[q],
           mailed \subseteq mailed',
           \A a \in Accounts : account[a].active =>
               account'[a].active \/ a \in reviewed' \cup erased',
           reviewed \subseteq reviewed', erased \subseteq erased'
    PROVE  RequestOK(q)'
BY DEF RequestOK, Code

\* A code keeps its state while its request stands where it stood.
LEMMA CodeKept ==
    ASSUME NEW c, CodeOK(c), proof \subseteq proof', erased \subseteq erased',
           pc'[c.request] = pc[c.request], reads'[c.request] = reads[c.request]
    PROVE  CodeOK(c)'
BY DEF CodeOK

\* A statement that writes nothing and does not mail: InvitedHaveACode is about
\* rows, and a code that its request leaves unstored is one of a crash or of an
\* account that was deleted.
LEMMA ContinueSafe ==
    ASSUME IInv, NEW r \in Requests, NEW next, NEW new,
           Continue(r, next, new), pc[r] \in Working,
           next \in Working \cup Answered, new \in Reads,
           pc[r] = "commit" =>
               next = "crashed" \/ (next = "error" /\ reads[r].account \in erased),
           new.created => ~new.active,
           next \in Working => req[r] \in Members,
           next \in Working \ Chosen => ~new.active,
           next \in Chosen =>
               /\ new.account \in Accounts
               /\ new.active => account[new.account].active \/ new.account \in reviewed \cup erased,
           next = "commit" => new.active
    PROVE  IInv'
<1>1. /\ UNCHANGED <<member, account, proof, mailed, audit, req, before, others>>
      /\ UNCHANGED <<moved, reviewed, expired, acted, erased, changes>>
      /\ pc' = [pc EXCEPT ![r] = next] /\ reads' = [reads EXCEPT ![r] = new]
  BY DEF Continue, Goto, rows, others
<1>2. TypeOK
  BY DEF IInv
<1>3. pc'[r] = next /\ reads'[r] = new
  BY <1>1, <1>2 DEF TypeOK
<1>4. \A q \in Requests \ {r} : pc'[q] = pc[q] /\ reads'[q] = reads[q]
  BY <1>1, <1>2 DEF TypeOK
<1>5. TypeOK'
  BY <1>1, <1>2 DEF TypeOK
<1>6. InvitedHaveACode'
  BY <1>1 DEF IInv, InvitedHaveACode
<1>7. ASSUME NEW q \in Requests PROVE RequestOK(q)'
  <2>1. CASE q # r
    BY <1>1, <1>2, <1>4, <2>1, Undisturbed DEF IInv
  <2>2. CASE q = r
    BY <1>1, <1>3, <2>2 DEF RequestOK, Answered, Working
  <2>3. QED
    BY <2>1, <2>2
<1>8. ASSUME NEW c \in mailed' PROVE CodeOK(c)'
  <2>1. c.request \in Requests /\ CodeOK(c)
    BY <1>1, <1>2 DEF IInv, TypeOK
  <2>2. CASE c.request # r
    BY <1>1, <1>4, <2>1, <2>2, CodeKept
  <2>3. CASE c.request = r
    BY <1>1, <1>3, <2>1, <2>3 DEF CodeOK, Working, Answered, IInv
  <2>4. QED
    BY <2>2, <2>3
<1>9. QED
  BY <1>5, <1>6, <1>7, <1>8 DEF IInv

-----------------------------------------------------------------------------
(* The statements of an invitation.                                        *)

LEMMA FindMemberStep == ASSUME IInv, NEW r \in Requests, FindMember(r) PROVE IInv'
<1>1. TypeOK /\ pc[r] = "find" /\ req[r] \in Members
  BY DEF FindMember, IInv, RequestOK, Working
<1>2. NoReads \in Reads /\ ~NoReads.created
  BY DEF NoReads, Reads
<1>3. CASE Refuse(r, "refused")
  BY <1>1, <1>2, <1>3, ContinueSafe DEF Refuse, Working, Answered, Chosen, Inserted
<1>4. CASE Continue(r, "review", [NoReads EXCEPT !.email = member[req[r]].email,
                                                 !.account = member[req[r]].account])
  <2> DEFINE new == [NoReads EXCEPT !.email = member[req[r]].email,
                                    !.account = member[req[r]].account]
  <2>1. new \in Reads /\ ~new.active /\ ~new.created
    BY <1>1 DEF TypeOK, Member, NoReads, Reads
  <2> HIDE DEF new
  <2>2. Continue(r, "review", new)
    BY <1>4 DEF new
  <2>3. QED
    BY <1>1, <2>1, <2>2, ContinueSafe DEF Working, Chosen, Inserted
<1>5. QED
  BY <1>3, <1>4 DEF FindMember

LEMMA ReviewIdentityStep == ASSUME IInv, NEW r \in Requests, ReviewIdentity(r) PROVE IInv'
<1>1. /\ pc[r] = "review" /\ req[r] \in Members /\ reads[r] \in Reads /\ ~reads[r].active
      /\ Refuse(r, "refused") \/ Continue(r, "lookup", reads[r])
  BY DEF ReviewIdentity, IInv, TypeOK, RequestOK, Working, Chosen, Inserted
<1>2. NoReads \in Reads /\ ~NoReads.created
  BY DEF NoReads, Reads
<1>3. QED
  BY <1>1, <1>2, ContinueSafe DEF Refuse, Working, Answered, Chosen, Inserted

\* A found account is active exactly when it says so now.
LEMMA LookupAccountStep == ASSUME IInv, OnceInv, NEW r \in Requests, LookupAccount(r) PROVE IInv'
<1>1. /\ TypeOK /\ pc[r] = "lookup" /\ req[r] \in Members /\ reads[r] \in Reads
      /\ ~reads[r].active /\ ~reads[r].created
  BY DEF LookupAccount, IInv, OnceInv, InHand, TypeOK, RequestOK, Working, Chosen, Inserted
<1>2. CASE Continue(r, "insert", reads[r])
  BY <1>1, <1>2, ContinueSafe DEF Working, Chosen, Inserted
<1>3. CASE Refuse(r, "refused")
  <2>1. NoReads \in Reads /\ ~NoReads.created
    BY DEF NoReads, Reads
  <2>2. QED
    BY <1>1, <1>3, <2>1, ContinueSafe DEF Refuse, Working, Answered, Chosen, Inserted
<1>4. ASSUME NEW a \in Accounts,
             Continue(r, "linked", [reads[r] EXCEPT !.account = a, !.active = account[a].active])
      PROVE  IInv'
  <2> DEFINE new == [reads[r] EXCEPT !.account = a, !.active = account[a].active]
  <2>1. new \in Reads
    BY <1>1 DEF TypeOK, Account, Reads
  <2>2. new.account = a /\ new.active = account[a].active /\ ~new.created
    BY <1>1 DEF Reads
  <2>3. Continue(r, "linked", new)
    BY <1>4
  <2> HIDE DEF new
  <2>4. QED
    BY <1>1, <2>1, <2>2, <2>3, ContinueSafe DEF Working, Chosen, Inserted
<1>5. QED
  BY <1>2, <1>3, <1>4 DEF LookupAccount, Owners

LEMMA CheckLinkedStep == ASSUME IInv, NEW r \in Requests, CheckLinked(r) PROVE IInv'
<1>1. /\ pc[r] = "linked" /\ req[r] \in Members /\ reads[r] \in Reads
      /\ reads[r].account \in Accounts
      /\ reads[r].active =>
            account[reads[r].account].active \/ reads[r].account \in reviewed \cup erased
      /\ reads[r].created => ~reads[r].active
      /\ Refuse(r, "refused") \/ Continue(r, "link", reads[r])
  BY DEF CheckLinked, IInv, TypeOK, RequestOK, Working, Chosen, Inserted
<1>2. NoReads \in Reads /\ ~NoReads.created
  BY DEF NoReads, Reads
<1>3. QED
  BY <1>1, <1>2, ContinueSafe DEF Refuse, Working, Answered, Chosen, Inserted

\* An account that is created is not active, whatever was read before.
LEMMA InsertAccountStep == ASSUME IInv, NEW r \in Requests, InsertAccount(r) PROVE IInv'
<1>1. /\ pc[r] = "insert" /\ req[r] \in Members /\ reads[r] \in Reads /\ ~reads[r].active
  BY DEF InsertAccount, IInv, TypeOK, RequestOK, Working, Chosen, Inserted
<1>2. CASE Refuse(r, "error")
  <2>1. NoReads \in Reads /\ ~NoReads.created
    BY DEF NoReads, Reads
  <2>2. QED
    BY <1>1, <1>2, <2>1, ContinueSafe DEF Refuse, Working, Answered, Chosen, Inserted
<1>3. ASSUME NEW a \in Accounts,
             Continue(r, "link", [reads[r] EXCEPT !.account = a, !.created = TRUE])
      PROVE  IInv'
  <2> DEFINE half == [reads[r] EXCEPT !.account = a]
             new == [reads[r] EXCEPT !.account = a, !.created = TRUE]
  <2>1. half \in Reads /\ half.account = a /\ half.active = reads[r].active
    BY <1>1 DEF Reads
  <2>2. new \in Reads /\ new.account = a /\ ~new.active
    <3>1. new = [half EXCEPT !.created = TRUE]
      OBVIOUS
    <3> HIDE DEF half, new
    <3>2. QED
      BY <1>1, <2>1, <3>1 DEF Reads
  <2>3. Continue(r, "link", new)
    BY <1>3
  <2> HIDE DEF new
  <2>4. QED
    BY <1>1, <2>2, <2>3, ContinueSafe DEF Working, Chosen, Inserted
<1>4. QED
  <2> DEFINE a == CHOOSE b \in Accounts : b \notin Used
  <2>1. CASE Refuse(r, "error")
    BY <1>2, <2>1
  <2>2. CASE /\ Accounts \ Used # {}
             /\ Continue(r, "link", [reads[r] EXCEPT !.account = a, !.created = TRUE])
    <3>1. a \in Accounts
      BY <2>2
    <3>2. QED
      BY <1>3, <2>2, <3>1
  <2>3. QED
    BY <2>1, <2>2 DEF InsertAccount

LEMMA LinkMemberStep == ASSUME IInv, NEW r \in Requests, LinkMember(r) PROVE IInv'
<1>1. /\ pc[r] = "link" /\ req[r] \in Members /\ reads[r] \in Reads
      /\ reads[r].account \in Accounts
      /\ reads[r].active =>
            account[reads[r].account].active \/ reads[r].account \in reviewed \cup erased
      /\ reads[r].created => ~reads[r].active
  BY DEF LinkMember, IInv, TypeOK, RequestOK, Working, Chosen, Inserted
<1>2. CASE Refuse(r, "error")
  <2>1. NoReads \in Reads /\ ~NoReads.created
    BY DEF NoReads, Reads
  <2>2. QED
    BY <1>1, <1>2, <2>1, ContinueSafe DEF Refuse, Working, Answered, Chosen, Inserted
<1>3. CASE reads[r].active /\ Continue(r, "commit", reads[r])
  BY <1>1, <1>3, ContinueSafe DEF Working, Chosen, Inserted
<1>4. CASE Continue(r, "issue", reads[r])
  BY <1>1, <1>4, ContinueSafe DEF Working, Chosen, Inserted
<1>5. QED
  BY <1>2, <1>3, <1>4 DEF LinkMember

LEMMA CrashStep == ASSUME IInv, NEW r \in Requests, Crash(r) PROVE IInv'
<1>1. NoReads \in Reads /\ ~NoReads.created
  BY DEF NoReads, Reads
<1>2. QED
  BY <1>1, ContinueSafe DEF Crash, Refuse, Working, Answered, Chosen, Inserted

\* Only an account that was found can have been deleted, and its codes went with it.
LEMMA FailCommitStep == ASSUME IInv, OnceInv, NEW r \in Requests, FailCommit(r) PROVE IInv'
<1>1. NoReads \in Reads /\ ~NoReads.created
  BY DEF NoReads, Reads
<1>2. reads[r].account \in erased
  BY DEF FailCommit, Missing, OnceInv, InHand, Holds, Exists, Inserted
<1>3. QED
  BY <1>1, <1>2, ContinueSafe DEF FailCommit, Refuse, Working, Answered, Chosen, Inserted

LEMMA IssueActivationStep == ASSUME IInv, NEW r \in Requests, IssueActivation(r) PROVE IInv'
<1>1. /\ TypeOK /\ pc[r] = "issue" /\ req[r] \in Members /\ reads[r].account \in Accounts
      /\ pc' = [pc EXCEPT ![r] = "commit"] /\ mailed' = mailed \cup {Code(r)}
      /\ UNCHANGED <<member, account, proof, audit, req, reads, before>>
      /\ UNCHANGED <<moved, reviewed, expired, acted, erased, changes>>
  BY DEF IssueActivation, Goto, others, IInv, RequestOK, Working, Chosen, Inserted
<1>2. /\ pc'[r] = "commit" /\ \A q \in Requests \ {r} : pc'[q] = pc[q]
      /\ reads'[r] = reads[r] /\ Code(r)' = Code(r)
  BY <1>1 DEF TypeOK, Code
<1>3. TypeOK'
  BY <1>1 DEF TypeOK, Code, Working
<1>4. InvitedHaveACode'
  BY <1>1 DEF IInv, InvitedHaveACode
<1>5. ASSUME NEW q \in Requests PROVE RequestOK(q)'
  <2>1. CASE q # r
    BY <1>1, <1>2, <2>1, Undisturbed DEF IInv
  <2>2. CASE q = r
    <3>1. RequestOK(r)
      BY DEF IInv
    <3>2. QED
      BY <1>1, <1>2, <2>2, <3>1 DEF RequestOK, Chosen, Inserted, Working
  <2>3. QED
    BY <2>1, <2>2
<1>6. ASSUME NEW c \in mailed' PROVE CodeOK(c)'
  <2>1. CASE c = Code(r)
    BY <1>2, <2>1 DEF CodeOK, Code
  <2>2. CASE c \in mailed /\ c.request # r
    BY <1>1, <1>2, <2>2, CodeKept DEF IInv, TypeOK
  <2>3. CASE c \in mailed /\ c.request = r
    BY <1>1, <2>3 DEF IInv, CodeOK
  <2>4. QED
    BY <1>1, <2>1, <2>2, <2>3
<1>7. QED
  BY <1>3, <1>4, <1>5, <1>6 DEF IInv

\* The member's account is active, or the code that it needs is stored with it.
LEMMA CommitStep == ASSUME IInv, OnceInv, NEW r \in Requests, Commit(r) PROVE IInv'
<1> DEFINE m == req[r]
           a == reads[r].account
<1>1. /\ TypeOK /\ RequestOK(r) /\ pc[r] = "commit" /\ m \in Members /\ a \in Accounts
      /\ reads[r] \in Reads
  BY DEF Commit, IInv, TypeOK, RequestOK, Working, Chosen, Inserted
<1>2. /\ member' = [member EXCEPT ![m].account = a]
      /\ account' = IF reads[r].created THEN [account EXCEPT ![a].email = reads[r].email]
                                        ELSE account
      /\ proof' = proof \cup (mailed \cap {Code(r)})
      /\ audit' = audit \cup {[request |-> r, member |-> m, account |-> a,
                               created |-> reads[r].created]}
      /\ pc' = [pc EXCEPT ![r] = "ok"] /\ reads' = [reads EXCEPT ![r] = NoReads]
      /\ UNCHANGED <<mailed, req, before, moved, reviewed, expired, acted, erased, changes>>
  BY DEF Commit, Goto, others
<1>3. a \notin erased /\ \A b \in Accounts : account'[b].active = account[b].active
  <2>1. a \notin erased
    BY <1>1 DEF Commit, Missing, OnceInv, InHand, Exists
  <2>2. QED
    BY <1>1, <1>2, <2>1 DEF TypeOK, Account
<1>4. /\ member'[m].account = a
      /\ \A n \in Members \ {m} : member'[n].account = member[n].account
  BY <1>1, <1>2 DEF TypeOK, Member
<1>5. /\ pc'[r] = "ok" /\ reads'[r] = NoReads
      /\ \A q \in Requests \ {r} : pc'[q] = pc[q] /\ reads'[q] = reads[q]
  BY <1>1, <1>2 DEF TypeOK
<1>6. TypeOK'
  <2>1. member' \in [Members -> Member]
    BY <1>1, <1>2 DEF TypeOK, Member
  <2>2. account' \in [Accounts -> Account]
    BY <1>1, <1>2 DEF TypeOK, Account, Reads
  <2>3. NoReads \in Reads /\ ~NoReads.created
    BY DEF NoReads, Reads
  <2>4. pc' \in [Requests -> {"idle"} \cup Working \cup Answered] /\ reads' \in [Requests -> Reads]
    BY <1>1, <1>2, <2>3 DEF TypeOK, Answered
  <2>5. audit' \subseteq [request : Requests, member : Members, account : Accounts,
                         created : BOOLEAN]
    BY <1>1, <1>2 DEF TypeOK, Reads
  <2>6. QED
    BY <1>1, <1>2, <2>1, <2>2, <2>4, <2>5 DEF TypeOK
<1>7. ASSUME NEW n \in Members, NEW b, b = member'[n].account, b # None, b \notin reviewed',
             ~account'[b].active
      PROVE  \E c \in proof' : c.account = b
  <2>1. CASE n = m
    BY <1>1, <1>2, <1>3, <1>4, <1>7, <2>1 DEF RequestOK, Code, Chosen, Inserted
  <2>2. CASE n # m
    <3>1. b \in Accounts /\ b = member[n].account
      BY <1>1, <1>4, <1>7, <2>2 DEF TypeOK, Member
    <3>2. QED
      BY <1>2, <1>3, <1>7, <3>1 DEF IInv, InvitedHaveACode
  <2>3. QED
    BY <2>1, <2>2
<1>8. InvitedHaveACode'
  BY <1>7 DEF InvitedHaveACode
<1>9. ASSUME NEW q \in Requests PROVE RequestOK(q)'
  <2>1. CASE q # r
    BY <1>1, <1>2, <1>3, <1>5, <2>1, Undisturbed DEF IInv
  <2>2. CASE q = r
    BY <1>5, <2>2 DEF RequestOK, Working, Chosen, Inserted, NoReads
  <2>3. QED
    BY <2>1, <2>2
<1>10. ASSUME NEW c \in mailed' PROVE CodeOK(c)'
  <2>1. /\ c \in [request : Requests, account : Accounts] /\ CodeOK(c) /\ c \in mailed
    BY <1>1, <1>2 DEF IInv, TypeOK
  <2>2. CASE c.request # r
    BY <1>2, <1>5, <2>1, <2>2, CodeKept
  <2>3. CASE c.request = r
    <3>1. c = Code(r) \/ c \in proof \/ c.account \in erased
      BY <1>1, <2>1, <2>3 DEF CodeOK, Code
    <3>2. QED
      BY <1>2, <2>1, <3>1 DEF CodeOK
  <2>4. QED
    BY <2>2, <2>3
<1>11. QED
  BY <1>6, <1>8, <1>9, <1>10 DEF IInv

LEMMA ArrivalStep == ASSUME IInv, NEW r \in Requests, Arrival(r) PROVE IInv'
<1> PICK m \in Members : Arrive(r, m)
  BY DEF Arrival
<1>1. /\ TypeOK /\ RequestOK(r) /\ pc[r] = "idle"
      /\ pc' = [pc EXCEPT ![r] = "find"] /\ req' = [req EXCEPT ![r] = m]
      /\ before' = [before EXCEPT ![r] = {q \in Requests : pc[q] \in Answered}]
      /\ UNCHANGED <<member, account, proof, mailed, audit, reads>>
      /\ UNCHANGED <<moved, reviewed, expired, acted, erased, changes>>
  BY DEF Arrive, Goto, rows, others, IInv
<1>2. /\ pc'[r] = "find" /\ req'[r] = m
      /\ \A q \in Requests \ {r} : pc'[q] = pc[q] /\ req'[q] = req[q]
  BY <1>1 DEF TypeOK
<1>3. TypeOK'
  BY <1>1 DEF TypeOK, Working
<1>4. InvitedHaveACode'
  BY <1>1 DEF IInv, InvitedHaveACode
<1>5. ASSUME NEW q \in Requests PROVE RequestOK(q)'
  <2>1. CASE q # r
    BY <1>1, <1>2, <2>1, Undisturbed DEF IInv
  <2>2. CASE q = r
    BY <1>1, <1>2, <2>2 DEF RequestOK, Working, Chosen, Inserted
  <2>3. QED
    BY <2>1, <2>2
<1>6. ASSUME NEW c \in mailed' PROVE CodeOK(c)'
  <2>1. CASE c.request # r
    BY <1>1, <1>2, <2>1, CodeKept DEF IInv, TypeOK
  <2>2. CASE c.request = r
    BY <1>1, <2>2 DEF IInv, CodeOK
  <2>3. QED
    BY <2>1, <2>2
<1>7. QED
  BY <1>3, <1>4, <1>5, <1>6 DEF IInv

-----------------------------------------------------------------------------
(* Changes by others.                                                      *)

\* Whoever changes rows and deletes none leaves active accounts active, or is the
\* operator; and gives no member another account.
LEMMA OthersSafe ==
    ASSUME IInv, TypeOK', UNCHANGED <<proof, mailed, pc, req, reads, erased>>,
           reviewed \subseteq reviewed',
           \A m \in Members : member'[m].account = member[m].account,
           \A a \in Accounts : account[a].active => account'[a].active \/ a \in reviewed'
    PROVE  IInv'
<1>1. TypeOK
  BY DEF IInv
<1>2. InvitedHaveACode'
  <2>1. ASSUME NEW m \in Members, NEW a, a = member'[m].account, a # None, a \notin reviewed',
               ~account'[a].active
        PROVE  \E c \in proof' : c.account = a
    <3>1. a \in Accounts /\ a = member[m].account
      BY <1>1, <2>1 DEF TypeOK, Member
    <3>2. QED
      BY <2>1, <3>1 DEF IInv, InvitedHaveACode
  <2>2. QED
    BY <2>1 DEF InvitedHaveACode
<1>3. ASSUME NEW q \in Requests PROVE RequestOK(q)'
  BY <1>1, Undisturbed DEF IInv
<1>4. ASSUME NEW c \in mailed' PROVE CodeOK(c)'
  BY CodeKept DEF IInv
<1>5. QED
  BY <1>2, <1>3, <1>4 DEF IInv

\* No member has the account that is deleted; whoever has it in hand cannot commit.
LEMMA DeleteAccountStep ==
    ASSUME IInv, NEW a \in Accounts, DeleteAccount(a) PROVE IInv'
<1>1. /\ TypeOK /\ account' = [account EXCEPT ![a] = NoAccount]
      /\ proof' = {c \in proof : c.account # a} /\ erased' = erased \cup {a}
      /\ changes' \in 0 .. MaxChanges /\ \A m \in Members : member[m].account # a
      /\ UNCHANGED <<member, mailed, audit, pc, req, reads, before>>
      /\ UNCHANGED <<moved, reviewed, expired, acted>>
  BY MaxChangesAssumption DEF DeleteAccount, Changed, IInv, TypeOK
<1>2. /\ \A b \in Accounts \ {a} : account'[b] = account[b]
      /\ account' \in [Accounts -> Account]
  BY <1>1 DEF TypeOK, Account, NoAccount
<1>3. TypeOK'
  BY <1>1, <1>2 DEF TypeOK
<1>4. ASSUME NEW m \in Members, NEW b, b = member'[m].account, b # None, b \notin reviewed',
             ~account'[b].active
      PROVE  \E c \in proof' : c.account = b
  <2>1. b \in Accounts \ {a} /\ b = member[m].account
    BY <1>1, <1>4 DEF TypeOK, Member
  <2>2. PICK c \in proof : c.account = b
    BY <1>1, <1>2, <1>4, <2>1 DEF IInv, InvitedHaveACode
  <2>3. QED
    BY <1>1, <2>1, <2>2
<1>5. InvitedHaveACode'
  BY <1>4 DEF InvitedHaveACode
<1>6. ASSUME NEW q \in Requests PROVE RequestOK(q)'
  BY <1>1, <1>2, Undisturbed DEF IInv
<1>7. ASSUME NEW c \in mailed' PROVE CodeOK(c)'
  BY <1>1 DEF IInv, CodeOK
<1>8. QED
  BY <1>3, <1>5, <1>6, <1>7 DEF IInv

LEMMA ChangeStep == ASSUME IInv, OnceInv, Change PROVE IInv'
<1>1. TypeOK /\ changes' \in 0 .. MaxChanges
  <2>1. TypeOK
    BY DEF IInv
  <2>2. Changed
    BY DEF Change, DeleteMember, Expire, Activate, ConfirmEmail, ChangeEmail, Review,
           AddAccount, DeleteAccount
  <2>3. QED
    BY <2>1, <2>2, MaxChangesAssumption DEF Changed, TypeOK
<1>2. ASSUME NEW m \in Members, DeleteMember(m) PROVE IInv'
  <2>1. /\ member' = [member EXCEPT ![m].deleted = TRUE]
        /\ UNCHANGED <<account, proof, mailed, audit, pc, req, reads, before>>
        /\ UNCHANGED <<moved, reviewed, expired, acted, erased>>
    BY <1>2 DEF DeleteMember
  <2>2. member' \in [Members -> Member] /\ \A n \in Members : member'[n].account = member[n].account
    BY <1>1, <2>1 DEF TypeOK, Member
  <2>3. TypeOK'
    BY <1>1, <2>1, <2>2 DEF TypeOK
  <2>4. QED
    BY <2>1, <2>2, <2>3, OthersSafe
<1>3. ASSUME NEW a \in Accounts, Activate(a) PROVE IInv'
  <2>1. /\ account' = [account EXCEPT ![a].active = TRUE, ![a].verified = TRUE]
        /\ acted' = acted \cup {a}
        /\ UNCHANGED <<member, proof, mailed, audit, pc, req, reads, before>>
        /\ UNCHANGED <<moved, reviewed, expired, erased>>
    BY <1>3 DEF Activate
  <2>2. /\ account' \in [Accounts -> Account]
        /\ \A b \in Accounts : account[b].active => account'[b].active
    BY <1>1, <2>1 DEF TypeOK, Account
  <2>3. TypeOK'
    BY <1>1, <2>1, <2>2 DEF TypeOK
  <2>4. QED
    BY <2>1, <2>2, <2>3, OthersSafe
<1>4. ASSUME NEW a \in Accounts, NEW e \in Emails, ChangeEmail(a, e) PROVE IInv'
  <2>1. /\ account' = [account EXCEPT ![a].email = e] /\ moved' = moved \cup {a}
        /\ UNCHANGED <<member, proof, mailed, audit, pc, req, reads, before>>
        /\ UNCHANGED <<reviewed, expired, acted, erased>>
    BY <1>4 DEF ChangeEmail
  <2>2. /\ account' \in [Accounts -> Account]
        /\ \A b \in Accounts : account'[b].active = account[b].active
    BY <1>1, <2>1 DEF TypeOK, Account
  <2>3. TypeOK'
    BY <1>1, <2>1, <2>2 DEF TypeOK
  <2>4. QED
    BY <2>1, <2>2, <2>3, OthersSafe
<1>5. ASSUME NEW a \in Accounts, NEW active \in BOOLEAN, NEW verified \in BOOLEAN,
             Review(a, active, verified)
      PROVE  IInv'
  <2>1. /\ account' = [account EXCEPT ![a].active = active, ![a].verified = verified]
        /\ reviewed' = reviewed \cup {a}
        /\ UNCHANGED <<member, proof, mailed, audit, pc, req, reads, before>>
        /\ UNCHANGED <<moved, expired, acted, erased>>
    BY <1>5 DEF Review
  <2>2. /\ account' \in [Accounts -> Account]
        /\ \A b \in Accounts : account[b].active => account'[b].active \/ b \in reviewed'
    BY <1>1, <2>1 DEF TypeOK, Account
  <2>3. TypeOK'
    BY <1>1, <2>1, <2>2 DEF TypeOK
  <2>4. QED
    BY <2>1, <2>2, <2>3, OthersSafe
<1>6. ASSUME NEW a \in Accounts, NEW e \in Emails, NEW active \in BOOLEAN, AddAccount(a, e, active)
      PROVE  IInv'
  <2>1. /\ account' = [account EXCEPT ![a] = [email |-> e, active |-> active, verified |-> FALSE]]
        /\ account[a] = NoAccount
        /\ UNCHANGED <<member, proof, mailed, audit, pc, req, reads, before>>
        /\ UNCHANGED <<moved, reviewed, expired, acted, erased>>
    BY <1>6 DEF AddAccount, Used
  <2>2. /\ account' \in [Accounts -> Account]
        /\ \A b \in Accounts : account[b].active => account'[b].active
    BY <1>1, <2>1 DEF TypeOK, Account, NoAccount
  <2>3. TypeOK'
    BY <1>1, <2>1, <2>2 DEF TypeOK
  <2>4. QED
    BY <2>1, <2>2, <2>3, OthersSafe
<1>7. ASSUME NEW c \in proof, Expire(c) PROVE IInv'
  <2>1. /\ expired' = expired \cup {c} /\ c \in mailed
        /\ UNCHANGED <<member, account, proof, mailed, audit, pc, req, reads, before>>
        /\ UNCHANGED <<moved, reviewed, acted, erased>>
    BY <1>1, <1>7 DEF Expire, TypeOK, rows
  <2>2. TypeOK'
    BY <1>1, <2>1 DEF TypeOK
  <2>3. QED
    BY <2>1, <2>2, OthersSafe
<1>8. ASSUME NEW a \in Accounts, NEW e \in Emails, ConfirmEmail(a, e) PROVE IInv'
  <2>1. /\ account' = [account EXCEPT ![a].email = e, ![a].verified = TRUE]
        /\ moved' = moved \cup {a} /\ acted' = acted \cup {a}
        /\ UNCHANGED <<member, proof, mailed, audit, pc, req, reads, before>>
        /\ UNCHANGED <<reviewed, expired, erased>>
    BY <1>8 DEF ConfirmEmail
  <2>2. /\ account' \in [Accounts -> Account]
        /\ \A b \in Accounts : account'[b].active = account[b].active
    BY <1>1, <2>1 DEF TypeOK, Account
  <2>3. TypeOK'
    BY <1>1, <2>1, <2>2 DEF TypeOK
  <2>4. QED
    BY <2>1, <2>2, <2>3, OthersSafe
<1>9. ASSUME NEW a \in Accounts, DeleteAccount(a) PROVE IInv'
  BY <1>9, DeleteAccountStep
<1>10. QED
  BY <1>2, <1>3, <1>4, <1>5, <1>6, <1>7, <1>8, <1>9 DEF Change

LEMMA Stutter == ASSUME IInv, UNCHANGED vars PROVE IInv'
<1>1. /\ UNCHANGED <<member, account, proof, mailed, audit, pc, req, reads, before>>
      /\ UNCHANGED <<moved, reviewed, expired, acted, erased, changes>>
  BY DEF vars, rows, others
<1>2. TypeOK'
  BY <1>1 DEF IInv, TypeOK
<1>3. QED
  BY <1>1, <1>2, OthersSafe

LEMMA StepIInv == IInv /\ OnceInv /\ [Next]_vars => IInv'
<1> SUFFICES ASSUME IInv, OnceInv, [Next]_vars PROVE IInv'
  OBVIOUS
<1>1. ASSUME NEW r \in Requests, Statement(r) PROVE IInv'
  BY <1>1, FindMemberStep, ReviewIdentityStep, LookupAccountStep, CheckLinkedStep,
     InsertAccountStep, LinkMemberStep, IssueActivationStep, FailCommitStep, CommitStep
  DEF Statement
<1>2. QED
  BY <1>1, ArrivalStep, CrashStep, ChangeStep, Stutter DEF Next, Quiescent

-----------------------------------------------------------------------------
(* The invitations of one member.                                         *)

\* The step of a request, or of somebody else, leaves another invitation where it is.
Elsewhere(q) == pc'[q] = pc[q] /\ req'[q] = req[q] /\ reads'[q] = reads[q] /\ before'[q] = before[q]

RowsStay == UNCHANGED <<member, account, proof, audit, moved, erased>>

LEMMA InitOnce == Init => OnceInv
<1> SUFFICES ASSUME Init PROVE OnceInv
  OBVIOUS
<1>1. /\ audit = {} /\ proof = {}
      /\ \A r \in Requests : pc[r] = "idle" /\ ~reads[r].created /\ before[r] = {}
  BY DEF Init, NoReads
<1>2. \A r \in Requests : InHand(r) /\ Late(r) /\ PastCheck(r)
  BY <1>1 DEF InHand, Late, PastCheck, Inserted, Reviewed
<1>3. \A a \in Accounts : AccountOK(a)
  BY StartsUniqueAssumption DEF Init, AccountOK, Exists
<1>4. erased = {}
  BY DEF Init
<1>5. QED
  BY <1>1, <1>2, <1>3, <1>4 DEF OnceInv, InvitedOnce, Apart

\* A statement that writes no row.
LEMMA RowsStayOnce ==
    ASSUME IInv, OnceInv, NEW r \in Requests, pc[r] \notin Answered, RowsStay,
           \A q \in Requests \ {r} : Elsewhere(q),
           InHand(r)', Late(r)', PastCheck(r)',
           reads'[r].created => \A q \in Requests \ {r} :
               reads[q].created => /\ reads'[r].email # reads[q].email
                                   /\ reads'[r].account # reads[q].account
    PROVE  OnceInv'
<1>1. UNCHANGED <<member, account, proof, audit, moved, erased>>
  BY DEF RowsStay
<1>2. \A e \in audit : e.request \in Requests /\ e.request # r /\ EventOK(e)
  BY DEF IInv, TypeOK, OnceInv, EventOK, Answered
<1>3. InvitedOnce'
  BY <1>1, <1>2 DEF OnceInv, InvitedOnce, Overlap, Elsewhere
<1>4. \A e \in audit' : EventOK(e)'
  BY <1>1, <1>2 DEF EventOK, Elsewhere, Holds, Exists, AnotherMoved
<1>5. ASSUME NEW q \in Requests \ {r} PROVE InHand(q)' /\ Late(q)' /\ PastCheck(q)'
  <2>1. Elsewhere(q) /\ InHand(q) /\ Late(q) /\ PastCheck(q)
    BY DEF OnceInv
  <2>2. InHand(q)'
    BY <1>1, <2>1 DEF InHand, Elsewhere, Exists, Owners, Holds
  <2>3. before[q] \in SUBSET Requests /\ r \notin before[q]
    BY <2>1 DEF Late, IInv, TypeOK
  <2>4. \A p \in before'[q] : pc'[p] \in Answered
    BY <2>1, <2>3 DEF Late, Elsewhere
  <2>5. Late(q)'
    BY <1>1, <2>1, <2>4 DEF Late, Elsewhere
  <2>6. PastCheck(q)'
    BY <1>1, <2>1 DEF PastCheck, Elsewhere, AnotherMoved
  <2>7. QED
    BY <2>2, <2>5, <2>6
<1>6. \A p \in Requests : \A q \in Requests \ {p} : Apart(p, q)'
  BY DEF OnceInv, Apart, Elsewhere
<1>7. /\ \A a \in Accounts : AccountOK(a)'
      /\ \A c \in proof' : Exists(c.account)'
      /\ \A a \in erased' : ~Exists(a)'
  BY <1>1 DEF OnceInv, AccountOK, Exists
<1>8. QED
  BY <1>3, <1>4, <1>5, <1>6, <1>7 DEF OnceInv

LEMMA ContinueOnce ==
    ASSUME IInv, OnceInv, NEW r \in Requests, pc[r] \in Working, NEW next, NEW new,
           Continue(r, next, new), InHand(r)', Late(r)', PastCheck(r)',
           new.created => \A q \in Requests \ {r} :
               reads[q].created => new.email # reads[q].email /\ new.account # reads[q].account
    PROVE  OnceInv'
<1>1. /\ pc' = [pc EXCEPT ![r] = next] /\ reads' = [reads EXCEPT ![r] = new]
      /\ UNCHANGED <<rows, req, before, others>>
  BY DEF Continue, Goto
<1>2. reads'[r] = new /\ \A q \in Requests \ {r} : Elsewhere(q)
  BY <1>1 DEF IInv, TypeOK, Elsewhere
<1>3. RowsStay /\ pc[r] \notin Answered
  BY <1>1 DEF RowsStay, rows, others, Working, Answered
<1>4. QED
  BY <1>2, <1>3, RowsStayOnce

\* What a statement that goes on leaves in place.
LEMMA ContinuesWith ==
    ASSUME IInv, NEW r \in Requests, NEW next, NEW new, Continue(r, next, new)
    PROVE  /\ pc'[r] = next /\ reads'[r] = new
           /\ \A q \in Requests \ {r} : pc'[q] = pc[q]
           /\ UNCHANGED <<member, account, proof, audit, moved, erased, req, before>>
  BY DEF Continue, Goto, IInv, TypeOK, rows, others

\* Whom it has to wait for, nobody answers meanwhile.
LEMMA LateStays ==
    ASSUME IInv, OnceInv, NEW r \in Requests, pc[r] \in Working, NEW next, NEW new,
           Continue(r, next, new),
           next \in Answered \ {"ok"} \/ \A e \in audit : ~(e.request \in before[r] /\ e.member = req[r])
    PROVE  Late(r)'
<1>1. /\ pc'[r] = next /\ \A q \in Requests \ {r} : pc'[q] = pc[q]
      /\ UNCHANGED <<audit, req, before>>
  BY ContinuesWith
<1>2. before[r] \in SUBSET Requests /\ Late(r)
  BY DEF IInv, TypeOK, OnceInv
<1>3. r \notin before[r]
  BY <1>2 DEF Late, Working, Answered
<1>4. \A q \in before'[r] : pc'[q] \in Answered
  BY <1>1, <1>2, <1>3 DEF Late
<1>5. next \in Answered \ {"ok"} => next \notin Reviewed \cup {"ok"} /\ next # "review"
  BY DEF Answered, Reviewed, Inserted
<1>6. QED
  BY <1>1, <1>4, <1>5 DEF Late

LEMMA RefuseOnce ==
    ASSUME IInv, OnceInv, NEW r \in Requests, pc[r] \in Working, NEW why \in Answered \ {"ok"},
           Refuse(r, why)
    PROVE  OnceInv'
<1>1. Continue(r, why, NoReads) /\ ~NoReads.created
  BY DEF Refuse, NoReads
<1>2. pc'[r] = why /\ reads'[r] = NoReads
  BY <1>1, ContinuesWith
<1>3. why \notin {"review"} \cup Reviewed \cup {"linked"} \cup Inserted
  BY DEF Answered, Reviewed, Inserted
<1>4. InHand(r)' /\ PastCheck(r)'
  BY <1>1, <1>2, <1>3 DEF InHand, PastCheck
<1>5. Late(r)'
  BY <1>1, LateStays
<1>6. QED
  BY <1>1, <1>4, <1>5, ContinueOnce

LEMMA FindMemberOnce == ASSUME IInv, OnceInv, NEW r \in Requests, FindMember(r) PROVE OnceInv'
<1>1. /\ pc[r] = "find" /\ pc[r] \in Working /\ req[r] \in Members
  BY DEF FindMember, IInv, RequestOK, Working
<1>2. CASE Refuse(r, "refused")
  BY <1>1, <1>2, RefuseOnce DEF Answered
<1>3. CASE /\ member[req[r]].email # None
           /\ Continue(r, "review", [NoReads EXCEPT !.email = member[req[r]].email,
                                                    !.account = member[req[r]].account])
  <2> DEFINE new == [NoReads EXCEPT !.email = member[req[r]].email,
                                    !.account = member[req[r]].account]
  <2>1. /\ new.email = member[req[r]].email /\ new.account = member[req[r]].account
        /\ ~new.created /\ member[req[r]] \in Member
    BY <1>1 DEF NoReads, IInv, TypeOK
  <2>2. new.email \in Emails
    BY <1>3, <2>1 DEF Member
  <2> HIDE DEF new
  <2>3. Continue(r, "review", new)
    BY <1>3 DEF new
  <2>4. /\ pc'[r] = "review" /\ reads'[r] = new /\ \A q \in Requests \ {r} : pc'[q] = pc[q]
        /\ UNCHANGED <<member, account, proof, audit, moved, erased, req, before>>
    BY <2>3, ContinuesWith
  <2>5. InHand(r)' /\ PastCheck(r)'
    BY <2>1, <2>2, <2>4 DEF InHand, PastCheck, Inserted, Reviewed
  <2>6. \A e \in audit : e.member = req[r] => new.account # None
    BY <2>1, NoneAssumption DEF OnceInv, EventOK, IInv, TypeOK
  <2>7. before[r] \in SUBSET Requests /\ Late(r) /\ r \notin before[r]
    BY <1>1 DEF IInv, TypeOK, OnceInv, Late, Answered
  <2>8. Late(r)'
    BY <2>4, <2>6, <2>7 DEF Late, Reviewed, Inserted
  <2>9. QED
    BY <1>1, <2>1, <2>3, <2>5, <2>8, ContinueOnce
<1>4. QED
  BY <1>2, <1>3 DEF FindMember

LEMMA ReviewIdentityOnce ==
    ASSUME IInv, OnceInv, NEW r \in Requests, ReviewIdentity(r) PROVE OnceInv'
<1>1. pc[r] = "review" /\ pc[r] \in Working
  BY DEF ReviewIdentity, Working
<1>2. CASE Refuse(r, "refused")
  BY <1>1, <1>2, RefuseOnce DEF Answered
<1>3. CASE reads[r].account = None /\ Continue(r, "lookup", reads[r])
  <2>1. /\ pc'[r] = "lookup" /\ reads'[r] = reads[r]
        /\ UNCHANGED <<member, account, proof, audit, moved, erased, req, before>>
    BY <1>3, ContinuesWith
  <2>2. InHand(r) /\ Late(r) /\ ~reads[r].created
    BY <1>1 DEF OnceInv, InHand, Inserted
  <2>3. InHand(r)' /\ PastCheck(r)'
    BY <1>1, <2>1, <2>2 DEF InHand, PastCheck, Inserted, Reviewed
  <2>4. Late(r)'
    BY <1>1, <1>3, <2>2, LateStays DEF Late
  <2>5. QED
    BY <1>1, <1>3, <2>2, <2>3, <2>4, ContinueOnce
<1>4. QED
  BY <1>2, <1>3 DEF ReviewIdentity

LEMMA LookupAccountOnce ==
    ASSUME IInv, OnceInv, NEW r \in Requests, LookupAccount(r) PROVE OnceInv'
<1>1. pc[r] = "lookup" /\ pc[r] \in Working
  BY DEF LookupAccount, Working
<1>2. /\ InHand(r) /\ Late(r) /\ ~reads[r].created /\ reads[r] \in Reads
      /\ reads[r].email = member[req[r]].email
      /\ \A e \in audit : ~(e.request \in before[r] /\ e.member = req[r])
  BY <1>1 DEF OnceInv, InHand, Inserted, Reviewed, Late, IInv, TypeOK
<1>3. CASE Refuse(r, "refused")
  BY <1>1, <1>3, RefuseOnce DEF Answered
<1>4. CASE Continue(r, "insert", reads[r])
  <2>1. /\ pc'[r] = "insert" /\ reads'[r] = reads[r]
        /\ UNCHANGED <<member, account, proof, audit, moved, erased, req, before>>
    BY <1>4, ContinuesWith
  <2>2. InHand(r)' /\ PastCheck(r)'
    BY <1>1, <1>2, <2>1 DEF InHand, PastCheck, Inserted, Reviewed
  <2>3. Late(r)'
    BY <1>1, <1>2, <1>4, LateStays
  <2>4. QED
    BY <1>1, <1>2, <1>4, <2>2, <2>3, ContinueOnce
<1>5. ASSUME NEW a \in Owners(reads[r].email),
             Continue(r, "linked", [reads[r] EXCEPT !.account = a, !.active = account[a].active])
      PROVE  OnceInv'
  <2> DEFINE new == [reads[r] EXCEPT !.account = a, !.active = account[a].active]
  <2>1. new.account = a /\ new.email = reads[r].email /\ new.created = reads[r].created
    BY <1>2 DEF Reads
  <2> HIDE DEF new
  <2>2. Continue(r, "linked", new)
    BY <1>5 DEF new
  <2>3. /\ pc'[r] = "linked" /\ reads'[r] = new
        /\ UNCHANGED <<member, account, proof, audit, moved, erased, req, before>>
    BY <2>2, ContinuesWith
  <2>4. Holds(a, req[r])
    BY <1>2 DEF Owners, Holds, Exists
  <2>5. InHand(r)' /\ PastCheck(r)'
    BY <1>1, <1>2, <2>1, <2>3, <2>4 DEF InHand, PastCheck, Inserted, Reviewed, Holds, Exists
  <2>6. Late(r)'
    BY <1>1, <1>2, <2>2, LateStays
  <2>7. QED
    BY <1>1, <1>2, <2>1, <2>2, <2>5, <2>6, ContinueOnce
<1>6. QED
  BY <1>3, <1>4, <1>5 DEF LookupAccount

LEMMA CheckLinkedOnce ==
    ASSUME IInv, OnceInv, NEW r \in Requests, CheckLinked(r) PROVE OnceInv'
<1>1. pc[r] = "linked" /\ pc[r] \in Working
  BY DEF CheckLinked, Working
<1>2. /\ InHand(r) /\ Late(r) /\ ~reads[r].created /\ req[r] \in Members
      /\ \A e \in audit : ~(e.request \in before[r] /\ e.member = req[r])
  BY <1>1 DEF OnceInv, InHand, Inserted, Reviewed, Late, IInv, RequestOK, Working
<1>3. CASE Refuse(r, "refused")
  BY <1>1, <1>3, RefuseOnce DEF Answered
<1>4. CASE /\ Continue(r, "link", reads[r])
           /\ ~\E m \in Members : member[m].account = reads[r].account
  <2>1. /\ pc'[r] = "link" /\ reads'[r] = reads[r]
        /\ UNCHANGED <<member, account, proof, audit, moved, erased, req, before>>
    BY <1>4, ContinuesWith
  <2>2. InHand(r)'
    BY <1>1, <1>2, <2>1 DEF InHand, Inserted, Reviewed, Holds, Exists
  <2>3. ASSUME NEW e \in audit, e.member = req[r], e.account = reads[r].account
        PROVE  AnotherMoved(req[r])
    <3>1. PICK g \in audit : g.member = e.member /\ g.account = member[e.member].account
      BY DEF OnceInv, EventOK
    <3>2. g.account # e.account /\ g.request # e.request
      BY <1>2, <1>4, <2>3, <3>1 DEF OnceInv, EventOK
    <3>3. QED
      BY <2>3, <3>1, <3>2 DEF OnceInv, InvitedOnce, AnotherMoved
  <2>4. PastCheck(r)'
    BY <2>1, <2>3 DEF PastCheck, AnotherMoved
  <2>5. Late(r)'
    BY <1>1, <1>2, <1>4, LateStays
  <2>6. QED
    BY <1>1, <1>2, <1>4, <2>2, <2>4, <2>5, ContinueOnce
<1>5. QED
  BY <1>3, <1>4 DEF CheckLinked

LEMMA InsertAccountOnce ==
    ASSUME IInv, OnceInv, NEW r \in Requests, InsertAccount(r) PROVE OnceInv'
<1>1. pc[r] = "insert" /\ pc[r] \in Working
  BY DEF InsertAccount, Working
<1>2. /\ InHand(r) /\ Late(r) /\ reads[r] \in Reads
      /\ \A e \in audit : ~(e.request \in before[r] /\ e.member = req[r])
  BY <1>1 DEF OnceInv, InHand, Inserted, Reviewed, Late, IInv, TypeOK
<1>3. CASE Refuse(r, "error")
  BY <1>1, <1>3, RefuseOnce DEF Answered
<1>4. CASE Owners(reads[r].email) = {} /\ ~Refuse(r, "error")
  <2>1. PICK a : a \in Accounts /\ a \notin Used
                 /\ a = CHOOSE b \in Accounts : b \notin Used
    BY <1>4 DEF InsertAccount
  <2> DEFINE new == [reads[r] EXCEPT !.account = a, !.created = TRUE]
  <2>2. new.account = a /\ new.email = reads[r].email /\ new.created
    BY <1>2 DEF Reads
  <2>3. Continue(r, "link", new)
    BY <1>4, <2>1 DEF InsertAccount
  <2> HIDE DEF new
  <2>4. /\ pc'[r] = "link" /\ reads'[r] = new
        /\ UNCHANGED <<member, account, proof, audit, moved, erased, req, before>>
    BY <2>3, ContinuesWith
  <2>5. ~Exists(a) /\ a \notin erased /\ \A q \in Requests : reads[q].account # a
    BY <2>1 DEF Used, Exists
  <2>6. InHand(r)' /\ PastCheck(r)'
    BY <1>1, <1>2, <1>4, <2>2, <2>4, <2>5
       DEF InHand, PastCheck, Inserted, Reviewed, Exists, Owners
  <2>7. ASSUME NEW q \in Requests, reads[q].created
        PROVE  new.email # reads[q].email /\ new.account # reads[q].account
    <3>1. pc[q] \in Inserted
      BY <2>7 DEF OnceInv, InHand
    <3>2. q \notin Inserting(reads[r].email)
      BY <1>4 DEF InsertAccount
    <3>3. QED
      BY <2>2, <2>5, <2>7, <3>1, <3>2 DEF Inserting, Inserted
  <2>8. Late(r)'
    BY <1>1, <1>2, <2>3, LateStays
  <2>9. QED
    BY <1>1, <2>3, <2>6, <2>7, <2>8, ContinueOnce
<1>5. QED
  BY <1>3, <1>4 DEF InsertAccount

\* From the member's row to the commit nothing is read.
LEMMA StillInHand ==
    ASSUME IInv, OnceInv, NEW r \in Requests, pc[r] \in Inserted, pc'[r] \in Inserted,
           reads'[r] = reads[r], UNCHANGED <<req, before>>, RowsStay
    PROVE  InHand(r)' /\ PastCheck(r)'
<1>1. InHand(r) /\ PastCheck(r)
  BY DEF OnceInv
<1>2. QED
  BY <1>1 DEF InHand, PastCheck, Inserted, Reviewed, Holds, Exists, Owners, AnotherMoved, RowsStay

LEMMA LinkMemberOnce ==
    ASSUME IInv, OnceInv, NEW r \in Requests, LinkMember(r) PROVE OnceInv'
<1>1. pc[r] = "link" /\ pc[r] \in Working /\ pc[r] \in Inserted
  BY DEF LinkMember, Working, Inserted
<1>2. /\ InHand(r) /\ \A e \in audit : ~(e.request \in before[r] /\ e.member = req[r])
  BY <1>1 DEF OnceInv, Inserted, Reviewed, Late
<1>3. CASE Refuse(r, "error")
  BY <1>1, <1>3, RefuseOnce DEF Answered
<1>4. ASSUME NEW next \in {"commit", "issue"}, Continue(r, next, reads[r])
      PROVE  OnceInv'
  <2>1. /\ pc'[r] = next /\ reads'[r] = reads[r]
        /\ UNCHANGED <<member, account, proof, audit, moved, erased, req, before>>
    BY <1>4, ContinuesWith
  <2>2. InHand(r)' /\ PastCheck(r)'
    BY <1>1, <2>1, StillInHand DEF RowsStay, Inserted
  <2>3. Late(r)'
    BY <1>1, <1>2, <1>4, LateStays
  <2>4. reads[r].created => \A q \in Requests \ {r} :
            reads[q].created => /\ reads[r].email # reads[q].email
                                /\ reads[r].account # reads[q].account
    BY DEF OnceInv, Apart
  <2>5. QED
    BY <1>1, <1>4, <2>2, <2>3, <2>4, ContinueOnce
<1>5. QED
  BY <1>3, <1>4 DEF LinkMember

LEMMA IssueActivationOnce ==
    ASSUME IInv, OnceInv, NEW r \in Requests, IssueActivation(r) PROVE OnceInv'
<1>1. /\ pc[r] = "issue" /\ pc' = [pc EXCEPT ![r] = "commit"]
      /\ UNCHANGED <<member, account, proof, audit, req, reads, before, others>>
  BY DEF IssueActivation, Goto
<1>2. pc'[r] = "commit" /\ \A q \in Requests \ {r} : Elsewhere(q)
  BY <1>1 DEF IInv, TypeOK, Elsewhere
<1>3. RowsStay /\ pc[r] \notin Answered
  BY <1>1 DEF RowsStay, others, Answered
<1>4. InHand(r)' /\ PastCheck(r)'
  BY <1>1, <1>2, <1>3, StillInHand DEF Inserted
<1>5. Late(r) /\ before[r] \in SUBSET Requests /\ r \notin before[r]
  BY <1>1 DEF OnceInv, Late, IInv, TypeOK, Answered
<1>6. Late(r)'
  BY <1>1, <1>2, <1>5 DEF Late, Reviewed, Inserted, Elsewhere
<1>7. QED
  BY <1>1, <1>2, <1>3, <1>4, <1>6, RowsStayOnce DEF OnceInv, Apart

LEMMA FailCommitOnce == ASSUME IInv, OnceInv, NEW r \in Requests, FailCommit(r) PROVE OnceInv'
  BY RefuseOnce DEF FailCommit, Working, Answered

LEMMA CrashOnce == ASSUME IInv, OnceInv, NEW r \in Requests, Crash(r) PROVE OnceInv'
  BY RefuseOnce DEF Crash, Answered

LEMMA ArrivalOnce == ASSUME IInv, OnceInv, NEW r \in Requests, Arrival(r) PROVE OnceInv'
<1> PICK m \in Members : Arrive(r, m)
  BY DEF Arrival
<1>1. /\ pc[r] = "idle" /\ req' = [req EXCEPT ![r] = m] /\ pc' = [pc EXCEPT ![r] = "find"]
      /\ before' = [before EXCEPT ![r] = {q \in Requests : pc[q] \in Answered}]
      /\ UNCHANGED <<rows, reads, others>>
  BY DEF Arrive, Goto
<1>2. /\ pc'[r] = "find" /\ before'[r] = {q \in Requests : pc[q] \in Answered}
      /\ \A q \in Requests \ {r} : Elsewhere(q)
  BY <1>1 DEF IInv, TypeOK, Elsewhere
<1>3. RowsStay /\ pc[r] \notin Answered
  BY <1>1 DEF RowsStay, rows, others, Answered
<1>4. ~reads[r].created /\ reads'[r] = reads[r]
  BY <1>1 DEF OnceInv, InHand, Inserted
<1>5. InHand(r)' /\ PastCheck(r)'
  BY <1>2, <1>4 DEF InHand, PastCheck, Inserted, Reviewed
<1>6. Late(r)'
  BY <1>2, <1>3 DEF Late, Reviewed, Inserted, Elsewhere
<1>7. QED
  BY <1>2, <1>3, <1>4, <1>5, <1>6, RowsStayOnce

\* What is in hand at the commit goes with what earlier events say.
LEMMA CommitJoins ==
    ASSUME IInv, OnceInv, NEW r \in Requests, pc[r] = "commit", ~Missing(r),
           NEW e \in audit, e.member = req[r]
    PROVE  /\ r \notin before[e.request] /\ e.request \notin before[r]
           /\ \/ e.account = reads[r].account /\ ~e.created /\ ~reads[r].created
              \/ AnotherMoved(req[r])
              \/ reads[r].account \in moved
<1>1. /\ InHand(r) /\ Late(r) /\ PastCheck(r) /\ EventOK(e)
      /\ e.request \in Requests /\ e.account \in Accounts /\ req[r] \in Members
      /\ reads[r].account \in Accounts
  BY DEF OnceInv, IInv, TypeOK, RequestOK, Chosen, Inserted, Working
<1>2. reads[r].email \in Emails /\ reads[r].email = member[req[r]].email
  BY <1>1 DEF InHand, Reviewed, Inserted
<1>3. r \notin before[e.request]
  BY <1>1 DEF OnceInv, Late, Answered
<1>4. e.request \notin before[r]
  BY <1>1 DEF Late, Reviewed, Inserted
<1>5. e.account \in moved => AnotherMoved(req[r])
  BY DEF AnotherMoved
<1>6. CASE ~AnotherMoved(req[r]) /\ reads[r].account \notin moved
  <2>1. Exists(e.account) /\ account[e.account].email = reads[r].email
    BY <1>1, <1>2, <1>5, <1>6 DEF EventOK, Holds
  <2>2. ~reads[r].created
    BY <1>1, <2>1 DEF InHand, Owners, Exists
  <2>3. Exists(reads[r].account) /\ account[reads[r].account].email = reads[r].email
    BY <1>1, <1>2, <1>6, <2>2 DEF InHand, Holds, Inserted, Missing, OnceInv, Exists
  <2>4. e.account = reads[r].account
    BY <1>1, <2>1, <2>3 DEF OnceInv, AccountOK
  <2>5. e.created => AnotherMoved(req[r])
    BY <1>1, <2>2, <2>4 DEF PastCheck, Inserted
  <2>6. e.created \in BOOLEAN
    BY DEF IInv, TypeOK
  <2>7. QED
    BY <1>3, <1>4, <2>2, <2>4, <2>5, <2>6
<1>7. QED
  BY <1>3, <1>4, <1>5, <1>6

LEMMA CommitOnce == ASSUME IInv, OnceInv, NEW r \in Requests, Commit(r) PROVE OnceInv'
<1>1. PICK a \in Accounts, m \in Members : a = reads[r].account /\ m = req[r]
  BY DEF Commit, IInv, TypeOK, RequestOK, Chosen, Inserted, Working
<1> DEFINE n == [request |-> r, member |-> m, account |-> a, created |-> reads[r].created]
<1>2. /\ pc[r] = "commit"
      /\ member' = [member EXCEPT ![m].account = a]
      /\ account' = IF reads[r].created THEN [account EXCEPT ![a].email = reads[r].email]
                                        ELSE account
      /\ proof' = proof \cup (mailed \cap {Code(r)})
      /\ pc' = [pc EXCEPT ![r] = "ok"] /\ reads' = [reads EXCEPT ![r] = NoReads]
      /\ UNCHANGED <<req, before, moved, erased>>
  BY <1>1 DEF Commit, Goto, others
<1>3. PICK new : new = n
  OBVIOUS
<1>4. /\ new.request = r /\ new.member = m /\ new.account = a /\ new.created = reads[r].created
      /\ audit' = audit \cup {new}
  BY <1>1, <1>3 DEF Commit
<1> HIDE DEF n
<1>5. TypeOK /\ InHand(r) /\ Late(r)
  BY DEF IInv, OnceInv
<1>6. /\ pc'[r] = "ok" /\ reads'[r] = NoReads /\ ~NoReads.created
      /\ \A q \in Requests \ {r} : Elsewhere(q)
  BY <1>2, <1>5 DEF TypeOK, Elsewhere, NoReads
<1>7. /\ member'[m].account = a
      /\ \A x \in Members : member'[x].email = member[x].email
      /\ \A x \in Members \ {m} : member'[x].account = member[x].account
  BY <1>2, <1>5 DEF TypeOK, Member
<1>8. reads[r].email \in Emails /\ reads[r].email = member[m].email /\ reads[r].email # None
  BY <1>1, <1>2, <1>5, NoneAssumption DEF InHand, Reviewed, Inserted
<1>9. /\ \A b \in Accounts \ {a} : account'[b] = account[b]
      /\ reads[r].created => ~Exists(a) /\ account'[a].email = reads[r].email
      /\ ~reads[r].created => account' = account
  BY <1>1, <1>2, <1>5 DEF TypeOK, Account, InHand
<1>10. a \notin erased /\ (Holds(a, m) \/ reads[r].created)
  <2>1. reads[r].created \/ Exists(a)
    BY <1>1 DEF Commit, Missing, Exists
  <2>2. a \notin erased
    BY <1>1, <1>5, <2>1 DEF OnceInv, InHand
  <2>3. QED
    BY <1>1, <1>2, <1>5, <2>2 DEF InHand, Inserted
<1>11. account'[a] # NoAccount /\ (a \in moved \/ account'[a].email = member[m].email)
  BY <1>8, <1>9, <1>10 DEF Holds, Exists, NoAccount
<1>12. \A b \in Accounts : Exists(b) => account'[b] # NoAccount
                                        /\ account'[b].email = account[b].email
  BY <1>9, <1>11 DEF Exists
<1>13. \A e \in audit : /\ e.request \in Requests \ {r} /\ e.member \in Members
                        /\ e.account \in Accounts /\ EventOK(e)
  BY <1>2, <1>5 DEF TypeOK, OnceInv, EventOK
<1>14. \A e \in audit' : e = new \/ e \in audit
  BY <1>4
<1>15. \A x \in Members : AnotherMoved(x) => \E g \in audit' : g.member = x /\ g.account \in moved'
  BY <1>2, <1>4 DEF AnotherMoved
<1>16. \A e \in audit' : EventOK(e)'
  <2>1. ASSUME NEW e \in audit PROVE EventOK(e)'
    <3>1. EventOK(e) /\ e.request \in Requests \ {r} /\ e.member \in Members
          /\ e.account \in Accounts
      BY <1>13
    <3>2. pc'[e.request] = "ok" /\ \A f \in audit' : f.request = e.request => f = e
      BY <1>4, <1>6, <3>1 DEF EventOK, Elsewhere
    <3>3. \/ AnotherMoved(e.member)'
          \/ /\ account'[e.account] # NoAccount
             /\ e.account \in moved' \/ account'[e.account].email = member'[e.member].email
      BY <1>2, <1>7, <1>12, <1>15, <3>1 DEF EventOK, Holds, AnotherMoved
    <3>4. \E g \in audit' : g.member = e.member /\ g.account = member'[e.member].account
      BY <1>4, <1>7, <3>1 DEF EventOK
    <3>5. QED
      BY <3>2, <3>3, <3>4 DEF EventOK, Holds, Exists
  <2>2. EventOK(new)'
    <3>1. \A f \in audit' : f.request = new.request => f = new
      BY <1>4, <1>13
    <3>2. \E g \in audit' : g.member = new.member /\ g.account = member'[new.member].account
      BY <1>4, <1>7
    <3>3. QED
      BY <1>2, <1>4, <1>6, <1>7, <1>11, <3>1, <3>2 DEF EventOK, Holds, Exists
  <2>3. QED
    BY <1>14, <2>1, <2>2
<1>17. InvitedOnce'
  <2>1. ASSUME NEW e \in audit, NEW f \in audit, e.request # f.request, e.member = f.member
        PROVE  /\ Overlap(e.request, f.request)'
               /\ \/ e.account = f.account /\ ~e.created /\ ~f.created
                  \/ \E g \in audit' : g.member = e.member /\ g.account \in moved'
    BY <1>2, <1>4, <2>1 DEF OnceInv, InvitedOnce, Overlap
  <2>2. ASSUME NEW e \in audit, e.member = m
        PROVE  /\ Overlap(e.request, r)' /\ Overlap(r, e.request)'
               /\ \/ e.account = a /\ ~e.created /\ ~new.created
                  \/ \E g \in audit' : g.member = m /\ g.account \in moved'
    <3>1. /\ r \notin before[e.request] /\ e.request \notin before[r]
          /\ \/ e.account = a /\ ~e.created /\ ~reads[r].created
             \/ AnotherMoved(m)
             \/ a \in moved
      BY <1>1, <1>2, <2>2, CommitJoins DEF Commit
    <3>2. a \in moved => \E g \in audit' : g.member = m /\ g.account \in moved'
      BY <1>2, <1>4
    <3>3. QED
      BY <1>2, <1>4, <1>15, <3>1, <3>2 DEF Overlap
  <2>3. QED
    BY <1>4, <1>14, <2>1, <2>2 DEF InvitedOnce
<1>18. ASSUME NEW q \in Requests \ {r} PROVE InHand(q)' /\ Late(q)' /\ PastCheck(q)'
  <2>1. /\ Elsewhere(q) /\ InHand(q) /\ Late(q) /\ PastCheck(q)
        /\ Apart(q, r) /\ q \in Requests
    BY <1>6 DEF OnceInv
  <2>2. pc[q] \in {"linked"} \cup Inserted => req[q] \in Members /\ reads[q].account \in Accounts
    BY <2>1 DEF IInv, RequestOK, Working, Chosen, Inserted
  <2>3. pc[q] \in {"review"} \cup Reviewed => req[q] \in Members
    BY <2>1 DEF IInv, RequestOK, Working, Reviewed, Inserted
  <2>4. ASSUME reads[q].created
        PROVE  account'[reads[q].account] = NoAccount /\ Owners(reads[q].email)' = {}
    <3>1. ~Exists(reads[q].account) /\ Owners(reads[q].email) = {} /\ reads[q].account \in Accounts
      BY <2>1, <2>2, <2>4 DEF InHand
    <3>2. CASE ~reads[r].created
      BY <1>9, <2>1, <3>1, <3>2 DEF Owners, Exists, Elsewhere
    <3>3. CASE reads[r].created
      <4>1. reads[q].email # reads[r].email /\ reads[q].account # a
        BY <1>1, <2>1, <2>4, <3>3 DEF Apart
      <4>2. \A b \in Accounts : ~(account'[b] # NoAccount /\ account'[b].email = reads[q].email)
        BY <1>9, <3>1, <3>3, <4>1 DEF Owners
      <4>3. reads'[q] = reads[q]
        BY <2>1 DEF Elsewhere
      <4>4. QED
        BY <1>9, <3>1, <4>1, <4>2, <4>3 DEF Owners, Exists
    <3>4. QED
      BY <3>2, <3>3
  <2>5. reads[q].created => pc[q] \in Inserted
    BY <2>1 DEF InHand
  <2>6. pc[q] \in {"review"} \cup Reviewed =>
          reads[q].email \in Emails /\ reads[q].email = member'[req[q]].email
    BY <1>7, <2>1, <2>3 DEF InHand
  <2>7. pc[q] \in {"linked"} \cup Inserted /\ ~reads[q].created =>
          \/ reads[q].account \in erased
          \/ /\ account'[reads[q].account] # NoAccount
             /\ reads[q].account \in moved'
                \/ account'[reads[q].account].email = member'[req[q]].email
    BY <1>2, <1>7, <1>12, <2>1, <2>2 DEF InHand, Holds
  <2>8. InHand(q)'
    BY <1>2, <2>1, <2>4, <2>5, <2>6, <2>7 DEF InHand, Elsewhere, Exists, Holds
  <2>9. before[q] \in SUBSET Requests /\ r \notin before[q]
    BY <1>2, <2>1 DEF Late, IInv, TypeOK, Answered
  <2>10. Late(q)'
    <3>1. \A p \in before'[q] : pc'[p] \in Answered
      BY <1>6, <2>1, <2>9 DEF Late, Elsewhere
    <3>2. \A e \in audit' : e.request \in before'[q] => e \in audit
      BY <1>4, <1>14, <2>1, <2>9 DEF Elsewhere
    <3>3. QED
      BY <2>1, <3>1, <3>2 DEF Late, Elsewhere
  <2>11. PastCheck(q)'
    <3> SUFFICES ASSUME pc[q] \in Inserted, ~reads[q].created, NEW e \in audit',
                        e.member = req[q], e.created, e.account = reads[q].account
                 PROVE  AnotherMoved(req[q])'
      BY <2>1 DEF PastCheck, Elsewhere
    <3>1. e \in audit
      BY <1>4, <1>9, <1>10, <1>14, <2>1, <2>9 DEF InHand, Holds
    <3>2. AnotherMoved(req[q]) /\ req[q] \in Members
      BY <2>1, <2>2, <3>1 DEF PastCheck
    <3>3. req'[q] = req[q]
      BY <2>1 DEF Elsewhere
    <3>4. QED
      BY <1>15, <3>2, <3>3 DEF AnotherMoved
  <2>12. QED
    BY <2>8, <2>10, <2>11
<1>19. InHand(r)' /\ Late(r)' /\ PastCheck(r)'
  <2>1. before[r] \in SUBSET Requests /\ r \notin before[r]
    BY <1>2, <1>5 DEF Late, TypeOK, Answered
  <2>2. \A p \in before'[r] : pc'[p] \in Answered
    BY <1>2, <1>5, <1>6, <2>1 DEF Late, Elsewhere
  <2>3. \A e \in audit' : ~(e.request \in before'[r] /\ e.member = req'[r])
    BY <1>2, <1>4, <1>5, <1>14, <2>1 DEF Late, Reviewed, Inserted
  <2>4. QED
    BY <1>6, <2>2, <2>3 DEF InHand, Late, PastCheck, Inserted, Reviewed
<1>20. \A p \in Requests : \A q \in Requests \ {p} : Apart(p, q)'
  BY <1>6 DEF OnceInv, Apart, Elsewhere
<1>21. ASSUME NEW b \in Accounts PROVE AccountOK(b)'
  <2>1. CASE ~reads[r].created
    BY <1>9, <2>1 DEF OnceInv, AccountOK, Exists
  <2>2. CASE reads[r].created
    <3>1. \A c \in Accounts \ {a} : /\ account'[c] = account[c] /\ AccountOK(c)
                                    /\ account[c].email # reads[r].email
      BY <1>5, <1>8, <1>9, <2>2 DEF InHand, Owners, OnceInv, NoAccount
    <3>2. account'[a].email = reads[r].email
      BY <1>9, <2>2
    <3>3. QED
      BY <1>8, <3>1, <3>2 DEF AccountOK, Exists
  <2>3. QED
    BY <2>1, <2>2
<1>22. ASSUME NEW c \in proof' PROVE Exists(c.account)'
  <2>1. CASE c \in proof
    <3>1. c.account \in Accounts
      BY <1>5, <2>1 DEF TypeOK
    <3>2. QED
      BY <1>12, <2>1, <3>1 DEF OnceInv, Exists
  <2>2. CASE c = Code(r)
    BY <1>1, <1>11, <2>2 DEF Code, Exists
  <2>3. QED
    BY <1>2, <2>1, <2>2
<1>23. ASSUME NEW b \in erased' PROVE ~Exists(b)'
  <2>1. b \in erased /\ b \in Accounts /\ b # a /\ ~Exists(b)
    BY <1>2, <1>5, <1>10 DEF OnceInv, TypeOK
  <2>2. QED
    BY <1>9, <2>1 DEF Exists
<1>24. QED
  BY <1>16, <1>17, <1>18, <1>19, <1>20, <1>21, <1>22, <1>23 DEF OnceInv

-----------------------------------------------------------------------------
\* A change of one account by others: its address stays, or it is one that nobody
\* has or is about to take.
LEMMA AccountChangeOnce ==
    ASSUME IInv, OnceInv, NEW a \in Accounts,
           UNCHANGED <<member, proof, audit, pc, req, reads, before>>,
           moved \subseteq moved', erased' = erased,
           \A b \in Accounts \ {a} : account'[b] = account[b],
           account'[a].email # None,
           \/ Exists(a) /\ account'[a].email = account[a].email
           \/ Free(account'[a].email) /\ (Exists(a) => a \in moved'),
           Exists(a) \/ a \notin Used
    PROVE  OnceInv'
<1>1. account'[a] # NoAccount
  BY DEF NoAccount
<1>2. \A b \in Accounts : Exists(b) => /\ account'[b] # NoAccount
                                       /\ account'[b].email = account[b].email \/ b \in moved'
  BY <1>1 DEF Exists
<1>3. \A b \in Accounts, m \in Members : Holds(b, m) => Holds(b, m)'
  BY <1>2 DEF Holds, Exists
<1>4. InvitedOnce'
  BY DEF OnceInv, InvitedOnce, Overlap
<1>5. ASSUME NEW e \in audit' PROVE EventOK(e)'
  <2>1. e \in audit /\ EventOK(e) /\ e.member \in Members /\ e.account \in Accounts
    BY DEF OnceInv, IInv, TypeOK
  <2>2. AnotherMoved(e.member) => AnotherMoved(e.member)'
    BY DEF AnotherMoved
  <2>3. QED
    BY <1>3, <2>1, <2>2 DEF EventOK
<1>6. ASSUME NEW r \in Requests PROVE InHand(r)' /\ Late(r)' /\ PastCheck(r)'
  <2>1. InHand(r) /\ Late(r) /\ PastCheck(r)
    BY DEF OnceInv
  <2>2. pc[r] \in {"linked"} \cup Inserted => req[r] \in Members /\ reads[r].account \in Accounts
    BY DEF IInv, RequestOK, Working, Chosen, Inserted
  <2>3. ASSUME reads[r].created
        PROVE  account'[reads[r].account] = NoAccount /\ Owners(reads[r].email)' = {}
    <3>1. /\ ~Exists(reads[r].account) /\ Owners(reads[r].email) = {} /\ pc[r] \in Inserted
          /\ reads[r].account \in Accounts /\ reads[r].account # a
      BY <2>1, <2>2, <2>3 DEF InHand, Used
    <3>2. account'[a].email # reads[r].email
      BY <2>3, <3>1 DEF Owners, Exists, Free, Inserting, Inserted
    <3>3. QED
      BY <3>1, <3>2 DEF Owners, Exists
  <2>4. InHand(r)'
    BY <1>3, <2>1, <2>2, <2>3 DEF InHand, Exists
  <2>5. Late(r)' /\ PastCheck(r)'
    BY <2>1 DEF Late, PastCheck, AnotherMoved
  <2>6. QED
    BY <2>4, <2>5
<1>7. \A p \in Requests : \A q \in Requests \ {p} : Apart(p, q)'
  BY DEF OnceInv, Apart
<1>8. ASSUME NEW b \in Accounts PROVE AccountOK(b)'
  <2>1. \A c \in Accounts : AccountOK(c)
    BY DEF OnceInv
  <2>2. \A c \in Accounts \ {a} : account[c].email # account'[a].email
    BY <2>1 DEF AccountOK, Free, Owners, NoAccount
  <2>3. QED
    BY <2>1, <2>2 DEF AccountOK, Exists
<1>9. ASSUME NEW c \in proof' PROVE Exists(c.account)'
  <2>1. c \in proof /\ Exists(c.account) /\ c.account \in Accounts
    BY DEF OnceInv, IInv, TypeOK
  <2>2. QED
    BY <1>2, <2>1 DEF Exists
<1>10. ASSUME NEW b \in erased' PROVE ~Exists(b)'
  <2>1. b \in erased /\ b \in Accounts /\ ~Exists(b) /\ b # a
    BY DEF OnceInv, IInv, TypeOK, Used
  <2>2. QED
    BY <2>1 DEF Exists
<1>11. QED
  BY <1>4, <1>5, <1>6, <1>7, <1>8, <1>9, <1>10 DEF OnceInv

\* An account that is deleted had been replaced, if an invitation ever set it; nobody
\* is creating it.
LEMMA DeleteAccountOnce ==
    ASSUME IInv, OnceInv, NEW a \in Accounts, DeleteAccount(a) PROVE OnceInv'
<1>1. /\ TypeOK /\ account' = [account EXCEPT ![a] = NoAccount] /\ Exists(a)
      /\ proof' = {c \in proof : c.account # a} /\ erased' = erased \cup {a}
      /\ \A m \in Members : member[m].account # a
      /\ UNCHANGED <<member, audit, pc, req, reads, before, moved>>
  BY DEF DeleteAccount, IInv, Exists
<1>2. (\A b \in Accounts \ {a} : account'[b] = account[b]) /\ account'[a] = NoAccount
  BY <1>1 DEF TypeOK
<1>3. InvitedOnce'
  BY <1>1 DEF OnceInv, InvitedOnce, Overlap
<1>4. ASSUME NEW e \in audit' PROVE EventOK(e)'
  <2>1. /\ e \in audit /\ EventOK(e) /\ e.member \in Members /\ e.account \in Accounts
        /\ AnotherMoved(e.member) => AnotherMoved(e.member)'
    BY <1>1 DEF OnceInv, TypeOK, AnotherMoved
  <2>2. PICK g \in audit : g.member = e.member /\ g.account = member[e.member].account
    BY <2>1 DEF EventOK
  <2>3. CASE e.account = a
    <3>1. g.account # a
      BY <1>1, <2>1, <2>2
    <3>2. g.request # e.request
      BY <2>1, <2>2, <2>3, <3>1 DEF EventOK
    <3>3. AnotherMoved(e.member)
      BY <2>1, <2>2, <2>3, <3>1, <3>2 DEF OnceInv, InvitedOnce, AnotherMoved
    <3>4. QED
      BY <1>1, <2>1, <3>3 DEF EventOK
  <2>4. CASE e.account # a
    BY <1>1, <1>2, <2>1, <2>4 DEF EventOK, Holds, Exists
  <2>5. QED
    BY <2>3, <2>4
<1>5. \A e : Owners(e)' \subseteq Owners(e)
  BY <1>2 DEF Owners
<1>6. ASSUME NEW r \in Requests PROVE InHand(r)' /\ Late(r)' /\ PastCheck(r)'
  <2>1. InHand(r) /\ Late(r) /\ PastCheck(r)
    BY DEF OnceInv
  <2>2. pc[r] \in {"linked"} \cup Inserted => reads[r].account \in Accounts
    BY DEF IInv, RequestOK, Working, Chosen, Inserted
  <2>3. reads[r].created => /\ ~Exists(reads[r].account)' /\ reads[r].account \notin erased'
                            /\ Owners(reads[r].email)' = {}
    BY <1>1, <1>2, <1>5, <2>1, <2>2 DEF InHand, Exists
  <2>4. pc[r] \in {"linked"} \cup Inserted /\ ~reads[r].created =>
            Holds(reads[r].account, req[r])' \/ reads[r].account \in erased'
    BY <1>1, <1>2, <2>1, <2>2 DEF InHand, Holds, Exists
  <2>5. InHand(r)'
    BY <1>1, <2>1, <2>3, <2>4 DEF InHand, Exists
  <2>6. Late(r)' /\ PastCheck(r)'
    BY <1>1, <2>1 DEF Late, PastCheck, AnotherMoved
  <2>7. QED
    BY <2>5, <2>6
<1>7. \A p \in Requests : \A q \in Requests \ {p} : Apart(p, q)'
  BY <1>1 DEF OnceInv, Apart
<1>8. ASSUME NEW b \in Accounts PROVE AccountOK(b)'
  <2>1. AccountOK(b)
    BY DEF OnceInv
  <2>2. QED
    BY <1>2, <2>1 DEF AccountOK, Exists, NoAccount
<1>9. ASSUME NEW c \in proof' PROVE Exists(c.account)'
  BY <1>1, <1>2, <1>9 DEF OnceInv, Exists, TypeOK
<1>10. \A b \in erased' : ~Exists(b)'
  BY <1>1, <1>2 DEF OnceInv, Exists, TypeOK
<1>11. QED
  BY <1>3, <1>4, <1>6, <1>7, <1>8, <1>9, <1>10 DEF OnceInv

LEMMA SameOnce ==
    ASSUME OnceInv,
           UNCHANGED <<member, account, proof, audit, pc, req, reads, before, moved, erased>>
    PROVE  OnceInv'
BY DEF OnceInv, InvitedOnce, Overlap, InHand, Late, PastCheck, Apart,
       EventOK, AccountOK, Exists, Holds, Owners, AnotherMoved

LEMMA ChangeOnce == ASSUME IInv, OnceInv, Change PROVE OnceInv'
<1>1. TypeOK /\ \A a \in Accounts : AccountOK(a)
  BY DEF IInv, OnceInv
<1>2. ASSUME NEW m \in Members, DeleteMember(m) PROVE OnceInv'
  <2>1. /\ member' = [member EXCEPT ![m].deleted = TRUE]
        /\ UNCHANGED <<account, proof, audit, pc, req, reads, before, moved, erased>>
    BY <1>2 DEF DeleteMember
  <2>2. \A x \in Members : /\ member'[x].email = member[x].email
                           /\ member'[x].account = member[x].account
    BY <1>1, <2>1 DEF TypeOK, Member
  <2>3. \A e \in audit : EventOK(e)'
    <3>1. \A e \in audit : EventOK(e) /\ e.member \in Members
      BY <1>1 DEF OnceInv, TypeOK
    <3>2. QED
      BY <2>1, <2>2, <3>1 DEF EventOK, Holds, Exists, AnotherMoved
  <2>4. ASSUME NEW r \in Requests PROVE InHand(r)' /\ Late(r)' /\ PastCheck(r)'
    <3>1. /\ InHand(r) /\ Late(r) /\ PastCheck(r)
          /\ pc[r] \in {"review"} \cup Reviewed => req[r] \in Members
      BY DEF OnceInv, IInv, RequestOK, Working, Reviewed, Inserted
    <3>2. QED
      BY <2>1, <2>2, <3>1
         DEF InHand, Late, PastCheck, AnotherMoved, Holds, Exists, Owners, Reviewed
  <2>5. QED
    BY <2>1, <2>3, <2>4 DEF OnceInv, InvitedOnce, Overlap, Apart, AccountOK, Exists
<1>3. ASSUME NEW a \in Accounts, Activate(a) PROVE OnceInv'
  <2>1. Exists(a)
    BY <1>3 DEF Activate, OnceInv
  <2>2. /\ \A b \in Accounts \ {a} : account'[b] = account[b]
        /\ account'[a].email = account[a].email /\ account'[a].email # None
    BY <1>1, <1>3, <2>1 DEF Activate, TypeOK, Account, AccountOK
  <2>3. QED
    BY <1>3, <2>1, <2>2, AccountChangeOnce DEF Activate
<1>4. ASSUME NEW a \in Accounts, NEW e \in Emails, ChangeEmail(a, e) PROVE OnceInv'
  <2>1. Exists(a) /\ Free(e) /\ moved' = moved \cup {a} /\ e # None
    BY <1>4, NoneAssumption DEF ChangeEmail, Exists
  <2>2. (\A b \in Accounts \ {a} : account'[b] = account[b]) /\ account'[a].email = e
    BY <1>1, <1>4 DEF ChangeEmail, TypeOK, Account
  <2>3. QED
    BY <1>4, <2>1, <2>2, AccountChangeOnce DEF ChangeEmail
<1>5. ASSUME NEW a \in Accounts, NEW active \in BOOLEAN, NEW verified \in BOOLEAN,
             Review(a, active, verified)
      PROVE  OnceInv'
  <2>1. Exists(a)
    BY <1>5 DEF Review, Exists
  <2>2. /\ \A b \in Accounts \ {a} : account'[b] = account[b]
        /\ account'[a].email = account[a].email /\ account'[a].email # None
    BY <1>1, <1>5, <2>1 DEF Review, TypeOK, Account, AccountOK
  <2>3. QED
    BY <1>5, <2>1, <2>2, AccountChangeOnce DEF Review
<1>6. ASSUME NEW a \in Accounts, NEW e \in Emails, NEW active \in BOOLEAN, AddAccount(a, e, active)
      PROVE  OnceInv'
  <2>1. a \notin Used /\ Free(e) /\ e # None /\ ~Exists(a)
    BY <1>6, NoneAssumption DEF AddAccount, Used, Exists
  <2>2. (\A b \in Accounts \ {a} : account'[b] = account[b]) /\ account'[a].email = e
    BY <1>1, <1>6 DEF AddAccount, TypeOK
  <2>3. QED
    BY <1>6, <2>1, <2>2, AccountChangeOnce DEF AddAccount
<1>7. ASSUME NEW c \in proof, Expire(c) PROVE OnceInv'
  <2>1. UNCHANGED <<member, account, proof, audit, pc, req, reads, before, moved, erased>>
    BY <1>7 DEF Expire, rows
  <2>2. QED
    BY <2>1, SameOnce
<1>8. ASSUME NEW a \in Accounts, NEW e \in Emails, ConfirmEmail(a, e) PROVE OnceInv'
  <2>1. Exists(a) /\ Free(e) /\ moved' = moved \cup {a} /\ e # None
    BY <1>8, NoneAssumption DEF ConfirmEmail, Exists, NoAccount
  <2>2. (\A b \in Accounts \ {a} : account'[b] = account[b]) /\ account'[a].email = e
    BY <1>1, <1>8 DEF ConfirmEmail, TypeOK, Account
  <2>3. QED
    BY <1>8, <2>1, <2>2, AccountChangeOnce DEF ConfirmEmail
<1>9. ASSUME NEW a \in Accounts, DeleteAccount(a) PROVE OnceInv'
  BY <1>9, DeleteAccountOnce
<1>10. QED
  BY <1>2, <1>3, <1>4, <1>5, <1>6, <1>7, <1>8, <1>9 DEF Change

LEMMA StutterOnce == ASSUME OnceInv, UNCHANGED vars PROVE OnceInv'
  BY SameOnce DEF vars, rows, others

LEMMA StepOnce == IInv /\ OnceInv /\ [Next]_vars => OnceInv'
<1> SUFFICES ASSUME IInv, OnceInv, [Next]_vars PROVE OnceInv'
  OBVIOUS
<1>1. ASSUME NEW r \in Requests, Statement(r) PROVE OnceInv'
  BY <1>1, FindMemberOnce, ReviewIdentityOnce, LookupAccountOnce, CheckLinkedOnce,
     InsertAccountOnce, LinkMemberOnce, IssueActivationOnce, FailCommitOnce, CommitOnce
  DEF Statement
<1>2. QED
  BY <1>1, ArrivalOnce, CrashOnce, ChangeOnce, StutterOnce DEF Next, Quiescent

-----------------------------------------------------------------------------
(* The theorems.                                                           *)

THEOREM Invariance == Spec => [](IInv /\ OnceInv)
  BY InitIInv, InitOnce, StepIInv, StepOnce, PTL DEF Spec

\* Rows, events, requests and what they read keep their types.
THEOREM TypeCorrect == Spec => []TypeOK
<1>1. IInv => TypeOK
  BY DEF IInv
<1>2. QED
  BY <1>1, Invariance, PTL

\* A code that invite_member mails is stored unless its request's process died or
\* the operator deleted the account: nothing else fails after issue_activation.
THEOREM CodesAreStored == Spec => []MailedCodesAreStored
<1>1. IInv => MailedCodesAreStored
  BY DEF IInv, CodeOK, MailedCodesAreStored
<1>2. QED
  BY <1>1, Invariance, PTL

\* Whoever was invited has an active account or a stored code for it, however many
\* invitations, activations, deletions and changes of address overlap.
THEOREM NobodyIsLeftOut == Spec => []InvitedHaveACode
<1>1. IInv => InvitedHaveACode
  BY DEF IInv
<1>2. QED
  BY <1>1, Invariance, PTL

\* However many invitations of a member overlap, and whatever others do to members
\* and accounts meanwhile, those that commit have one account, or one of its
\* accounts has got another address.
THEOREM OneAccountEach == Spec => []InvitedOnce
<1>1. OnceInv => InvitedOnce
  BY DEF OnceInv
<1>2. QED
  BY <1>1, Invariance, PTL
=============================================================================
