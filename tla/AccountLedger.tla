--------------------------- MODULE AccountLedger ---------------------------
(***************************************************************************)
(* What the account services promise, without transactions or refusals: a  *)
(* code that was mailed changes its account in the way of its purpose, at  *)
(* most once, and closes every other code mailed for that purpose before.  *)
(* AccountProofs implements this specification.                            *)
(***************************************************************************)
CONSTANTS Users, Proofs, Purposes, None

VARIABLES accounts, proofs

Unissued == [state |-> "unissued", purpose |-> None, user |-> None, email |-> None]

Open(p) == proofs[p].state = "open"

EmailsUnique == \A u, v \in Users : accounts[u].email = accounts[v].email => u = v

Mailed(code) ==
    code.state = "open" /\ code.purpose \in Purposes /\ code.user \in Users

Issue(p) ==
    /\ proofs[p] = Unissued
    /\ Mailed(proofs'[p])
    /\ proofs' = [proofs EXCEPT ![p] = proofs'[p]]
    /\ UNCHANGED accounts

\* What using a code of a purpose does to its account.
Change(purpose, old, new, email) ==
    CASE purpose = "activation" ->
           /\ ~old.active /\ ~old.verified
           /\ new = [old EXCEPT !.password = new.password, !.active = TRUE,
                                !.verified = TRUE]
      [] purpose = "password_reset" -> new = [old EXCEPT !.password = new.password]
      [] purpose = "email_change" -> new = [old EXCEPT !.email = email, !.verified = TRUE]

Use(p) ==
    LET u == proofs[p].user IN
        /\ Open(p)
        /\ Change(proofs[p].purpose, accounts[u], accounts'[u], proofs[p].email)
        /\ accounts' = [accounts EXCEPT ![u] = accounts'[u]]
        /\ proofs' = [q \in Proofs |->
              IF Open(q) /\ proofs[q].user = u /\ proofs[q].purpose = proofs[p].purpose
                 THEN [proofs[q] EXCEPT !.state = "closed"] ELSE proofs[q]]
        /\ EmailsUnique'

\* An operator saves the page of an account.
Override(u) ==
    /\ accounts' = [accounts EXCEPT ![u] = accounts'[u]]
    /\ EmailsUnique'
    /\ UNCHANGED proofs

Init ==
    /\ EmailsUnique
    /\ \A p \in Proofs : proofs[p] = Unissued \/ Mailed(proofs[p])

Next ==
    \/ \E p \in Proofs : Issue(p) \/ Use(p)
    \/ \E u \in Users : Override(u)

Spec == Init /\ [][Next]_<<accounts, proofs>>
=============================================================================
