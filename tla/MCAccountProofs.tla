-------------------------- MODULE MCAccountProofs --------------------------
(* Instances of AccountProofs for TLC. *)
EXTENDS AccountProofs, TLC

CONSTANTS ours, theirs, fresh, u1, u2, p1, p2

Person(email, isActive) == [email |-> email, active |-> isActive,
                            verified |-> isActive, password |-> None]

TwoMembers == (u1 :> Person(ours, TRUE)) @@ (u2 :> Person(theirs, TRUE))

MemberAndGuest == (u1 :> Person(ours, TRUE)) @@ (u2 :> Person(theirs, FALSE))

Mail(purpose, user) ==
    Code(purpose, user, IF purpose = "email_change" THEN fresh ELSE None, {})

Start(accounts, first, second) ==
    [account |-> accounts, proof |-> (p1 :> first) @@ (p2 :> second)]

\* No codes; two codes of one purpose and account, for each purpose; codes of
\* two accounts for one address; codes of two purposes; one code.
MCStarts ==
    {Start(MemberAndGuest, NoProof, NoProof),
     Start(MemberAndGuest, Mail("activation", u2), Mail("activation", u2)),
     Start(TwoMembers, Mail("password_reset", u1), Mail("password_reset", u1)),
     Start(TwoMembers, Mail("email_change", u1), Mail("email_change", u1)),
     Start(TwoMembers, Mail("email_change", u1), Mail("email_change", u2)),
     Start(TwoMembers, Mail("email_change", u1), Mail("password_reset", u1)),
     Start(TwoMembers, Mail("email_change", u1), NoProof)}

=============================================================================
