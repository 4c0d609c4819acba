---------------------------- MODULE MCInvitations ----------------------------
(* Instances of Invitations for TLC. *)
EXTENDS Invitations, TLC

Row(email, active, verified) == [email |-> email, active |-> active, verified |-> verified]

One == CHOOSE a \in Accounts : TRUE

Shared == CHOOSE e \in Emails : TRUE

\* Members with one address, which has no account, one that waits to be
\* activated, or an active one.
MCStarts ==
    {[member |-> [m \in Members |-> [email |-> Shared, account |-> None, deleted |-> FALSE]],
      account |-> [a \in Accounts |-> IF a = One THEN row ELSE NoAccount]] :
       row \in {NoAccount, Row(Shared, FALSE, FALSE), Row(Shared, TRUE, TRUE)}}
    \cup
    {[member |-> [m \in Members |-> [email |-> None, account |-> None, deleted |-> FALSE]],
      account |-> [a \in Accounts |-> NoAccount]]}

Interchangeable == Permutations(Requests) \cup Permutations(Members)
=============================================================================
