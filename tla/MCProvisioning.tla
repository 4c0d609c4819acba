--------------------------- MODULE MCProvisioning ---------------------------
(* Instances of Provisioning for TLC. *)
EXTENDS Provisioning

CONSTANTS test_postgres, crm, s1, s2

\* A new server; one where somebody has created role and database by hand, the
\* role with a password and the database in the role's name, and that a test run
\* has left a database on.
MCFresh ==
    [role |-> "absent", password |-> None,
     database |-> [exists |-> FALSE, owner |-> "admin", public |-> FALSE, granted |-> FALSE],
     schema |-> [public |-> FALSE, granted |-> FALSE],
     other |-> [d \in Others |-> NoDatabase]]

MCByHand ==
    [role |-> "wide", password |-> s1,
     database |-> [exists |-> TRUE, owner |-> "role", public |-> TRUE, granted |-> FALSE],
     schema |-> [public |-> TRUE, granted |-> FALSE],
     other |-> [d \in Others |-> IF d \in Tolerated THEN NewDatabase ELSE NoDatabase]]

MCStarts == {MCFresh, MCByHand}
=============================================================================
