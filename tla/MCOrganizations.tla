--------------------------- MODULE MCOrganizations ---------------------------
(* Instances of Organizations for TLC. *)
EXTENDS Organizations, TLC

\* What nobody edits to.
First == CHOOSE t \in Texts : t \notin Edits

\* What the other organizations have.
Second == CHOOSE t \in Texts : t \notin Edits \cup {First}

\* A second business of the reseller.
MCOthers == [sibling |-> "business"]

\* A business with a grant of its reseller, with and without a contract.
MCStarts ==
    {[row |-> [o \in Organizations |->
                 IF o = "contract" /\ ~contracted THEN NoRow
                 ELSE [text |-> IF o \in DOMAIN OtherKind THEN Second ELSE text,
                       active |-> TRUE, deleted |-> FALSE]],
      assignment |-> [a \in Assignments |->
                        IF a = granted THEN [user |-> user, state |-> "active"] ELSE NoGrant]] :
       contracted \in BOOLEAN, text \in {First},
       granted \in {CHOOSE a \in Assignments : TRUE}, user \in Users}

\* A business renamed, a contract edited, deactivated or moved,
\* a reseller deactivated.
Form(object, text, active, moves) ==
    [object |-> object, text |-> text, active |-> active, moves |-> moves]

MCForms ==
    {Form("business", text, TRUE, FALSE) : text \in Edits}
    \cup {Form("contract", First, active, FALSE) : active \in BOOLEAN}
    \cup {Form("contract", First, TRUE, TRUE), Form("reseller", First, FALSE, FALSE)}

Interchangeable == Permutations(Requests)
=============================================================================
