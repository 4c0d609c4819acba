------------------------- MODULE PublicationLedger -------------------------
(***************************************************************************)
(* What the catalog promises about the versions of its Plans, without      *)
(* transactions, locks or refusals: versions are numbered consecutively    *)
(* per plan, only the author revises a draft, somebody else publishes it,  *)
(* once, and a published version stays as it is.  PlanVersions implements  *)
(* this specification.                                                     *)
(***************************************************************************)
EXTENDS Naturals

CONSTANTS Keys, Plans, Users, Terms, None

VARIABLE ledger

Blank == [phase |-> "absent", plan |-> None, number |-> 0, author |-> None,
          terms |-> None, publisher |-> None]

Recorded(v) == ledger[v].phase # "absent"

Numbers(plan) ==
    {ledger[v].number : v \in {w \in Keys : Recorded(w) /\ ledger[w].plan = plan}}

Draft(v, plan, u, terms, n) ==
    /\ ~Recorded(v)
    /\ n \in {0} \cup Numbers(plan)
    /\ \A m \in Numbers(plan) : m <= n
    /\ ledger' = [ledger EXCEPT ![v] =
           [phase |-> "draft", plan |-> plan, number |-> n + 1, author |-> u,
            terms |-> terms, publisher |-> None]]

Revise(v, terms) ==
    /\ ledger[v].phase = "draft"
    /\ ledger' = [ledger EXCEPT ![v].terms = terms]

Publish(v, u) ==
    /\ ledger[v].phase = "draft"
    /\ u # ledger[v].author
    /\ ledger' = [ledger EXCEPT ![v].phase = "published", ![v].publisher = u]

Init == ledger = [v \in Keys |-> Blank]

Next ==
    \E v \in Keys :
        \/ \E plan \in Plans, u \in Users, terms \in Terms :
              \E n \in {0} \cup Numbers(plan) : Draft(v, plan, u, terms, n)
        \/ \E terms \in Terms : Revise(v, terms)
        \/ \E u \in Users : Publish(v, u)

Spec == Init /\ [][Next]_ledger
=============================================================================
