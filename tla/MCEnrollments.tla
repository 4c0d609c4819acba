--------------------------- MODULE MCEnrollments ---------------------------
(* Instances of Enrollments for TLC. *)
EXTENDS Enrollments, TLC

CONSTANTS v1, v2, v3, plan1, m1, m2

Date(y, m, d) == [year |-> y, month |-> m, day |-> d]

\* Three versions of a plan; the second starts a month after the first, so a renewal
\* may find it and a first Póliza may not, and the third is a draft of the same.
MCTerms ==
    (v1 :> [plan |-> plan1, number |-> 1, from |-> Date(2026, 1, 1),
            until |-> Date(2026, 6, 1), months |-> 1])
    @@ (v2 :> [plan |-> plan1, number |-> 2, from |-> Date(2026, 2, 1),
               until |-> Date(2026, 6, 1), months |-> 2])
    @@ (v3 :> [plan |-> plan1, number |-> 3, from |-> Date(2026, 2, 1),
               until |-> Date(2026, 6, 1), months |-> 1])

MCStarts == {Date(2026, 1, 31)}

\* Two members with a Póliza each, of the two versions.
MCHeld ==
    {[p \in Policies |->
        CASE p = first -> [status |-> "pending_payment", member |-> m1, version |-> v1,
                 preceding |-> None, start |-> Date(2026, 1, 31),
                 end |-> Date(2026, 2, 28), override_reason |-> FALSE, created_by |-> u]
          [] p = second -> [status |-> "expired", member |-> m2, version |-> v2,
                 preceding |-> None, start |-> Date(2026, 2, 1),
                 end |-> Date(2026, 4, 1), override_reason |-> FALSE, created_by |-> u]
          [] OTHER -> NoPolicy] :
       first \in {CHOOSE p \in Policies : TRUE},
       second \in {CHOOSE q \in Policies : q # CHOOSE p \in Policies : TRUE},
       u \in {CHOOSE u \in Users : TRUE}}

Interchangeable == Permutations(Requests)
=============================================================================
