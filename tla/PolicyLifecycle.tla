-------------------------- MODULE PolicyLifecycle --------------------------
(***************************************************************************)
(* What the enrollment services promise about Pólizas, without             *)
(* transactions or refusals: terms are issued once and never change, a     *)
(* Póliza is renewed at most once and without a gap, its status follows    *)
(* the legal edges, and the log tells every edge it took.  Enrollments     *)
(* implements this specification.                                          *)
(***************************************************************************)
CONSTANTS
    Policies, Holders, Products, Requests, None,
    Starts,          \* the terms there may be at first
    Precedes(_, _)   \* the order of dates

VARIABLES policies, log

Edges == {<<"pending_payment", "active">>, <<"pending_payment", "cancelled">>,
          <<"active", "suspended">>, <<"active", "expired">>,
          <<"active", "cancelled">>, <<"suspended", "active">>,
          <<"suspended", "expired">>, <<"suspended", "cancelled">>}

Issued(p) == policies[p].status # "absent"

Renewed(p) == \E q \in Policies : policies[q].preceding = p

\* A new term of any holder and product; as a renewal, one that continues it.
Issue(p) ==
    LET row == policies'[p] IN
        /\ ~Issued(p)
        /\ row.status = "pending_payment"
        /\ policies' = [policies EXCEPT ![p] = row]
        /\ row.holder \in Holders /\ row.product \in Products
        /\ Precedes(row.start, row.end)
        /\ row.preceding # None =>
              /\ Issued(row.preceding)
              /\ ~Renewed(row.preceding)
              /\ policies[row.preceding].holder = row.holder
              /\ policies[row.preceding].product = row.product
              /\ policies[row.preceding].end = row.start
        /\ UNCHANGED log

\* A status moves along an edge, and the log says so.
Move(p) ==
    LET from == policies[p].status
        to == policies'[p].status
    IN  /\ <<from, to>> \in Edges
        /\ policies' = [policies EXCEPT ![p].status = to]
        /\ \E r \in Requests :
              log' = log \cup {[policy |-> p, request |-> r, from |-> from, to |-> to]}

Init == policies \in Starts /\ log = {}

Next == \E p \in Policies : Issue(p) \/ Move(p)

Spec == Init /\ [][Next]_<<policies, log>>
=============================================================================
