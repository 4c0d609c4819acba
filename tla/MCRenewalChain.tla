--------------------------- MODULE MCRenewalChain ---------------------------
(* Renewal chains over a leap year, a common year and year 2100. *)
EXTENDS RenewalChain

Date(y, m, d) == [year |-> y, month |-> m, day |-> d]

MCStarts ==
    {Date(2023, m, d) : m \in 1..12, d \in {1, 28}}
    \cup {Date(2024, 1, 29), Date(2024, 1, 30), Date(2024, 1, 31),
          Date(2024, 2, 29), Date(2023, 12, 31), Date(2023, 8, 31),
          Date(2099, 11, 30), Date(2099, 12, 31)}
=============================================================================
