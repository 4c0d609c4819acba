--------------------------- MODULE MCPlanVersions ---------------------------
(* Instances of PlanVersions for TLC. *)
EXTENDS PlanVersions, TLC

\* Requests and version keys are interchangeable: no definition singles one out.
Interchangeable == Permutations(Requests) \cup Permutations(VersionIds)
=============================================================================
