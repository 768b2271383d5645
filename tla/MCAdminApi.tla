------------------------------ MODULE MCAdminApi ------------------------------
EXTENDS AdminApi, TLC

\* A workload with room for a toggle and a delete, and one with a tighter budget.
Budgets == [k \in Keys |-> IF k = "w1:admin" THEN 2 ELSE 1]

Symmetry == Permutations(Reqs)
=============================================================================
