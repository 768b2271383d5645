---------------------------- MODULE MCReplayGuard ----------------------------
EXTENDS ReplayGuard, TLC

CONSTANTS m1, m2, m3, d1, d2, d3, n1, n2

\* m1 and m2 are validly signed with one nonce, m2 two seconds later; m3
\* carries the same nonce with a signature that does not verify.
OneNonce == [m \in Messages |-> "nonce"]
Stamps == [m \in Messages |-> IF m = m2 THEN 4 ELSE 2]
Drift == [n \in Nodes |-> IF n = n1 THEN 0 ELSE 1]

DeliverySymmetry == Permutations(Deliveries)
=============================================================================
