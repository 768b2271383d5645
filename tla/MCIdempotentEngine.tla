------------------------- MODULE MCIdempotentEngine -------------------------
EXTENDS IdempotentEngine

CONSTANTS r1, r2, f1, f2, n1, n2

SkewedClocks == [n \in Nodes |-> IF n = n1 THEN 0 ELSE 1]
EqualClocks == [n \in Nodes |-> 0]
BadBody == {f2}
=============================================================================
