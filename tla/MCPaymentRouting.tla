--------------------------- MODULE MCPaymentRouting ---------------------------
EXTENDS PaymentRouting

CONSTANTS p1, p2, q1

TwoAdapters == <<"stellar", "other">>
AllFresh == [a \in {"stellar", "other"} |-> TRUE]

\* The deployment of main.rs: one adapter, here with a stale ledger.
OneAdapter == <<"stellar">>
StaleLedger == [a \in {"stellar"} |-> FALSE]
=============================================================================
