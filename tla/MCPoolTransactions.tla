-------------------------- MODULE MCPoolTransactions --------------------------
EXTENDS PoolTransactions, TLC

Interchangeable == Permutations(Calls) \cup Permutations(Submits)

\* A simulation may ask for a fee that makes the total negative, free, exactly
\* the ceiling, or one above it.
Fees == {-BaseFee - 1, -BaseFee, Ceiling - BaseFee, Ceiling - BaseFee + 1}

\* Built elsewhere: fine on an unfunded account, not the pool's call, too dear.
ForeignTxs ==
    LET t == [shape |-> TRUE, seq |-> 2, deadline |-> 2, maxTime |-> 2, fee |-> 1]
    IN {t, [t EXCEPT !.shape = FALSE], [t EXCEPT !.fee = Ceiling + 1]}

\* Other accounts: without funds, where the source account begins, or ahead.
OtherAccounts == {None, 0, 2}
=============================================================================
