---------------------------- MODULE MCReservesCache ----------------------------
EXTENDS ReservesCache, TLC

Interchangeable == Permutations(Readers)
=============================================================================
