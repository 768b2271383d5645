SPECIFICATION Spec
CONSTANTS
    Readers = {r1, r2, r3}
    TTL = 3
    Timeout = 2
    None = None
SYMMETRY Interchangeable
INVARIANT ServedFresh
INVARIANT NeverFarBack
INVARIANT PairApart
