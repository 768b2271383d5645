SPECIFICATION Spec
CONSTANTS
    m1 = m1
    m2 = m2
    m3 = m3
    d1 = d1
    d2 = d2
    d3 = d3
    n1 = n1
    n2 = n2
    Messages = {m1, m2, m3}
    Nonce <- OneNonce
    Stamp <- Stamps
    Malformed = {}
    Forged = {m3}
    Deliveries = {d1, d2, d3}
    Nodes = {n1, n2}
    Offset <- Drift
    Shared = TRUE
    Skew = 1
    Window = 5
    MaxDrift = 1
    MaxTime = 7
SYMMETRY DeliverySymmetry
INVARIANT AcceptedOnce
CHECK_DEADLOCK FALSE
