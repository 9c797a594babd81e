SPECIFICATION RedeliverySpec
CONSTANTS
    None = None
    t1 = t1
    t2 = t2
    s1 = s1
    s2 = s2
    g1 = g1
    g2 = g2
    c1 = c1
    c2 = c2
    Tx = {t1}
    Kinds = {"rejected", "sealable"}
    Gateways = {g1}
    Sealers = {s1, s2}
    Gets = {c1, c2}
    Faults = {"crash", "redis", "nats", "nak", "overrun"}
    MaxFaults = 2
SYMMETRY Symmetry
INVARIANTS
    FetchesAgree
    RepeatsArePaid
PROPERTIES
    ImplementsService
CHECK_DEADLOCK FALSE
