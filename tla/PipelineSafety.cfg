SPECIFICATION Spec
CONSTANTS
    None = None
    t1 = t1
    t2 = t2
    s1 = s1
    s2 = s2
    g1 = g1
    g2 = g2
    c1 = c1
    c2 = c2
    Tx = {t1}
    Kinds = {"empty", "fatal", "malformed", "rejected", "sealable"}
    Gateways = {g1}
    Sealers = {s1, s2}
    Gets = {}
    Faults = {"crash", "redis", "nats", "hsm", "overrun", "lapse"}
    MaxFaults = 3
SYMMETRY Symmetry
INVARIANTS
    TypeOK
    Custody
    NoLostRequest
    SigningsAccounted
CHECK_DEADLOCK FALSE
