SPECIFICATION FairSpec
CONSTANTS
    None = None
    t1 = t1
    t2 = t2
    s1 = s1
    s2 = s2
    g1 = g1
    g2 = g2
    c1 = c1
    c2 = c2
    Tx = {t1, t2}
    Kinds = {"sealable", "fatal", "malformed"}
    Gateways = {g1}
    Sealers = {s1}
    Gets = {}
    Faults = {"crash", "redis", "nats"}
    MaxFaults = 1
PROPERTIES
    EventuallyAnswered
    EventuallyGone
    OnlyPoisonRemains
CHECK_DEADLOCK FALSE
