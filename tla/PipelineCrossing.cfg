SPECIFICATION Spec
CONSTANTS
    None = None
    t1 = t1
    t2 = t2
    s1 = s1
    s2 = s2
    g1 = g1
    g2 = g2
    c1 = c1
    c2 = c2
    Tx = {t1, t2}
    Kinds = {"rejected", "sealable"}
    Gateways = {g1}
    Sealers = {s1}
    Gets = {c1}
    Faults = {"crash", "redis", "overrun", "lapse", "hsm"}
    MaxFaults = 1
SYMMETRY Symmetry
INVARIANTS
    Provenance
    OnlyPublishedAnswers
CHECK_DEADLOCK FALSE
