SPECIFICATION FairSpec
CONSTANTS
    None = None
    r1 = r1
    r2 = r2
    t1 = t1
    t2 = t2
    k1 = k1
    k2 = k2
    o1 = o1
    o2 = o2
    Requests = {r1, r2}
    Tx = {t1, t2}
    Keys = {k1, k2}
    Organizations = {o1, o2}
    Services = {"seal", "other"}
    KeySets <- MCKeySets
    Files <- MCFiles
    Inputs <- MCInputs
INVARIANTS
    TypeOK
    GuardedHandlers
    RefusedLeavesNoTrace
    AnsweredOnce
    AddressedByPath
PROPERTIES
    RequestsEnd
