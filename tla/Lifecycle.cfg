SPECIFICATION FairSpec
CONSTANTS
    Gateways = {g1, g2}
    Sealers = {s1}
    MaxStops = 2
INVARIANTS
    TypeOK
    WorkersFindStreams
    ServingConsumes
PROPERTIES
    GatewaysServe
    SealersServe
    StartsAdvance
