SPECIFICATION FairSpec
CONSTANTS
    Calls = {h1}
INVARIANTS
    TypeOK
PROPERTIES
    NatsOutageReported
    KvHealthReported
    HealthConverges
