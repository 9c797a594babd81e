SPECIFICATION FairSpec
CONSTANTS
    Calls = {c1, c2}
    Validators = {v1, v2}
    Workers = 1
    Reads = {r1}
    MaxResends = 1
INVARIANTS
    TypeOK
    CallsAccounted
    RepliesAreCounted
    CallsAreHeld
PROPERTIES
    CallsEnd
