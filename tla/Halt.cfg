SPECIFICATION Spec
CONSTANTS
    Gateways = {g1}
    Sealers = {s1}
    MaxStops = 1
PROPERTIES
    WorkersDone
