SPECIFICATION Spec
CONSTANTS
    Calls = {h1}
PROPERTIES
    KvOutageReported
