SPECIFICATION FairSpec
CONSTANTS
    Clients = {c1, c2}
    NoClient = NoClient
    Docs = {d1}
    Windows = {w1}
    Engines = {e1}
    OpIds = {o1, o2}
    Facts = {f1}
    Offered <- Writing
    MaxVersions = 4
    MaxRuns = 2
    MaxBatches = 2

    
PROPERTIES
    RequestsFinish
    LiveIsALedger
