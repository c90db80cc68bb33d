SPECIFICATION FairReadersSpec
CONSTANTS
    Clients = {c1}
    NoClient = NoClient
    Docs = {d1}
    Windows = {w1}
    Engines = {e1}
    OpIds = {o1, o2}
    Facts = {f1, f2}
    Offered <- Executing
    MaxVersions = 4
    MaxRuns = 1
    MaxBatches = 2
    PageSize = 1
INVARIANTS
    LiveHeadWasLive
    

    
