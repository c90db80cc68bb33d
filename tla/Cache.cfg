SPECIFICATION PooledSpec
CONSTANTS
    Clients = {c1, c2}
    MaxVersions = 3
    PoolSize = 1
INVARIANTS
    AccusesOnlyTheHead
    LiveAccusesOnlyTheHead
    QuarantinedIsNotServed

    
