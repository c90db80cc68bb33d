SPECIFICATION Spec
CONSTANTS
    Clients = {c1, c2}
    NoClient = NoClient
    Docs = {d1}
    Windows = {w1, w2}
    Engines = {e1, e2}
    OpIds = {o1}
    Facts = {f1}
    Offered <- Planning
    MaxVersions = 3
    MaxRuns = 3
    MaxBatches = 2
SYMMETRY Threads
INVARIANTS
    SequencesHaveNoGap
    PlannerStateBelongs
PROPERTIES
    BaselineReplacesItsPrior
    PlanMovesFromExpected
