SPECIFICATION Spec
CONSTANTS
    None = None
    Day = 4
    Week = 2
    SearchDays = 6
    Clients = {c1, c2}
    Files <- MCFiles
    Edits <- MCEdits
    MaxImports = 2
    MaxRevision = 2
SYMMETRY ClientSymmetry
INVARIANTS
    ScenarioIsOneOverride
    DocumentIsKept
    MovedAvoidsExceptions
CHECK_DEADLOCK FALSE
