SPECIFICATION Spec
CHECK_DEADLOCK FALSE
CONSTANTS
    None = None
    A = A
    B = B
    C = C
    M = M
    Projects <- MCProjects
    Activities = {A, B, C, M}
    Dates <- MCDates
    Works <- MCWorks
    MaxReports = 2
INVARIANTS
    RecalculationIsFull
    
    DriverIsTight
    FloatsHold
PROPERTIES
    MoreWorkIsNeverEarlier
