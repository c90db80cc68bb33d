SPECIFICATION StoreSpec
CHECK_DEADLOCK FALSE
CONSTANTS
    None = None
    A = A
    B = B
    C = C
    D = D
    S = S
    T = T
    U = U
    Schedules <- MCSchedules
INVARIANTS
    CutIsTheClosure
    LogicHolds
    SummariesSpanTheirRows
    LateDependenceIsFollowed
    AnswerIsReadBack
    EditsKeepTheirLogic
