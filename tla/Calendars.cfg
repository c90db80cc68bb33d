SPECIFICATION Spec
CHECK_DEADLOCK FALSE
CONSTANTS
    None = None
    Plant = Plant
    Crew = Crew
    Unknown = Unknown
    NoCalendar = NoCalendar
    Calendars = {Plant, Crew}
    Day = 3
    Week = 2
    Definitions <- MCDefinitions
    Windows <- MCWindows
    Moments <- MCMoments
    Durations <- MCDurations
    Limits <- MCLimits
INVARIANTS
    CompiledIsTheRule
    CombinedWorkTogether
    AnswersAreExhaustive
