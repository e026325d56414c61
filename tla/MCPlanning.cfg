SPECIFICATION MCSpec
CONSTANTS
    Parts = {"graph", "windows", "plans", "restarts", "intervals", "helper"}
    Ids = {1, 2, 3, 4}
    Unknown = 9
    Misconfigured = 2
    DaysPerWeek = 2
    MinutesPerDay = 4
    TicksPerMinute = 2
    MaxWindows = 3
    Environments <- EveryEnvironment
    Candidates <- SomeCandidates
    LastInstant = 18
    MaxSaves = 0
    MaxRestarts = 0
INVARIANTS
    GraphFunctionsAreExact
    PlansAreKept
    WeeklySchedulesAreExact
    HelperOutputsAreUnderstood
CHECK_DEADLOCK FALSE
