\* The scheduler by itself: two occurrences, two services and a backup, one
\* failing call or crash, one start of work in between.
SPECIFICATION MCSpec
SYMMETRY Symmetry
CONSTANTS
    Parts = {"scheduler", "with a failing call", "two operations", "helper"}
    Callers <- MCCallers
    Instants <- MCInstants
    Asked <- MCAsked
    LastInstant = 2
    call1 = call1
    call2 = call2
    Services <- MCServices
    Dep <- MCDep
    Operating <- MCOperating
    LastMinute = 6
    Horizon = 4
    Submitted = {}
    MaxOffline = 3
    MaxInterval = 3
    MaxFaults = 1
    MaxStarts = 1
    MaxRequests = 0
INVARIANTS
    CursorPassesOnlySettled
    OnceAheadOfCursor
    HelperAnswersAreTrue
PROPERTIES
    WakeBeforePowerOff
    NoPowerOffOverKnownWork
    PreparationStopsDependentsFirst
CHECK_DEADLOCK FALSE
