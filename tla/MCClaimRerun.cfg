SPECIFICATION MCSpec
CONSTANTS
    Parts = {"scheduler"}
    Targets = {1, 2}
    BackupTargets = {1, 2}
    Windows <- MCWindows
    TicksPerMinute = 2
    Limit = 2
    LastInstant = 3
    MaxLines = 2
    KeepChoices = {1, 2}
    LastReading = 1
    MaxRuns = 3
INVARIANT
    OccurrenceRunsOnce
