\* Two targets; the instants of two minutes; three runs that keep one or two.
\* The schedule of the first target only is edited.
SPECIFICATION MCSpec
CONSTANTS
    Parts = {"scheduler", "runs"}
    Targets = {1, 2}
    BackupTargets = {1, 2}
    Windows <- MCWindows
    TicksPerMinute = 2
    Limit = 2
    LastInstant = 3
    MaxLines = 2
    KeepChoices = {1, 2}
    LastReading = 1
    MaxRuns = 3
INVARIANTS
    NoOccurrenceIsLost
    ArtifactsAreAccounted
PROPERTY
    OnlySuccessesRemoved
