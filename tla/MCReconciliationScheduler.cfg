\* Two services, three minutes, one fault or crash, two edits, and restarts that
\* may never come.
SPECIFICATION FairSpec
CONSTANTS
    Services <- MCServices
    Deps <- MCDeps
    Policies <- MCPolicies
    BasePolicy <- MCBasePolicy
    TicksPerMinute = 1
    MaxInterval = 2
    Horizon = 3
    MaxFaults = 1
    MaxEdits = 2
INVARIANTS
    TypeOK
    AtMostOnce
    NoGapBehindCursor
    ClaimRetentionBounded
PROPERTIES
    ImplementsLedger
    PrunerSparesLiveOverrides
    HaltsOrCatchesUp
