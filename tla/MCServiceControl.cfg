\* One orchestration at a time over three services, one failing call, one
\* dying service; both loops with the backup loop; two helper calls.
SPECIFICATION MCFairSpec
CONSTANTS
    Parts = {"orchestration", "lifecycle", "helper"}
    Loops = {"reconciliation", "machine_power"}
    BadResults <- MCBadResults
    MaxRequests = 2
    Services = {1, 2, 3}
    Deps <- MCDeps
    Supported <- MCSupported
    HealthChecked = {1}
    Callers = {scheduler}
    Speaks <- MCSpeaks
    scheduler = scheduler
    admin = admin
    MaxAttempts = 2
    MaxFaults = 1
    MaxCrashes = 1
INVARIANTS
    OrchestrationIsOrdered
    ShutdownLosesNoLoop
PROPERTIES
    OrchestrationEnds
    NoWorkAfterShutdownRequest
    ShutdownSettles
    EveryCallSettles
CHECK_DEADLOCK FALSE
