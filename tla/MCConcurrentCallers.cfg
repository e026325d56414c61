SPECIFICATION MCSpec
CONSTANTS
    Parts = {"orchestration"}
    Loops = {"reconciliation", "machine_power"}
    BadResults <- MCBadResults
    MaxRequests = 2
    Services = {1, 2}
    Deps <- MCDeps
    Supported <- MCSupported
    HealthChecked = {1}
    Callers = {scheduler, admin}
    Speaks <- MCSpeaks
    scheduler = scheduler
    admin = admin
    MaxAttempts = 2
    MaxFaults = 0
    MaxCrashes = 0
INVARIANT
    StopsDependentsFirst
