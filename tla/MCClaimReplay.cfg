\* An administrator replays an occurrence the scheduler has carried out.
SPECIFICATION MCSpec
SYMMETRY Symmetry
CONSTANTS
    Parts = {"scheduler"}
    Callers <- MCCallers
    Instants <- MCInstants
    Asked <- MCAsked
    LastInstant = 2
    call1 = call1
    call2 = call2
    Services = {"web"}
    Dep = {}
    Operating <- MCOperating
    LastMinute = 6
    Horizon = 3
    Submitted = {}
    MaxOffline = 3
    MaxInterval = 4
    MaxFaults = 0
    MaxStarts = 0
    MaxRequests = 1
INVARIANT
    ClaimsPreventReplay
CHECK_DEADLOCK FALSE
