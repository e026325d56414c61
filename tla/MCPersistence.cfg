\* Three events in two lives of the server, with a run of the maintenance
\* tool and a client that pages; three operations on a store.
SPECIFICATION MCSpec
SYMMETRY Symmetry
CONSTANTS
    Parts = {"history", "retention", "resized", "stores"}
    Limits = {1, 2}
    Policies <- MCPolicies
    Operators = {o1}
    PageSizes = {1}
    MaxEvents = 3
    MaxExports = 1
    MaxLives = 2
    c1 = c1
    c2 = c2
    None = None
    Callers = {c1, c2}
    Ids = {1, 2}
    Values = {1, 2}
    Kinds <- MCKinds
    MaxCrashes = 1
INVARIANTS
    HistoryIsSound
    StoreReadsWhatItWrites
PROPERTIES
    ImplementsAuditLog
    StoresAreAtomic
CHECK_DEADLOCK FALSE
