\* Three sections with two loads each, the later reads of Services, and an
\* operation of a service; five events in pages of two; three renderings and four
\* mutations of the power controls; two requests for a mutation gate and two for a
\* key.
SPECIFICATION MCFairSpec
CONSTANTS
    Parts = {"sections", "events", "power", "requests", "keys"}
    Absent = Absent
    Sections <- ThreeSections
    Detailed <- DetailedSections
    Operations = {"press1"}
    MaxLoads = 2
    PageSize = 2
    MaxEvents = 5
    MaxEventLoads = 3
    MaxRenders = 3
    MaxMutations = 4
INVARIANTS
    PageIsConsistent
PROPERTIES
    NothingOldComesBack
    EverythingSettles
CHECK_DEADLOCK FALSE
