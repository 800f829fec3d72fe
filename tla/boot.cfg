SPECIFICATION Spec
CONSTANTS
    Services <- BootServices
    Strangers = {"ghost"}
    After <- BootAfter
    Needs <- BootNeeds
    Pids = {p1, p2, p3, p4}
    Clients = {}
    Requests = {}
    Watched = {"db", "app"}
    InitialToml <- BootToml
    Edits = {}
    MAX_RESTARTS = 1
    NONE = NONE
SYMMETRY PidSymmetry
INVARIANTS
    TypeOK
    ChildrenTracked
    StartedInOrder
    InDegreeExact
    MarkedOnce
    CompletedExact
    CleanExit
    StatusLive
    StopOrder
    NoSurvivor
PROPERTIES
    FailedIsFinal
    ImplementsBootOrder
