SPECIFICATION Spec
CONSTANTS
    Services <- SoloServices
    Strangers = {"new"}
    After <- SoloAfter
    Needs <- SoloNeeds
    Pids = {p1, p2, p3}
    Clients = {c1, c2}
    Requests = {"start", "restart", "reload", "stop", "status", "refused"}
    Watched = {"dep"}
    InitialToml <- SoloToml
    Edits <- CtlEdits
    MAX_RESTARTS = 1
    NONE = NONE
SYMMETRY CtlSymmetry
INVARIANTS
    ChildrenTracked
    ReplyOwned
    ParkedHasProcess
    NoSurvivor
PROPERTIES
    ReplyFinal
