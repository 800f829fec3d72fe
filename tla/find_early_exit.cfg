SPECIFICATION Spec
CONSTANTS
    Services <- CtlServices
    Strangers = {}
    After <- CtlAfter
    Needs <- CtlNeeds
    Pids = {p1, p2, p3}
    Clients = {c1}
    Requests = {"start"}
    Watched = {}
    InitialToml <- CtlToml
    Edits = {}
    MAX_RESTARTS = 1
    NONE = NONE
SYMMETRY PidSymmetry
INVARIANTS
    CleanExit
