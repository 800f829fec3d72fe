SPECIFICATION Spec
CONSTANTS
    Services <- TrioServices
    Strangers = {}
    After <- TrioAfter
    Needs <- TrioNeeds
    Pids = {p1, p2, p3}
    Clients = {c1}
    Requests = {"start"}
    Watched = {}
    InitialToml <- TrioToml
    Edits = {}
    MAX_RESTARTS = 1
    NONE = NONE
SYMMETRY PidSymmetry
INVARIANTS
    MarkedOnce
