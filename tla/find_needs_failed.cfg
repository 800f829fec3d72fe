SPECIFICATION Spec
CONSTANTS
    Services <- LiveServices
    Strangers = {}
    After <- LiveAfter
    Needs <- LiveNeeds
    Pids = {p1, p2, p3}
    Clients = {}
    Requests = {}
    Watched = {"db"}
    InitialToml <- LiveToml
    Edits = {}
    MAX_RESTARTS = 1
    NONE = NONE
SYMMETRY PidSymmetry
PROPERTIES
    NeedsNotFailed
