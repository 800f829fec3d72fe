SPECIFICATION SpecBoot
CONSTANTS
    Services <- CtlServices
    Strangers = {}
    After <- CtlAfter
    Needs <- CtlNeeds
    Pids = {p1, p2, p3}
    Clients = {c1}
    Requests = {"reload"}
    Watched = {"dep"}
    InitialToml <- CtlToml
    Edits <- BadEdits
    MAX_RESTARTS = 0
    NONE = NONE
PROPERTIES
    FailurePropagates
