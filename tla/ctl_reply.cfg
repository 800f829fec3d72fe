SPECIFICATION SpecCtl
CONSTANTS
    Services <- SoloServices
    Strangers = {}
    After <- SoloAfter
    Needs <- SoloNeeds
    Pids = {p1, p2}
    Clients = {c1, c2}
    Requests = {"restart", "stop"}
    Watched = {"dep"}
    InitialToml <- SoloToml
    Edits = {}
    MAX_RESTARTS = 1
    NONE = NONE
PROPERTIES
    ReplyEventually
