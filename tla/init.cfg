SPECIFICATION Spec
CONSTANTS
    Watched = {a}
    MAX_DIRS = 2
    Paths <- MCPaths
    Below <- MCBelow
    Shown <- MCShown
    Fstab <- MCFstab
    LaterMounts <- MCLater
    ON_EXIT = "unset"
INVARIANTS TypeOK NoFalseReady RebootHonoured NothingLeftMounted
PROPERTIES ReadySeen PowerDownCompletes
