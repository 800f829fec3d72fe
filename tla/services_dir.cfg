SPECIFICATION Spec
CONSTANTS
    Files = {f1, f2}
    Labels = {"a", "b"}
    NONE = NONE
    Texts <- MCTexts
    MAX_CLOCK = 1
    MAX_EDITS = 3
    MAX_QUEUED = 2
SYMMETRY Alike
INVARIANTS TypeOK TrustedEntriesAreTrue WatchCatchesUp CheckPredictsBoot CycleAlarmIsTrue
