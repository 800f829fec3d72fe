SPECIFICATION Spec
CONSTANTS
    Files = {f1, f2}
    Labels = {"a", "b"}
    NONE = NONE
    Texts <- MCTexts
    MAX_CLOCK = 1
    MAX_EDITS = 2
    MAX_QUEUED = 2
INVARIANT OldEntryKeepsBootable
