SPECIFICATION Spec
CONSTANTS
    Files = {f1, f2, f3}
    Labels = {a, b, c}
SYMMETRY FileAndLabelSymmetry
INVARIANTS
    AcceptsExactlyAcyclic
    DegreesExact
    AlwaysALeaf
    OrderSound
