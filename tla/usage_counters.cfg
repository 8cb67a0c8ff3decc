SPECIFICATION CountersSpec
CONSTANTS
    Node = {a, b}
    MaxBytes = 3
    MaxEdits = 4
    MaxTroubles = 2
SYMMETRY Symmetry
INVARIANTS
    ChargedOnce
    PaysItsOwn
    NeverBehind
