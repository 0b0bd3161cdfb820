SPECIFICATION Spec
CONSTANTS
    Keys = {k1, k2}
    Workers = {w1, w2}
    None = None
    Limit = 2
    Window = 2
    MaxTime = 6
    MaxAdmitted = 4
SYMMETRY Symmetry
PROPERTIES
    ForgottenKeysAreIdle
