SPECIFICATION Spec
CONSTANTS
    c1 = c1
    c2 = c2
    Callers = {c1, c2}
    MaxKeys = 6
SYMMETRY MCSymmetry
INVARIANTS
    OneDevice
    KeyIsWhole
PROPERTIES
    KeySurvives
