CONSTANTS
    Keys = {k1, k2}
    Answers = {a}
    Preconditions = {c}
    Blank = blank
    MaxExits = 1
    MaxTime = 0
    MaxWrites = 0
SYMMETRY StartupSymmetry
SPECIFICATION Spec
PROPERTIES
    PreconditionsKept
