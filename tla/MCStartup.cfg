CONSTANTS
    Keys = {k1, k2}
    Answers = {a, b}
    Preconditions = {c}
    Blank = blank
    MaxExits = 1
    MaxTime = 1
    MaxWrites = 1
SPECIFICATION FairSpec
INVARIANTS
    TypeOK
    ServedSchema
PROPERTIES
    MigrationKeepsAnswers
    BothServe
