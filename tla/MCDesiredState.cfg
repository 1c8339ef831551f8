CONSTANTS
    Devices = {1}
    Hostnames = {h1, h2}
    NoHostname = nohost
    Payloads = {{a}, {b}}
    Keys = {k0, k1}
    LegacyKey = k0
    LeaseDuration = 1
    MaxTime = 2
    MaxGeneration = 4
    RenewAfterMillis = {1000, 2500}
SYMMETRY StoreSymmetry
SPECIFICATION Spec
INVARIANTS
    TypeOK
    ProgressOrdered
    ExactReplay
    AcceptedKept
PROPERTIES
    GenerationNamesAddresses
    ProgressKept
    IntentsSpec
    AnswersKept
CHECK_DEADLOCK FALSE
