CONSTANTS
    h1 = h1
    Devices = {1}
    Hostnames = {h1, h2}
    NoHostname = nohost
    Payloads = {{a}, {b}}
    LeaseDuration = 2
    MaxTime = 2
    MaxGeneration = 3
    Keys = {0, 1, 2}
    LegacyKey = 0
    RenewAfterMillis = {1000}
    Identity <- OneDevice
    RenewIntervals = {1}
    MaxCrashes = 1
    MaxMoves = 2
SYMMETRY AddressSymmetry
SPECIFICATION RegistrationSpec
INVARIANTS
    RegistrationTypeOK
    NeverConflicts
    SingleSuccessor
    RefusalFinal
CHECK_DEADLOCK FALSE
