CONSTANTS
    h1 = h1
    Devices = {1}
    Hostnames = {h1}
    NoHostname = nohost
    Payloads = {{a}}
    LeaseDuration = 2
    MaxTime = 2
    MaxGeneration = 6
    Keys = {0, 1, 2, 3, 4, 5, 6}
    LegacyKey = 0
    RenewAfterMillis = {1000}
    Identity <- OneDevice
    RenewIntervals = {1}
    MaxCrashes = 0
    MaxMoves = 0
SPECIFICATION RegistrationFairSpec
PROPERTIES
    AgentSettles
CHECK_DEADLOCK FALSE
