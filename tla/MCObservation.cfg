CONSTANTS
    Devices = {1}
    Hostnames = {h1}
    NoHostname = nohost
    Payloads = {{a, b}, {a}}
    LeaseDuration = 1
    MaxTime = 1
    MaxGeneration = 4
    ZoneHostnames = {h1}
    IPv4 = {a}
    NumServers = 2
    BatchSize = 1
    LateUpdates = FALSE
    MaxWire = 2
    MaxCrashes = 1
SPECIFICATION ObservationSpec
INVARIANTS
    TypeOK
    OriginReflectsStore
    ErrorMeansPending
PROPERTIES
    ObservedEverywhere
