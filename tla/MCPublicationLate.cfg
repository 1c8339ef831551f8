CONSTANTS
    Devices = {1}
    Hostnames = {h1}
    NoHostname = nohost
    Payloads = {{a}, {b}}
    LeaseDuration = 1
    MaxTime = 2
    MaxGeneration = 4
    ZoneHostnames = {h1}
    IPv4 = {a, b}
    NumServers = 0
    BatchSize = 1
    LateUpdates = TRUE
    MaxWire = 2
    MaxCrashes = 1
SYMMETRY AddressSymmetry
SPECIFICATION Spec
INVARIANTS
    OriginReflectsStore
