CONSTANTS
    Devices = {1}
    Hostnames = {h1}
    NoHostname = nohost
    Payloads = {{a}}
    LeaseDuration = 1
    MaxTime = 1
    MaxGeneration = 3
    ZoneHostnames = {h1}
    IPv4 = {a}
    NumServers = 1
    BatchSize = 1
    LateUpdates = FALSE
    MaxWire = 1
    MaxCrashes = 1
SPECIFICATION FairSpec
PROPERTIES
    LapsedRemoved
    EveryGenerationObserved
