CONSTANTS
    Devices = {1, 2}
    Hostnames = {h1, h2}
    NoHostname = nohost
    Payloads = {{a}}
    LeaseDuration = 1
    MaxTime = 1
    MaxGeneration = 2
    ZoneHostnames = {h2}
    IPv4 = {a}
    NumServers = 0
    BatchSize = 2
    LateUpdates = FALSE
    MaxWire = 1
    MaxCrashes = 1
SPECIFICATION FairSpec
PROPERTIES
    EveryGenerationApplied
