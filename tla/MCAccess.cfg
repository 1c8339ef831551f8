CONSTANTS
    h1 = h1
    h2 = h2
    w1 = w1
    w2 = w2
    Devices = {1}
    Hostnames = {h1, h2}
    NoHostname = nohost
    Payloads = {{a}}
    LeaseDuration = 1
    MaxTime = 1
    MaxGeneration = 2
    Keys = {k0}
    LegacyKey = k0
    RenewAfterMillis = {1000}
    DeviceName <- Names
    Workloads = {w1, w2}
    NoDevice = nodevice
    Authorities = {ca1, ca2}
    Certificates <- SomeCertificates
    Expiries = {1, 2}
    DecisionLifetime = 1
    Skews = {0}
    Unusable = unusable
    MaxAddresses = 1
    Connections = {c1, c2}
    MaxQueries = 2
SYMMETRY AccessSymmetry
SPECIFICATION AccessSpec
INVARIANTS
    AccessTypeOK
    GrantedSinceArrival
    WithdrawnInTime
    CredentialCurrent
    OneIdentity
    RowsNamed
