SPECIFICATION Spec
CONSTANTS
    s1 = s1
    s2 = s2
    h1 = h1
    h2 = h2
    Server = {s1}
    Host = {h1, h2}
    VM = {v1, v2, v3}
    NoServer = NoServer
    NoHost = NoHost
    NoVM = NoVM
    Demand <- UnitDemand
    HostCapacity <- UnitHosts
    Limit = 1
    Wishes = {"running", "stopped", "deleted"}
    MaxWishes = 3
    FaultKinds = {"db", "crash", "drop"}
    MaxFaults = 2
    MaxAge = 0
INVARIANT
    RecordsMatchVMs
PROPERTY
    PinnedWhileProvisioned
SYMMETRY HostsAlike
