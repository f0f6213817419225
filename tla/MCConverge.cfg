SPECIFICATION FairSpec
CONSTANTS
    s1 = s1
    s2 = s2
    h1 = h1
    h2 = h2
    Server = {s1, s2}
    Host = {h1}
    VM = {v1, v2, v3, v4}
    NoServer = NoServer
    NoHost = NoHost
    NoVM = NoVM
    Demand <- UnitDemand
    HostCapacity <- UnitHosts
    Limit = 2
    Wishes = {"running", "stopped", "deleted"}
    MaxWishes = 3
    FaultKinds = {"drop", "restart", "op"}
    MaxFaults = 1
    MaxAge = 1
PROPERTIES
    Converges
    DeadVMNoticed
