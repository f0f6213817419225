SPECIFICATION Spec
CONSTANTS
    s1 = s1
    s2 = s2
    h1 = h1
    h2 = h2
    Server = {s1}
    Host = {h1, h2}
    VM = {v1, v2, v3}
    NoServer = NoServer
    NoHost = NoHost
    NoVM = NoVM
    Demand <- UnitDemand
    HostCapacity <- UnitHosts
    Limit = 1
    Wishes = {"running", "stopped", "deleted"}
    MaxWishes = 3
    FaultKinds = {"drop", "silence", "restart", "op", "exit"}
    MaxFaults = 1
    MaxAge = 2
INVARIANTS
    NoCapacityLeak
    RunningIsBilled
    DownIsNotBilled
PROPERTY
    LostOnlyAfterGrace
SYMMETRY HostsAlike
