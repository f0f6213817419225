SPECIFICATION Spec
CONSTANTS
    s1 = s1
    s2 = s2
    h1 = h1
    h2 = h2
    Server = {s1}
    Host = {h1}
    VM = {v1}
    NoServer = NoServer
    NoHost = NoHost
    NoVM = NoVM
    Demand <- UnitDemand
    HostCapacity <- UnitHosts
    Limit = 1
    Wishes = {"deleted"}
    MaxWishes = 2
    FaultKinds = {"drop"}
    MaxFaults = 1
    MaxAge = 0
INVARIANT DeletedLeavesNoVM
