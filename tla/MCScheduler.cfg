SPECIFICATION Spec
CONSTANTS
    s1 = s1
    s2 = s2
    s3 = s3
    h1 = h1
    h2 = h2
    Server = {s1, s2, s3}
    Host = {h1, h2}
    VM = {}
    NoServer = NoServer
    NoHost = NoHost
    NoVM = NoVM
    Demand <- MCDemand
    Sizes <- MCSizes
INVARIANTS
    TypeOK
    Conserved
