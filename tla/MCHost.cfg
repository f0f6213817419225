SPECIFICATION HostSpec
CONSTANTS
    VM = {1, 2, 3, 4}
    FirstIP = 1
    LastIP = 4
    Gateway = 2
    PortMin = 11
    PortMax = 12
    CPUsTotal = 2
INVARIANTS HostTypeOK PoolsExact ReachableWhileReady
CHECK_DEADLOCK FALSE
