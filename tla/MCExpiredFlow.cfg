SPECIFICATION Spec
CONSTANTS
    VM = {1}
    FirstIP = 1
    LastIP = 3
    Gateway = 2
    PortMin = 11
    PortMax = 12
    CPUsTotal = 2
    Cpu = {c1}
    Client <- Players
    Server <- Websites
    HostPort = {11}
    SnatPort = {21}
    ServicePort = 7
    AppPort = 8
    Blocked <- Websites
    WatchedPort = 5
    MaxLapsed = 1
INVARIANT AnswersFromPublishedPortAlways
CHECK_DEADLOCK FALSE
