SPECIFICATION Spec
CONSTANTS
    VM = {1, 2}
    FirstIP = 1
    LastIP = 3
    Gateway = 2
    PortMin = 11
    PortMax = 12
    CPUsTotal = 2
    Cpu = {c1, c2}
    Client <- Players
    Server <- Websites
    HostPort = {11}
    SnatPort = {11}
    ServicePort = 7
    AppPort = 8
    Blocked = {}
    WatchedPort = 5
    MaxLapsed = 1
SYMMETRY CpusAlike
INVARIANTS TypeOK AnswersComeBack AnswersFromPublishedPort
CHECK_DEADLOCK FALSE
