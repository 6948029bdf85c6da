SPECIFICATION RuntimeSpec
CONSTANTS
    Keys = {k1, k2}
    Values = {v1, v2}
    Null = Null
    MaxTasks = 2
INVARIANTS
    RuntimeTypeOK
    GatewayQuiet
    PortReleased
    OneMonitor
PROPERTIES
    FirstWins
    MonitorReports
CHECK_DEADLOCK FALSE
