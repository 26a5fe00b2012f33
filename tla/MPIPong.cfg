SPECIFICATION MonitorSpec
CONSTANTS
    Servers = {s1, s2}
    NoServer = NoServer
    Faulty = {s1}
    MaxFaults = 2
PROPERTY ServerRecovers
CHECK_DEADLOCK FALSE
