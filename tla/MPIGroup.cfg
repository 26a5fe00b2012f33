CONSTANTS
    NoServer = NoServer
    Servers = {s1, s2}
    Faulty = {}
    MaxFaults = 0
    MaxRequests = 2
    MaySendFail = FALSE
    Targets = {{NoServer}}
    Results = {"done"}
SPECIFICATION Spec
PROPERTY GroupSignalled
CHECK_DEADLOCK FALSE
