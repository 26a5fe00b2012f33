CONSTANTS
    NoServer = NoServer
    Servers = {s1, s2}
    Faulty = {s1}
    MaxFaults = 1
    MaxRequests = 2
    MaySendFail = TRUE
    Targets = {{NoServer}, {s1}, {s1, s2}}
    Results = {"done"}
SPECIFICATION Spec
INVARIANTS
    TypeOK
    OneCommandPerServer
    NoServerLeaked
    NoLostWakeup
    FirstComeFirstSent
CHECK_DEADLOCK FALSE
PROPERTIES
    IsJobQueue
    CallsReturn
