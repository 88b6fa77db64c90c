SPECIFICATION Spec
CONSTANTS
    Signals <- MCSignals
    Dests <- MCDests
    LocalIps <- MCLocalIps
    HostName = "hostA"
    MaxMsgs = 3
    SockCap = 1
    MaxSpurious = 1
INVARIANTS
    MutexDiscipline
    NoUseAfterFree
    NoLostWakeup
    NothingLost
    RestsOnlyWhenIdle
PROPERTIES
    ServiceSpec
    DeliveredIsRun
CHECK_DEADLOCK FALSE
