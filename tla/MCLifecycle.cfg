SPECIFICATION Spec
CONSTANTS
    MaxStarts = 3
    MaxTroubles = 2
INVARIANTS
    OneReader
    InstallLeavesADaemon
PROPERTY
    InstallServes
CHECK_DEADLOCK FALSE
