SPECIFICATION Spec
CONSTANTS
    MaxStarts = 3
    MaxTroubles = 2
INVARIANT
    UpgradeKeepsFiles
CHECK_DEADLOCK FALSE
