SPECIFICATION MCSpec
CONSTANTS
    Shares <- MCShares
    Found <- MCFound
    TempNames = {"t1", "t2"}
    AdminDir = "mnt"
    Root = "root"
    MaxSyncs = 3
    MaxAdmin = 2
    Requests <- MCRequests
    OneChar <- MCOneChar
    Hostname <- MCHostname
    Nics <- MCNics
    Confs <- MCConfs
    Machines <- MCMachines
    MaxFds = 2
    ShellFds = 2
    MaxRequests = 2
    MaxPasses = 2
    MaxReports = 2
INVARIANTS
    OneMountPerShare
    OwnMountPoints
    CopiesTheShare
    HangsAreExplained
    TakenAsListed
    
    UnmountsTheShare
    ReportsAreTrue
CONSTRAINT
    Focus
CHECK_DEADLOCK FALSE
