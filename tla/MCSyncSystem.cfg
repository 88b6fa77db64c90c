SPECIFICATION MCSpec
CONSTANTS
    Runs = {1, 2}
    Dirs = {"sync", "other"}
    MaxAdmin = 1
    Hosts = {"h1"}
    ArgLists <- MCArgLists
    SockCap = 1
    MaxVersion = 1
    FileNames = {"pkg.lst"}
INVARIANTS
    OnlyWhatWasAsked
    PackagesUseItsFiles
    ExportHolds
    LinesAreExcused
PROPERTIES
    HostsAreServices
CHECK_DEADLOCK FALSE
