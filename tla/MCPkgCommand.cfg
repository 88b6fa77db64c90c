SPECIFICATION Spec
CONSTANTS
    Names <- MCNames
    Files <- GoodFiles
    Known <- MCKnown
    Initially <- MCInitially
INVARIANTS
    InstallsWhatIsMeant
    RemovalWins
    OthersStayInstalled
PROPERTY
    EndsUnlessVanished
CHECK_DEADLOCK FALSE
