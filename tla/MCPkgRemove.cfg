SPECIFICATION Spec
CONSTANTS
    Names <- MCNames
    Files <- GoodFiles
    Known <- MCKnown
    Initially <- MCInitially
INVARIANTS
    RemovesWhatIsMeant
CHECK_DEADLOCK FALSE
