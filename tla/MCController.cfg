SPECIFICATION MCSpec
CONSTANTS
    Char <- MCChar
    NUL = "0"
    HdrLen = 16
    BufLen = 256
    DestLists <- MCDestLists
    Dirs <- MCDirs
    Heaps <- MCHeaps
    Texts <- MCTexts
    Letters <- MCLetters
    Words <- MCWords
    Networks = {"netA", "netB"}
    Devices <- MCDevices
    MaxChanges = 2
INVARIANTS
    RoundTrip
    ListSurvives
    SourceMatchesTarget
    OneLineDecides
CHECK_DEADLOCK FALSE
