SPECIFICATION Spec
CONSTANTS
    Char <- MCChar
    NUL = "0"
    HdrLen = 16
    BufLen = 256
    DestLists <- MCDestLists
    Dirs <- MCDirs
    Heaps <- MCHeaps
INVARIANT NodeListArrives
CHECK_DEADLOCK FALSE
