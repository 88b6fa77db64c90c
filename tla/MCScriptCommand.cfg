SPECIFICATION MCSpec
CONSTANTS
    Letters <- MCLetters
    Words <- MCWords
    Confs <- MCConfs
    PluginDir <- MCPluginDir
    Names = {1, 2, 3, 4, 5}
    Hidden = {1}
    Python = {1, 4}
    Shell = {3, 5}
    MaxEdits = 2
    Threads = {"exec", "main"}
    Levels = {"info", "error"}
    MaxDatagrams = 3
INVARIANT
    DamageIsRaced
    RunInTurn
PROPERTY
    AllAreRun
CHECK_DEADLOCK FALSE
