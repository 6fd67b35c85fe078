SPECIFICATION EditorFairSpec
CONSTANTS
    Mine = {"a", "b"}
    Theirs = {"o", "p"}
    HistoryLimit = 2
    Worlds <- MCWorlds
    Resolve <- MCResolve
CHECK_DEADLOCK FALSE
INVARIANT EditKept
PROPERTIES NoLostUpdate SaveSettles
