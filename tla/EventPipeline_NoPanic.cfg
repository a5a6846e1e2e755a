CONSTANTS
    Nil = Nil
    MaxArray = 2
    SplitPath <- MCSplitPath
    ModifyPaths <- MCModifyPaths
    ToUpper = TRUE
    ToLower = FALSE
    RootPayloads <- MCRootPayloads
SPECIFICATION Spec
CHECK_DEADLOCK FALSE
INVARIANT NoPanic
