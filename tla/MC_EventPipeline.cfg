CONSTANTS
    Nil = Nil
    MaxArray = 2
    SplitPath <- MCSplitPath
    ModifyPaths <- MCModifyPaths
    ToUpper = TRUE
    ToLower = FALSE
    RootPayloads <- MCRootPayloads
SPECIFICATION Spec
\* The pipeline stops for good once the event has been sent or the process
\* crashed.
CHECK_DEADLOCK FALSE
INVARIANT TypeOK
INVARIANT RootAckedOnlyIfAllAcked
INVARIANT SplitEmitsElements
