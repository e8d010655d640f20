SPECIFICATION Spec
CONSTANTS
    p1 = p1
    p2 = p2
    Procs = {p1}
    Keys <- MCKeys
    Above <- MCAbove
    Scalars <- MCScalars
    Strings <- MCStrings
    Typed <- MCTyped
    Bodies <- MCBodies
    NoBody = "none"
    NoFile = NoFile
    Commands <- Sets
    InitialFiles <- Prosaic
    Drafts <- SomeDrafts
    MaxEdits = 0
    IoFaults = FALSE
    Crashes = FALSE
CHECK_DEADLOCK FALSE
PROPERTIES
    ProseSurvivesSets
