SPECIFICATION Spec
CONSTANTS
    p1 = p1
    p2 = p2
    Procs = {p1, p2}
    Keys <- MCKeys
    Above <- MCAbove
    Scalars <- MCScalars
    Strings <- MCStrings
    Typed <- MCTyped
    Bodies <- MCBodies
    NoBody = "none"
    NoFile = NoFile
    Commands <- Mixed
    InitialFiles <- HalfBroken
    Drafts <- SomeDrafts
    MaxEdits = 2
    IoFaults = TRUE
    Crashes = TRUE
CHECK_DEADLOCK FALSE
INVARIANTS
    StoreInv
    TypeOK
PROPERTIES
    KeepsContract
    BodySurvivesSets
    MalformedSurvives
SYMMETRY Symmetry
