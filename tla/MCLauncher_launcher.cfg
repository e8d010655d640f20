SPECIFICATION FairSpec
CONSTANTS
    Bodies <- MCBodies
    Blank = ""
    MaxAttempts = 3
    MaxRedirects = 10
    Depth = 3
    Setups <- MCSetups
    Usables <- MCUsables
    MaxChanges = 1
    NoRoot = "none"
CHECK_DEADLOCK FALSE
INVARIANTS
    TypeOK
    FailSafe
    SourcesStandAlone
    TextIsWhole
    ExplainAgrees
    FaultsMasked
    BuiltinsStayLocal
    RootsAgree
    NeverAboveRepo
PROPERTIES
    Ends
