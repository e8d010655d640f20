SPECIFICATION Spec
CONSTANTS
    r1 = r1
    r2 = r2
    Runners = {r1, r2}
    MaxRuns = 3
    MaxFaults = 2
SYMMETRY Symmetry
INVARIANTS
    TypeOK
    PublicVerified
    TagsOnMain
    VersionsAscend
    AnchorsAgree
    CleanPrereleasePublishes
    PreservedForTriage
