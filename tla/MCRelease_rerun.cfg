SPECIFICATION Spec
CONSTANTS
    r1 = r1
    r2 = r2
    Runners = {r1, r2}
    MaxRuns = 2
    MaxFaults = 1
SYMMETRY Symmetry
INVARIANTS
    RerunSafe
