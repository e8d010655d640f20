SPECIFICATION FairSpec
CONSTANTS
    p1 = p1
    p2 = p2
    Procs = {p1, p2}
    Binaries <- MCBinaries
    Signatures <- MCSignatures
    Accepts <- MCAccepts
    Released <- MCReleased
    MaxFaults = 3
    None = None
INVARIANTS
    TypeOK
    ExecVerified
    TempsRemoved
    RestsUsable
PROPERTIES
    PublishesVerified
    SelfHeals
    HitNeedsNoNetwork
