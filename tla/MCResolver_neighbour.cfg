SPECIFICATION Spec
CONSTANTS
    p1 = p1
    p2 = p2
    Procs = {p1}
    Commands <- OneFoo
    Names = {"foo", "foo-bar"}
    Utf8Names = {"foo", "foo-bar"}
    Versions = {"1", "2"}
    Platforms <- MCPlatforms
    HostPlatform = "linux-x64"
    Blobs <- MCBlobs
    Sigs <- MCSigs
    Manifests <- MCManifests
    Digests <- MCDigests
    Keys <- MCKeys
    TrustedKeys <- MCTrustedKeys
    Sha256 <- MCSha256
    Minisigned <- MCMinisigned
    Parsed <- MCParsed
    Extends <- NoExtends
    Cap = 1
    ServedManifest <- FlakyManifest
    ServedManifestSig <- HonestSig
    ServedAsset <- HonestAsset
    NonUtf8Neighbour = TRUE
    IoFaults = FALSE
    Crashes = FALSE
    MaxClock = 1
    MaxDamage = 0
    NoFile = NoFile
    NoEntry = NoEntry
    Torn = Torn
INVARIANTS
    CachedResolvesOffline
