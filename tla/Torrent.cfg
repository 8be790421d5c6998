SPECIFICATION FairSpec
CONSTANTS
    Nodes = {n1}
    Hashes = {"h1", "h2"}
    MaxFaults = 1
    None = None
    Manifest <- MCShortManifest
    Downloads = {d1, d2}
    Loaders = {d2}
    MaxRegistered = 1
INVARIANTS
    VerifiedComplete
    CreatedManifestServed
PROPERTIES
    OnlyStartsServeCutChunks
    DownloadsEnd
CHECK_DEADLOCK FALSE
