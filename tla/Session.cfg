SPECIFICATION FairSpec
CONSTANTS
    c = c
    p = p
    q = q
    Nodes = {c, p, q}
    Links <- MCLinks
    Manifests <- MCManifests
    Orchestrators = {c}
    MaxLeaves = 1
    NoManifest = NoManifest
    Consumer = c
    Calls = {r1}
    NumProviders = 2
INVARIANTS
    StoredForItsPublisher
    CreditsMatchUse
    TargetsListen
PROPERTIES
    ConnectedProvidersKnown
    ListenersEnd
