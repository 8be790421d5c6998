SPECIFICATION Spec
CONSTANTS
    Nodes = {n1}
    Hashes = {"h1", "h2"}
    MaxFaults = 0
    None = None
    Manifest <- MCManifest
    Downloads = {d1}
    Loaders = {}
    MaxRegistered = 1
INVARIANT
    AssembledInOrder
CHECK_DEADLOCK FALSE
