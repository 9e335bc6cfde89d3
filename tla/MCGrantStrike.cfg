\* A grant held by a file of the old shape, struck from the settings list while
\* its app is loaded.
SPECIFICATION Spec
CONSTANTS
    net = net
    fs = fs
    here = here
    there = there
    Caps = {net, fs}
    Targets = {here, there}
    PatternLists <- McPatternLists
    Manifests <- McManifests
    MaxMints = 2
    MaxLive = 2
    Corrupt = Corrupt
    None = None
INVARIANTS
    StruckStaysRevoked
CHECK_DEADLOCK FALSE
