\* Two capabilities, a narrow and a wide pattern, two manifests, two mints of ids
\* a session, one handle at a time, any number of restarts.
SPECIFICATION SmallSpec
CONSTANTS
    net = net
    fs = fs
    here = here
    there = there
    Caps = {net, fs}
    Targets = {here, there}
    PatternLists <- McPatternLists
    Manifests <- McManifests
    MaxMints = 2
    MaxLive = 1
    Corrupt = Corrupt
    None = None
INVARIANTS
    TypeOK
    HandlesWithinGrants
    RestoredWithinManifest
    NoReplay
    RevokedStaysRevoked
CHECK_DEADLOCK FALSE
