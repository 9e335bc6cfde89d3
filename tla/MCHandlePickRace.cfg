\* A picked file that is still being opened when its pick is withdrawn.
SPECIFICATION Spec
CONSTANTS
    Grants = {g1}
    Handles = {h1}
    Ops = {o1}
    FilePicks = {p1}
    DirPicks = {p2}
    Drops = {d1}
    SocketLimit = 2
    MaxSessions = 1
    None = None
INVARIANTS
    PickGoverns
CHECK_DEADLOCK FALSE
