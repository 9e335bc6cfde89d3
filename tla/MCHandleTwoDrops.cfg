\* Two calls of dropOrigin for one session.
SPECIFICATION Spec
CONSTANTS
    Grants = {g1}
    Handles = {h1}
    Ops = {o1}
    FilePicks = {}
    DirPicks = {}
    Drops = {d1, d2}
    SocketLimit = 2
    MaxSessions = 1
    None = None
INVARIANTS
    OneSessionAtATime
CHECK_DEADLOCK FALSE
