\* Two instances.  Grants: three grants of one capability, so that a grant that
\* replaced one is itself replaced, two handles, two calls.  Picks: a server, its
\* connection and a picked folder with a file opened in it, a picked file, a
\* replacement, one call.  The end of one session in both.
SPECIFICATION Spec
CONSTANTS
    Grants = {g1, g2, g3}
    Handles = {h1, h2, h3}
    Ops = {o1, o2}
    FilePicks = {p1}
    DirPicks = {p2}
    Drops = {d1}
    SocketLimit = 2
    MaxSessions = 1
    None = None
SYMMETRY IdSymmetry
CONSTRAINT EitherInstance
INVARIANTS
    TypeOK
    LiveUnderCurrentGrant
    NoOrphanOperation
    SessionEndIsTotal
    CascadeIsExact
    FolderPickGoverns
PROPERTIES
    ImplementsPromise
CHECK_DEADLOCK FALSE
