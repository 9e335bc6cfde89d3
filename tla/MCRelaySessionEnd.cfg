\* One write, nothing from the app but its streams, and the end of the session.
SPECIFICATION Spec
CONSTANTS
    ReadWindow = 2
    WriteWindow = 2
    Coalesce = 2
    SocketBuffer = 1
    MaxChunk = 1
    PeerBytes = 0
    AppBytes = 2
    AppWrites = 1
    Closes = {}
    Outside = {"sessionEnded"}
INVARIANT FlushingReasonsFlush
CHECK_DEADLOCK FALSE
