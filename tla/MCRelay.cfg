\* A window of two, chunks of up to two bytes, writes of up to three in pieces of
\* two, a socket that holds one.
SPECIFICATION FairSpec
CONSTANTS
    ReadWindow = 2
    WriteWindow = 2
    Coalesce = 2
    SocketBuffer = 1
    MaxChunk = 2
    PeerBytes = 3
    AppBytes = 3
    AppWrites = 2
    Closes = {c1}
    Outside = {"revoked", "sessionEnded", "navigated"}
CONSTRAINT AnInstance
INVARIANTS
    TypeOK
    CreditConserved
    NoFalseLimit
    AcceptedIsInSocket
    CloseLosesNothing
PROPERTIES
    SocketIsLetGo
    EndReachesReader
    WriteIsAnswered
    ImplementsStream
CHECK_DEADLOCK FALSE
