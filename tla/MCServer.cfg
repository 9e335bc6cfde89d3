\* Four peers against a queue of two and an allowance of two accepted sockets, three
\* reads, alone or overlapping.
SPECIFICATION FairSpec
CONSTANTS
    QueueLimit = 2
    SocketLimit = 3
    MaxDemand = 2
    Peers = 4
    Reads = 3
INVARIANTS
    TypeOK
    NoStrayConnection
    InOrderThenEnd
    OneReadOneAccept
PROPERTIES
    ReadIsAnswered
CHECK_DEADLOCK FALSE
