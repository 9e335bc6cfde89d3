\* One socket allowed, two addresses a host, the app loaded twice, one withdrawal.
SPECIFICATION FairSpec
CONSTANTS
    Calls = {c1, c2}
    c1 = c1
    c2 = c2
    None = none
    Addresses = 2
    SocketLimit = 1
    Documents = 2
    Withdrawals = 1
CONSTRAINT AnInstance
INVARIANTS
    TypeOK
    NoStraySocket
    CancelIsExact
    HandleIsKnown
PROPERTY CallIsAnswered
CHECK_DEADLOCK FALSE
