\* The in-flight budget under a fair event loop: four calls, one slot, two places
\* in the queue, so that handing over, expiring, cancelling and refusing all happen.
SPECIFICATION FairSpec
CONSTANTS
    Ops = {o1, o2, o3, o4}
    Cap = 1
    QueueLimit = 2
INVARIANTS
    TypeOK
    SlotAccounting
    QueueIsExact
    NoOvertaking
PROPERTIES
    CallsReturn
CHECK_DEADLOCK FALSE
