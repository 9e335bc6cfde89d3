\* Two files, one of which is opened and closed, two calls at a time, a file of one
\* unit at most and a quota of one, so that growth, refusal, refund and
\* replacement all happen.
SPECIFICATION Spec
CONSTANTS
    f1 = f1
    f2 = f2
    c1 = c1
    c2 = c2
    Files = {f1, f2}
    Openable = {f2}
    Calls = {c1, c2}
    Kinds = {"writeFile", "rm", "rename", "write", "truncate"}
    MaxSize = 1
    Quota = 1
    Absent = Absent
    None = None
SYMMETRY CallSymmetry
CONSTRAINT StillClaimed
INVARIANTS
    TypeOK
    CountCoversDisk
    QuotaHoldsOnDisk
    CountIsExact
CHECK_DEADLOCK FALSE
