\* Whole-file writes only.
SPECIFICATION Spec
CONSTANTS
    f1 = f1
    f2 = f2
    c1 = c1
    c2 = c2
    Files = {f1, f2}
    Openable = {}
    Calls = {c1, c2}
    Kinds = {"writeFile"}
    MaxSize = 1
    Quota = 2
    Absent = Absent
    None = None
INVARIANT OverlapOnlyOverCounts
CHECK_DEADLOCK FALSE
