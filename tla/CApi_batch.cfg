SPECIFICATION FairSpec
CONSTANTS
    Threads = {t1, t2}
    States = {s1}
    None = None
    Points = {x, y}
    Bad = Bad
    Functions = {"factory", "free", "batch"}
    Rows = 2
    Columns = 2
    MaxHandles = 1
INVARIANTS BatchRowsAreOwn
PROPERTIES LockIsReleased
