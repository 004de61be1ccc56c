SPECIFICATION Spec
CONSTANTS
    Threads = {t1, t2}
    States = {s1, s2}
    None = None
    Points = {x}
    Bad = Bad
    Functions = {"factory", "free", "update", "output"}
    Rows = 1
    Columns = 1
    MaxHandles = 3
INVARIANTS HandlesResolve StatesAreOwned FreeSucceedsOnce OutputsOfOwnUpdate
SYMMETRY Interchangeable
