SPECIFICATION FairSpec
CONSTANTS
    p1 = p1
    p2 = p2
    t1 = t1
    t2 = t2
    old = old
    new = new
    None = None
    Processes = {p1, p2}
    Threads = {t1, t2}
    ProcessOf <- OneEach
    VersionOf <- TwoVersions
    MaxStarts = 2
    Files = {f1, f2, f3}
    Pieces = 2
    MaxWrites = 2
    Faults = {"crash", "failure", "delete", "damage"}
INVARIANTS SurfacesAreOwn TempsAreWritten
PROPERTIES ImplementsFile EnsureEnds
CHECK_DEADLOCK FALSE
