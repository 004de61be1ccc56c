SPECIFICATION Spec
CONSTANTS
    s1 = s1
    s2 = s2
    s3 = s3
    Pure = Pure
    Mix = Mix
    Pre = Pre
    Lost = Lost
    None = None
    States = {s1, s2, s3}
    Fluids = {Pure, Mix, Pre, Lost}
    Single = {Pure, Pre, Lost}
    Predefined = {Pre}
    Estimated = {Mix, Pre}
    Missing = {Lost}
    MaxCount = 6
SYMMETRY Symmetry
INVARIANT ReadsOwnFluids
PROPERTY UnloadsUnused
