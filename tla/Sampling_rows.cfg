SPECIFICATION SamplingSpec
CONSTANTS
    NT = 5
    NR = 6
    Settings = {0, 1, 3, 4, 9}
    Processors = {0, 2}
    Sample <- MCSample
    Finite <- MCFinite
    NoValue = NoValue
CHECK_DEADLOCK FALSE
INVARIANTS RowsSampledOnce FilledAlongTheRows
