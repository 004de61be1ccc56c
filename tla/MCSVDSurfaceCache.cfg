CONSTANTS
    k1 = k1
    k2 = k2
    k3 = k3
    small = small
    large = large
    Miss = Miss
    Keys <- MCKeys
    Surfaces <- MCSurfaces
    SizeOf <- MCSizeOf
    BytesPerMB <- MCBytesPerMB
    ConfigValues <- MCConfigValues
SPECIFICATION Spec
INVARIANTS ListMatchesMap TotalIsSum KeepsMostRecent
PROPERTIES RespectsLimits FreshSurvives PutReturns ImplementsStore
