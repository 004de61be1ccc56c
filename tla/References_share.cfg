SPECIFICATION Spec
CONSTANTS
    Threads = {t1, t2}
    Points = {"NBP"}
    Point <- MCPoint
    MaxSets = 2
    None = None
INVARIANT CurvesOfOneFrame
INVARIANT ReadsFinishedCurves
INVARIANT AnswersInOwnFrame
INVARIANT InForceAsSet
INVARIANT AnchorsInOwnFrame
