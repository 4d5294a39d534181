SPECIFICATION Spec
CONSTANTS
    PreRollUnits = {0, 2}
    Gains = {TRUE, FALSE}
    FrameBound = 2
    NestingBound = 2
INVARIANTS SeamIsContinuous RandomAccess
