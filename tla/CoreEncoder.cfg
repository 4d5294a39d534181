SPECIFICATION Spec
CONSTANTS
    Kinds = {"lc", "he", "ld", "eld", "eld_multi"}
    Nominals = {17, 24}
    Capacities = {0, 8, 16}
    Sizes = {1, 2, 3, 5}
    StaticBits = 8
    FrameBound = 4
INVARIANTS RateIsKept RateIsFilled RefusalIsNeeded WindowsOverlap StreamStandsAlone CorrectionIsOfOneFrame
