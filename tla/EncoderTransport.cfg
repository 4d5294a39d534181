SPECIFICATION Spec
CONSTANTS
    Checks = {nothing}
    OtherBits = {0}
    Lengths = {0}
    NoMux = NoMux
    SameMux = SameMux
    U8Max = 3
    Muxes = {"raw", "adif", "adts", "latm", "loas"}
    Subframes = {1, 2, 3}
    Periods = {0, 1, 2, 3}
    Sizes = {2, 12}
    FrameLimit = 20
    HeaderBytes = 7
    ConfigBytes = 7
    UnitBound = 12
INVARIANTS UnitsAreBlocks RefusalIsRepaired
