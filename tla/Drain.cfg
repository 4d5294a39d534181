SPECIFICATION Spec
CONSTANTS
    a = a
    b = b
    c = c
    junk = junk
    First = First
    Second = Second
    Contents = {a, b, c, junk}
    NoContent = NoContent
    UsizeMax = 9
    Configs = {First, Second}
    Junk = junk
    Formats = {"f32", "i16"}
    Faults = {"none", "config", "syntax"}
    Gaps = {0, 1, 4, 28}
    AuBytes = 4
    Blocks = {1, 2}
    FrameBytes = {3, 8}
    FrameBound = 2
    Methods = {"mute", "energy"}
    Origin <- OriginOf
INVARIANTS LossesAreFilled RunsFade RecoveryFadesIn FillIsFromLastFrame RepeatedFitsFrame EstimateIsNearest
