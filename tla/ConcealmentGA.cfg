SPECIFICATION Spec
CONSTANTS
    Contents = {a, b}
    NoContent = NoContent
    UsizeMax = 9
    Profile = "GA"
    Format = "f32"
INVARIANTS PathCoherent LongBurstIsSilent
PROPERTIES BurstNeverRises RampIsContinuous RecoveryIsFaded
