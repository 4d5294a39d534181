SPECIFICATION AuditSpec
CONSTANTS
    Contents = {a, junk}
    NoContent = NoContent
    UsizeMax = 9
    Configs <- OneConfig
    Junk = junk
    Formats = {"f32"}
    Framing = "adts"
    SameMux = SameMux
    NoMux = NoMux
    NoShape = NoShape
    Faults = {"none", "syntax"}
    EntryPoints = {"flagged"}
    Methods = {"energy"}
    U64Max = 0
INVARIANTS LongBurstFadesOut
