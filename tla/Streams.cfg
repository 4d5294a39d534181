SPECIFICATION AuditSpec
CONSTANTS
    Contents = {a, junk}
    NoContent = NoContent
    UsizeMax = 9
    Configs <- StreamConfigurations
    Junk = junk
    Formats = {"f32"}
    Framing = "adts"
    SameMux = SameMux
    NoMux = NoMux
    NoShape = NoShape
    Faults = {"none", "framing", "config", "syntax", "check"}
    EntryPoints = {"flagged", "conceal", "flush"}
    Methods = {"mute", "energy"}
    U64Max = 0
INVARIANTS NothingCrossesInterruption DrainingEnds ReferenceIsSound BurstFadesOut
