SPECIFICATION AuditSpec
CONSTANTS
    Contents = {a, junk}
    NoContent = NoContent
    UsizeMax = 1
    Configs <- LatmConfigs
    Junk = junk
    Formats = {"f32"}
    Framing = "latm"
    SameMux = SameMux
    NoMux = NoMux
    NoShape = NoShape
    Faults = {"none", "framing", "config", "syntax", "check"}
    EntryPoints = {"decode", "conceal", "named"}
    Methods = {"noise"}
    U64Max = 2
INVARIANTS MuxMatchesDecoder CountedOnce
