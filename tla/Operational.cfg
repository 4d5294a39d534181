SPECIFICATION Spec
CONSTANTS
    Contents = {a, junk}
    NoContent = NoContent
    UsizeMax = 2
    Configs <- OneConfig
    Junk = junk
    Formats = {"f32", "i16"}
    Framing = "adts"
    SameMux = SameMux
    NoMux = NoMux
    NoShape = NoShape
    Faults = {"none", "framing", "syntax", "check"}
    EntryPoints = {"decode", "flagged", "conceal", "flush"}
    Methods = {"noise", "energy"}
    U64Max = 0
INVARIANTS OneFormatWaits WaitingLossIsHeld
PROPERTIES HeldFrameIsPlayed WaitingLossIsConcealed
