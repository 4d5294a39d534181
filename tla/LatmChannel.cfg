SPECIFICATION Spec
CONSTANTS
    Checks = {nothing, crc}
    OtherBits = {0, 8}
    Lengths = {0, 16}
    NoMux = NoMux
    SameMux = SameMux
    U8Max = 4
    Periods = {0, 1, 3}
    Subframes = 2
    Payloads = {1, 2}
PROPERTY ImplementsChannel
