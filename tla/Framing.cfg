SPECIFICATION Spec
CONSTANTS
    Streams <- AllStreams
    StreamLength = 7
    HeaderLength = 3
INVARIANTS EveryByteAccounted GoodFramesArrive NothingPinned
PROPERTIES RequestsEnd ImplementsReader
CHECK_DEADLOCK FALSE
