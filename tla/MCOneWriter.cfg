\* One thread writes and another one reads, after which everything may wait for the
\* reader: deadlock is not checked.
CONSTANTS
    tubes = tubes
    consumer = consumer
    data = data
    clock = clock
    power = power
    NoThread = NoThread
    NoByte = NoByte
    Threads <- MCThreads
    Pins <- MCPins
    WritesOf <- MCOneWriterReads
    Readers = {consumer}
    PipeCap = 3
    BusMayFail = FALSE
    ServerMayDie = TRUE
SPECIFICATION Spec
INVARIANTS
    HardwareFollowsRegister
    ReaderIsAlone
PROPERTY ImplementsIoPort
CHECK_DEADLOCK FALSE
