\* Does every transfer end?  One interface, two transfer objects.
CONSTANTS
    Xfrs = {x1, x2}
    NoXfr = NoXfr
    Uses = {{"gpio"}, {"spi"}, {"ow"}, {"twi"}, {"stx", "slave"}, {"srx", "slave"}, {"card"}}
    Reenable = FALSE
    GpioPins = {0, 1}
    GpioEarly = FALSE
    SpiLen = 7
    MaxPacket = 2
    SpiSizes = {1, 3}
    SpiSelects = {0}
    OwLen = 12
    MaxTouch = 2
    OwIds = {"touch", "enum"}
    OwSizes = {0, 3}
    OwFirmware = TRUE
    TwiLen = 6
    TwiPacket = 2
    TwiRequests <- MCTwiRequests
    CardWrite <- MCCardWrite
    CardRead <- MCCardRead
    ChunkLimit = 2
    SlaveLen = 7
    SlavePacket = 2
    SlaveSizes = {3}
    SlaveLasts = {TRUE}
    UartRing = 2
    UartLen = 2
    UartPacket = 2
    UartBytes = {0, 1}
    UartWrites = 2
    UartBacklog = 1
    UartRestart = FALSE
SPECIFICATION FairSpec
PROPERTIES
    TransfersEnd
    HandshakeEnds
    CallsReturn
CHECK_DEADLOCK FALSE
