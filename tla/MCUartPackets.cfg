\* A UART alone: an application that writes more than fits in a packet of the
\* protocol, whose limit is one byte here.
CONSTANTS
    Xfrs = {x1, x2}
    NoXfr = NoXfr
    Uses = {{"uart", "uart_tx"}}
    Reenable = FALSE
    GpioPins = {0, 1}
    GpioEarly = FALSE
    SpiLen = 7
    MaxPacket = 2
    SpiSizes = {1, 3}
    SpiSelects = {0}
    OwLen = 12
    MaxTouch = 2
    OwIds = {"reset", "touch", "enum", "probe"}
    OwSizes = {0, 3}
    OwFirmware = TRUE
    TwiLen = 9
    TwiPacket = 2
    TwiRequests <- MCTwiRequests
    CardWrite <- MCCardWrite
    CardRead <- MCCardRead
    ChunkLimit = 2
    SlaveLen = 7
    SlavePacket = 2
    SlaveSizes = {3}
    SlaveLasts = {TRUE, FALSE}
    UartRing = 2
    UartLen = 2
    UartPacket = 1
    UartBytes = {0, 1}
    UartWrites = 2
    UartBacklog = 1
    UartRestart = FALSE
SPECIFICATION Spec
PROPERTY UartPacketsFit
CHECK_DEADLOCK FALSE
