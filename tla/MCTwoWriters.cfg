\* The thread of the tubes and the consumer thread share the register, over a bus
\* that may fail and with a driver that may die.
CONSTANTS
    tubes = tubes
    consumer = consumer
    data = data
    clock = clock
    power = power
    NoThread = NoThread
    NoByte = NoByte
    Threads <- MCThreads
    Pins <- MCTwoPins
    WritesOf <- MCTwoPinWrites
    Readers = {}
    PipeCap = 2
    BusMayFail = TRUE
    ServerMayDie = TRUE
SPECIFICATION FairSpec
INVARIANTS
    TypeOK
    OwnPinsSurvive
    OwnPinsInv
PROPERTY CallsReturn
