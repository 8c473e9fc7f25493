\* A read through -stdio never returns, and no other call after it.
CONSTANTS
    tubes = tubes
    consumer = consumer
    data = data
    clock = clock
    power = power
    NoThread = NoThread
    NoByte = NoByte
    Threads <- MCThreads
    Pins <- MCTwoPins
    WritesOf <- MCTwoPinWrites
    Readers = {consumer}
    PipeCap = 2
    BusMayFail = FALSE
    ServerMayDie = FALSE
SPECIFICATION FairSpec
PROPERTY CallsReturn
CHECK_DEADLOCK FALSE
