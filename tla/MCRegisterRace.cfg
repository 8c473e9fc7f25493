\* Two writing threads: the expander does not follow the register.
CONSTANTS
    tubes = tubes
    consumer = consumer
    data = data
    clock = clock
    power = power
    NoThread = NoThread
    NoByte = NoByte
    Threads <- MCThreads
    Pins <- MCTwoPins
    WritesOf <- MCTwoPinWrites
    Readers = {}
    PipeCap = 2
    BusMayFail = FALSE
    ServerMayDie = FALSE
SPECIFICATION Spec
INVARIANT HardwareFollowsRegister
