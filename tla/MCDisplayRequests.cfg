\* A request of any kind while the clock starts up and the hour strikes.
CONSTANTS
    Machines = {"tubes", "lamp3"}
    Polled = {"tubes", "lamp3"}
    Requests <- MCTubes
    RequestLimit = 1
    HourLimit = 1
    AnimationTicks = 1
SPECIFICATION FairSpec
INVARIANTS
    TypeOK
    LampFollowsTime
PROPERTY
    LampIsLit
CHECK_DEADLOCK FALSE
