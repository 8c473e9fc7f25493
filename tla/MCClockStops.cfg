\* A countdown, and then the full hour: is the animation of the hour left?
CONSTANTS
    Machines = {"tubes"}
    Polled = {"tubes"}
    Requests <- MCCountDown
    RequestLimit = 1
    HourLimit = 1
    AnimationTicks = 1
SPECIFICATION FairSpec
PROPERTY AnimationIsLeft
CHECK_DEADLOCK FALSE
