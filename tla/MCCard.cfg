\* Four commands on a card with one LED per driver and two LEDOUT registers,
\* and two faults: failing transfers or deaths of the driver.
SPECIFICATION Spec
CONSTANTS
    FaultLimit = 2
    CommandLimit = 4
    Times <- MCTimes
    NoTime = NoTime
    Dim = 1
    Groups = 2
    Levels = {0, 255}
    NoRange = NoRange
    Channels = 2
    Settings <- MCSettings
    Prescales = {3}
    Unknown = Unknown
INVARIANTS
    TypeOK
    PollAnswersWhatWasSet
    PowerUpIsHandled
    KnownTimeIsADate
    DimTakesEffect
    PrescalerTakesEffect
    SettingsReadBack
    PresentIsInitialised
CHECK_DEADLOCK FALSE
