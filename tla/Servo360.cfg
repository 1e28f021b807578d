\* A continuous servo switched on and off, with an upper limit switch.
CONSTANTS
    Type = 1
    ChType = 0
    Inverted = FALSE
    MinUs = 1000
    MidUs = 1500
    MaxUs = 2000
    TransitionTimeMs = 60
    DeadbandPercent = 3
    DetachDelayMs = 20
    HasLimitUp = TRUE
    HasLimitDown = FALSE
    Percents = {0, 1, 100}
    PowerLossAnytime = TRUE
    TimeStepMs = 10
    ClockCapMs = 60
SPECIFICATION FairSpec
INVARIANTS
    MotorIsWatched
PROPERTIES
    LimitStopsMotor
    OffStopsMotor
