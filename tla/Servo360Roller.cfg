\* A continuous servo moving a roller by time, between two limit switches.
CONSTANTS
    Type = 1
    ChType = 1
    Inverted = FALSE
    MinUs = 1000
    MidUs = 1500
    MaxUs = 2000
    TransitionTimeMs = 60
    DeadbandPercent = 3
    DetachDelayMs = 20
    HasLimitUp = TRUE
    HasLimitDown = TRUE
    Percents = {0, 50, 100}
    PowerLossAnytime = FALSE
    TimeStepMs = 20
    ClockCapMs = 60
SPECIFICATION Spec
INVARIANTS
    MotorIsWatched
