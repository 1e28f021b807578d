\* An inverted 180 degree servo switched between two positions, restarted only at rest.
CONSTANTS
    Type = 0
    ChType = 2
    Inverted = TRUE
    MinUs = 1000
    MidUs = 1500
    MaxUs = 2000
    TransitionTimeMs = 60
    DeadbandPercent = 3
    DetachDelayMs = 20
    HasLimitUp = FALSE
    HasLimitDown = FALSE
    Percents = {0, 1}
    PowerLossAnytime = FALSE
    TimeStepMs = 20
    ClockCapMs = 60
SPECIFICATION Spec
PROPERTIES
    SmoothMotion
