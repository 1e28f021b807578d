\* A 180 degree servo driving a roller, inverted, restarted only at rest.
CONSTANTS
    Type = 0
    ChType = 0
    Inverted = TRUE
    MinUs = 1000
    MidUs = 1500
    MaxUs = 2000
    TransitionTimeMs = 60
    DeadbandPercent = 3
    DetachDelayMs = 20
    HasLimitUp = FALSE
    HasLimitDown = FALSE
    Percents = {0, 80}
    PowerLossAnytime = FALSE
    TimeStepMs = 20
    ClockCapMs = 60
SPECIFICATION FairSpec
INVARIANTS
    TypeOK
    MechanicalRange
    HornMatchesCloud
PROPERTIES
    SmoothMotion
    PinReleased
