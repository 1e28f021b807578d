\* Closing takes 8 periods of the timer, opening 10; the server may also send wrong times,
\* but never takes them away.
CONSTANTS
    Percents = {0, 50, 100}
    Times = {30, 40}
    OpeningExtra = 10
    RealTime = 40
    PeriodMs = 5
    PauseMs = 10
    DefaultTimeoutMs = 70
    MaxRequests = 3
    MaxRestarts = 1
SPECIFICATION FairSpec
INVARIANTS
    TypeOK
    PositionTracksShutter
PROPERTIES
    ReversalPause
    MotorStops
    ArrivesAtTarget
CHECK_DEADLOCK FALSE
