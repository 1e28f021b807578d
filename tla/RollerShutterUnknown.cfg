\* Power fails between the new times and the calibration they ask for.
CONSTANTS
    Percents = {0, 50, 100}
    Times = {30, 40}
    OpeningExtra = 10
    RealTime = 40
    PeriodMs = 5
    PauseMs = 10
    DefaultTimeoutMs = 70
    MaxRequests = 3
    MaxRestarts = 1
SPECIFICATION FairSpec
PROPERTIES
    OpenNeverCloses
CHECK_DEADLOCK FALSE
