\* A relay that restores its state, used as a switch, a staircase and a gate.
CONSTANTS
    StateOnInit = "restore"
    RestartTimerOnToggle = TRUE
    MotionSensor = FALSE
    Functions = {"none", "power", "staircase", "gate"}
    DefaultStaircaseMs = 3
    DefaultImpulseMs = 1
    Durations = {0, 2}
    TimeStepMs = 1
    ClockCapMs = 4
SPECIFICATION FairSpec
INVARIANTS
    TypeOK
    TimedRelay
PROPERTIES
    CountdownEnds
    StoresCatchUp
