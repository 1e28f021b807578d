\* The same relay, with power lost between the two stores.
CONSTANTS
    StateOnInit = "restore"
    RestartTimerOnToggle = TRUE
    MotionSensor = FALSE
    Functions = {"power", "staircase"}
    DefaultStaircaseMs = 3
    DefaultImpulseMs = 1
    Durations = {0, 2}
    TimeStepMs = 1
    ClockCapMs = 4
SPECIFICATION Spec
PROPERTIES
    RestoredCountdown
