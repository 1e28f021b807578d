\* A click is over after 4 periods, a hold is reported after 6 and repeated after 2 more.
CONSTANTS
    Clicks = 2
    ActiveSets <- ServerSets
    Periods = {10}
    MulticlickMs = 40
    HoldMs = 60
    RepeatMs = 20
    DebounceMs = 10
    FilterMs = 5
SPECIFICATION FairSpec
INVARIANTS
    TypeOK
    ClicksCounted
    OneConsumer
    HoldIsReleased
PROPERTIES
    GestureEnds
