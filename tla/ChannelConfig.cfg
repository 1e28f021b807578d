\* A channel with two parts of configuration, three changes, four events.
CONSTANTS
    v1 = v1
    v2 = v2
    lacking = lacking
    UsedConfigTypes = {0, 5}
    Values = {v1, v2}
    Incomplete = {lacking}
    Completed <- CompletedToSecond
    CloudValues = {v2, lacking}
    Empty = Empty
    Bad = Bad
    InitialValue = v1
    Styles = {"trigger", "pending"}
    MaxChanges = 3
    MaxRefusals = 1
    MaxLosses = 1
    MaxEvents = 4
SPECIFICATION FairSpec
INVARIANTS
    TypeOK
    SettledAgrees
    SettledForgets
PROPERTIES
    OfflineChangeKept
    ExchangeEnds
CHECK_DEADLOCK FALSE
