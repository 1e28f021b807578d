\* The style that marks its changes for the next registration, and connections that break.
CONSTANTS
    v1 = v1
    v2 = v2
    lacking = lacking
    UsedConfigTypes = {0, 5}
    Values = {v1, v2}
    Incomplete = {lacking}
    Completed <- CompletedToSecond
    CloudValues = {v2, lacking}
    Empty = Empty
    Bad = Bad
    InitialValue = v1
    Styles = {"pending"}
    MaxChanges = 3
    MaxRefusals = 1
    MaxLosses = 1
    MaxEvents = 4
SPECIFICATION Spec
PROPERTIES
    OfflineChangeWins
CHECK_DEADLOCK FALSE
