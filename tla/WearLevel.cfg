CONSTANTS
    States = {v1, v2}
    None = None
    Blank = Blank
    Dirty = Dirty
    SectorWords = 7
    DataSectors = 3
    BitmapBytes = 4
    BitsPerByte = 3
    Sizes = {2, 3}
    MaxFaults = 3
    LossBetweenBytes = FALSE
SPECIFICATION FairSpec
INVARIANTS
    TypeOK
    BitmapNamesSlot
PROPERTIES
    KeepsPromise
    SaveEnds
