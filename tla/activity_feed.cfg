SPECIFICATION FairSpec
CONSTANTS
    Threads = {1, 2, 3}
    Limit = 2
    MaxWriters = 2
    MaxWall = 3
    MaxStamp = 4
    MaxBoots = 2
INVARIANTS
    TypeOK
    NoneSkipped
    NoneRepeated
PROPERTIES
    Delivered
