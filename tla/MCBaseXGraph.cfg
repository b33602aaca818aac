SPECIFICATION FairSpec
CONSTANTS
    hand = hand
    kpt = kpt
    r1 = r1
    NoLock = NoLock
    Orders <- MCOrders
    Groups <- MCGroups
    GroupOf <- MCGroupOf
    Policy <- MCPolicy
    Depth <- MCDepth
    MaxCache = 3
    MinCache = 2
    Raws <- MCRaws
    NsPerMicro = 2
    Readers <- MCReaders
    ReaderGroup <- MCReaderGroup
    Drainers = {}
INVARIANTS
    TypeOK
    InferenceBounded
    OutputsComplete
    NewestFirst
PROPERTIES
    QuietWhenStopped
    ImplementsLatest
