SPECIFICATION HTSpec
CONSTANTS
    hand = hand
    record = record
    exporter = exporter
    NoLock = NoLock
    Orders <- MCOrders
    Groups <- MCGroups
    GroupOf <- MCGroupOf
    Policy <- MCPolicy
    Depth <- MCDepth
    MaxCache = 3
    MinCache = 2
    Raws <- MCRaws
    NsPerMicro = 1
    Readers <- MCReaders
    ReaderGroup <- MCReaderGroup
    Drainers <- MCReaders
    Exporter = exporter
    RecordGroup = 1
    Garbage <- MCGarbage
INVARIANTS
    KeepsFrames
