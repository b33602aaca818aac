SPECIFICATION PolledSpec
CONSTANTS
    hand = hand
    record = record
    watcher = watcher
    exporter = exporter
    NoLock = NoLock
    Orders <- MCOrders
    Groups <- MCGroups
    GroupOf <- MCGroupOf
    Policy <- MCPolicy
    Depth <- MCDepth
    MaxCache = 3
    MinCache = 2
    Raws <- MCRaws
    NsPerMicro = 1
    Readers <- MCReaders
    ReaderGroup <- MCReaderGroup
    Drainers = {exporter}
PROPERTIES
    BlockedCallbackResumes
