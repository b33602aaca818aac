SPECIFICATION Spec
CONSTANTS
    Times <- Pictures
    SecondLen = 4
    MaxCache = 3
    Unreadable = {5}
    Modes <- SlowUpload
INVARIANTS
    RecordsMatch
CHECK_DEADLOCK FALSE
