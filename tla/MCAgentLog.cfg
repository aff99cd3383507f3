SPECIFICATION Spec
CONSTANTS
    Keep = 2
    MaxBytes = 3
    Lens <- MCLens
    MaxLines = 5
    MaxFaults = 3
INVARIANTS
    TypeOK
    OlderIsHigher
    NoGap
    LostOnlyAfterKeepFailures
    SizeBound
PROPERTIES
    OnlyOldestDropped
    ImplementsRetainedLog
