\* A channel of two, and enough events to fill it while the view is busy.
SPECIFICATION FairSpec
CONSTANTS
    Cap = 2
    MaxEvents = 5
INVARIANTS
    TypeOK
    NothingLost
    ReportIsTrue
    KeyIsAcknowledged
PROPERTIES
    NobodyWaitsForEver
CHECK_DEADLOCK FALSE
