\* A quit that waits for an install which succeeds.
SPECIFICATION Spec
CONSTANTS
    Refs = {x}
    Disks = {d1}
    None = None
    MaxAsked = 2
    MaxAskedBusy = 2
    MaxSignals = 1
    MaxInstalls = 1
    MaxRequests = 4
INVARIANTS
    KeyOutlivesQuit
CHECK_DEADLOCK FALSE
