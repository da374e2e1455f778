\* Two images whose inspections come back late, rescans of one disk, two
\* installs with retries, signals, and every way to quit: any five of these, of
\* which three scans or inspections where there is an install or a signal.
SPECIFICATION FairSpec
CONSTANTS
    Refs = {x, y}
    Disks = {d1}
    None = None
    MaxAsked = 5
    MaxAskedBusy = 3
    MaxSignals = 2
    MaxInstalls = 2
    MaxRequests = 5
INVARIANTS
    TypeOK
    OneInstallAtATime
    NoInstallOutlivesWindow
PROPERTIES
    InstallsWhatWasReviewed
    QuitEnds
    AppListArrives
CHECK_DEADLOCK FALSE
