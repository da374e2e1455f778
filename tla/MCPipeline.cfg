\* Two processes contend for the lock; a preflight step and one that holds something.
SPECIFICATION FairSpec
CONSTANTS
    Runs = {r1, r2}
    None = None
    NumSteps = 2
    NumPreflight = 1
    DeferSteps <- MCDeferLast
INVARIANTS
    LockCoversDisk
    RefusedTouchesNothing
    DryRunIsHarmless
    VerdictIsHonest
PROPERTIES
    MuteAfterSinkFailure
    StreamIsLegal
    RunEndsAndUnlocks
CHECK_DEADLOCK FALSE
