\* Every image root and both kinds of ESP, with power lost at any time.
SPECIFICATION Spec
INVARIANTS
    ChainBeforeShim
    SuccessIsDurable
CHECK_DEADLOCK FALSE
