\* A tag that moves between two images; every recipe, host and failure.
SPECIFICATION Spec
CONSTANTS
    Digests = {a, b}
    None = None
INVARIANTS
    OnlySignedIsInstalled
    CoreSetIsInstalledImages
PROPERTIES
    NoFalseNetworkVerdict
CHECK_DEADLOCK FALSE
