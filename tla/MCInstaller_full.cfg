\* Everything a recipe can ask for, with commands killed too late.
SPECIFICATION Spec
CONSTANTS
    Me = Me
    None = None
    Encryption = "tpm2-luks"
    Bootloader = "systemd"
    Subvolumes = TRUE
    Mok = TRUE
    RamHost = TRUE
INVARIANTS
    TypeOK
    WorksOnTarget
    KeyIsDisclosed
    SuccessIsComplete
    NoSilentLeak
PROPERTIES
    CancelOnlyReleases
CHECK_DEADLOCK FALSE
