\* A btrfs root whose subvolumes, and then the unmount, may fail.
SPECIFICATION Spec
CONSTANTS
    Me = Me
    None = None
    Encryption = "none"
    Bootloader = "systemd"
    Subvolumes = TRUE
    Mok = FALSE
    RamHost = FALSE
INVARIANTS
    ScratchIsUnmounted
CHECK_DEADLOCK FALSE
