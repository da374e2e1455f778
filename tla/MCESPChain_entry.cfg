\* Power lost while shim replaces the boot entry.
SPECIFICATION Spec
INVARIANTS
    EntryBoots
CHECK_DEADLOCK FALSE
