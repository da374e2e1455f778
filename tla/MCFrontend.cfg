\* Two machines, three images of which one has lost its key file and two share a
\* name, two disks; and a third machine for the secrets.
SPECIFICATION Spec
CONSTANTS
    sda = sda
    sdb = sdb
    sda1 = sda1
    byid = byid
    overlay = overlay
    snow = snow
    floe = floe
    snowRef = snowRef
    floeRef = floeRef
    p1 = p1
    p2 = p2
    spinRef = spinRef
    pubKey = pubKey
    gone = gone
    secret = secret
    open = open
    keys = keys
    None = None
    NoRecipe = NoRecipe
    Disks = {sda, sdb}
    Links = {byid}
    Others = {sda1}
    Roots = {sda1, overlay}
    PathsBefore <- MCPathsBefore
    Listings <- MCListings
    Refs = {snowRef, floeRef, spinRef}
    RegistryRefs = {snowRef, floeRef, spinRef}
    KeyFiles = {keys, secret}
    Catalog <- MCCatalog
    StoredFiles <- MCStoredFiles
    Machines <- MCMachines
    Filesystems = {"xfs"}
    Typed <- MCTyped
    Slips = {"user"}
    Stuck = {"passphrase", "mok-password", "user-password"}
    HandRecipes <- MCHandRecipes
CONSTRAINT
    OneAtATime
INVARIANTS
    ErasesTheTypedDisk
    OnlyKeyFileRefused
    SecretsAreTheRecipes
    AnswersAreThisImages
    InstallHasItsInputs
CHECK_DEADLOCK FALSE
