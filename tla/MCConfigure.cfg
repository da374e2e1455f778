\* Two apps, two groups, and a tree of three chunks through pipes of one.
SPECIFICATION FairSpec
CONSTANTS
    a = a
    b = b
    g = g
    h = h
    Apps = {a, b}
    Groups = {g, h}
    Chunks = 3
    Capacity = 1
INVARIANTS
    TypeOK
    AppsBoot
    AppsAccountedFor
    AccessAsAsked
    WholeTree
PROPERTY CopyEndsIfReaderLives
CHECK_DEADLOCK FALSE
