\* The same, asking more of the copy.
SPECIFICATION FairSpec
CONSTANTS
    a = a
    b = b
    g = g
    h = h
    Apps = {a, b}
    Groups = {g, h}
    Chunks = 3
    Capacity = 1
PROPERTY CopyEnds
CHECK_DEADLOCK FALSE
