\* Two injections into the same file within the timeout.
SPECIFICATION FairSpec
CONSTANTS
    p1 = p1
    p2 = p2
    Proc = {p1, p2}
    Cleanups = {TRUE}
    MaxInode = 6
    Careful = FALSE
    Faults = {}
PROPERTIES AutomaticCleanup
