\* Injections one after the other, that die and are refused things anywhere.
SPECIFICATION FairSpec
CONSTANTS
    p1 = p1
    p2 = p2
    Proc = {p1, p2}
    Cleanups = {TRUE}
    MaxInode = 6
    Careful = TRUE
    Faults = {"death", "save", "fork", "undo"}
INVARIANTS TypeOK ReferencesKept
PROPERTIES AutomaticCleanup FailureUndone
\* After a death or a failed undo the file stays decrypted until the user restores it.
CHECK_DEADLOCK FALSE
