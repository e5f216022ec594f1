\* Two connections, processes that start and end, a key and decryption.
SPECIFICATION CallersSpec
CONSTANTS
    c1 = c1
    c2 = c2
    key = key
    Session = {c1, c2}
    Pid = {1, 2, 3}
    Tty = {7}
    Fingerprint = {key, DecryptFp}
    DecryptFp = DecryptFp
    NoFp = NoFp
    Worlds <- AllWorlds
    WalkLimit = 2
    MaxTouches = 2
    Slot <- AllSlots
    DecryptSlot <- DecryptSlots
    SignDuration = 2
    DecryptDuration = 1
    Absent = Absent
    MaxTime = 2
PROPERTIES ImplementsTouchWindow SharedWithinContext
SYMMETRY Swaps
