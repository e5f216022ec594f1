\* Two servers that start, stop and die, a client with VT_ADDR, another HTTP client.
SPECIFICATION Spec
CONSTANTS
    a = a
    b = b
    c1 = c1
    f1 = f1
    word = word
    other = other
    seed = seed
    Server = {a, b}
    WithHttp = {a, b}
    Command = {c1}
    Foreign = {f1}
    HasAddr = {c1}
    OtherName = {}
    Jobs <- AllJobs
    ForeignJobs <- SomeForeign
    Word <- Words
    Reference <- AllReferences
    Base32 <- Seeds
    Spoilt = Spoilt
    Code = Code
    ErrorText = ErrorText
    Nobody = Nobody
    Nothing = Nothing
    Passed = Passed
INVARIANTS TypeOK AloneIsReachable
PROPERTIES OwnValues ImplementsOneShot
