\* A client without an agent that encrypts over HTTP.
SPECIFICATION Spec
CONSTANTS
    a = a
    b = b
    c1 = c1
    f1 = f1
    word = word
    other = other
    seed = seed
    Server = {a}
    WithHttp = {a}
    Command = {c1}
    Foreign = {}
    HasAddr = {c1}
    OtherName = {}
    Jobs <- JustCreate
    ForeignJobs <- SomeForeign
    Word <- Words
    Reference <- AllReferences
    Base32 <- Seeds
    Spoilt = Spoilt
    Code = Code
    ErrorText = ErrorText
    Nobody = Nobody
    Nothing = Nothing
    Passed = Passed
PROPERTIES HttpServesClient
