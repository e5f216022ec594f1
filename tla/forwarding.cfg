\* sudo on a host to which the agent is forwarded.
SPECIFICATION Spec
CONSTANTS
    a = a
    b = b
    c1 = c1
    f1 = f1
    word = word
    other = other
    seed = seed
    Server = {a}
    WithHttp = {a}
    Command = {c1}
    Foreign = {}
    HasAddr = {}
    OtherName = {c1}
    Jobs <- JustAuth
    ForeignJobs <- SomeForeign
    Word <- Words
    Reference <- AllReferences
    Base32 <- Seeds
    Spoilt = Spoilt
    Code = Code
    ErrorText = ErrorText
    Nobody = Nobody
    Nothing = Nothing
    Passed = Passed
PROPERTIES ForwardedAgentAsked
