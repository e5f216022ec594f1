\* A decryption in flight while another connection locks the agent.
SPECIFICATION Spec
CONSTANTS
    s1 = s1
    s2 = s2
    k1 = k1
    k2 = k2
    tty1 = tty1
    tty2 = tty2
    Session = {s1, s2}
    Command = {}
    Key = {k1}
    Pass = {p1}
    NoPass = NoPass
    NoArg = NoArg
    Context = {tty1, tty2}
    NoContext = NoContext
    ContextOf <- OneTerminal
    DecryptFp = DecryptFp
    AuthFp = AuthFp
    Ops <- DecryptLockOps
    Faults = {}
INVARIANTS LockedCacheEmpty
