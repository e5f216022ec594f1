\* Two connections and a command that change the keys, with signers and the lock.
SPECIFICATION Spec
CONSTANTS
    s1 = s1
    s2 = s2
    k1 = k1
    k2 = k2
    tty1 = tty1
    tty2 = tty2
    Session = {s1, s2}
    Command = {c1}
    Key = {k1}
    Pass = {p1, p2}
    NoPass = NoPass
    NoArg = NoArg
    Context = {}
    NoContext = NoContext
    ContextOf <- Uncached
    DecryptFp = DecryptFp
    AuthFp = AuthFp
    Ops <- StoreOps
    Faults = {"crash", "save"}
INVARIANTS TypeOK SignerHoldsKey LockAgrees
PROPERTIES LockedAgentGainsNothing
