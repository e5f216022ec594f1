\* Connections from two terminals: approvals, changes of the keys, the lock,
\* the sweeper, and restarts.
SPECIFICATION FairSpec
CONSTANTS
    s1 = s1
    s2 = s2
    k1 = k1
    k2 = k2
    tty1 = tty1
    tty2 = tty2
    Session = {s1, s2}
    Command = {}
    Key = {k1}
    Pass = {p1}
    NoPass = NoPass
    NoArg = NoArg
    Context = {tty1, tty2}
    NoContext = NoContext
    ContextOf <- Apart
    DecryptFp = DecryptFp
    AuthFp = AuthFp
    Ops <- AgentOps
    Faults = {"crash"}
PROPERTIES
    ImplementsTouchGate LockedAgentGainsNothing AcknowledgedIsStored
    EveryRequestAnswered IdleKeysCleared
\* A crash in the middle of a save leaves a file no agent starts on.
CHECK_DEADLOCK FALSE
