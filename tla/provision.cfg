\* Every kind of setup, dying anywhere.
SPECIFICATION Spec
CONSTANTS
    Ops = {"init", "pubkey", "import"}
    MaxAttempts = 4
    Crashes = TRUE
    None = None
    Torn = Torn
INVARIANTS TypeOK ReportedSetupWorks UsableOnceConfigured
\* Once every attempt is used up nothing is left to do.
CHECK_DEADLOCK FALSE
