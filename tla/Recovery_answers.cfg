CONSTANTS
    None = None
    Kinds = {"answer"}
    MaxFaults = 0
SPECIFICATION RecoverySpec
INVARIANTS
    OldIntentsEnd
CHECK_DEADLOCK FALSE
