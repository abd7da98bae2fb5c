SPECIFICATION CSpec
CONSTANTS
    KeepTurns = {1, 2}
    DropTurns = {1, 2}
    MaxToolCalls = 2
    MaxSpoken = 10
INVARIANTS
    PairingKept
    Chronological
    UserLeads
CHECK_DEADLOCK FALSE
