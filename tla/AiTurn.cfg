\* Two turns, a provider that names its calls alike, a connection given up,
\* and answers too large to be taken.
SPECIFICATION Spec
CONSTANTS
    Turns = 2
    MaxRetries = 1
    MaxPauses = 0
    MaxCalls = 2
    Capacity = 2
    Offered = {"command", "mcp"}
    Names = {"reused"}
    MaxGeneration = 1
    Faults = {"oversize", "lost", "giveUp", "large"}
INVARIANTS PendingIsAwaited EffectsOnce ApprovalsMatchLedger
PROPERTIES RetryRepeatsNothing LateEndIsIgnored
\* Nothing runs once every turn has ended.
CHECK_DEADLOCK FALSE
