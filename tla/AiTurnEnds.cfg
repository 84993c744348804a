\* One turn with two tool calls, every way a tool answers and every failure.
SPECIFICATION FairSpec
CONSTANTS
    Turns = 1
    MaxRetries = 1
    MaxPauses = 1
    MaxCalls = 2
    Capacity = 2
    Offered = {"sftp", "command", "mcp"}
    Names = {"fresh"}
    MaxGeneration = 1
    Faults = {"unstartable", "network", "lost", "giveUp", "large"}
PROPERTIES AnswererKept TurnEnds
\* Nothing runs once the turn has ended.
CHECK_DEADLOCK FALSE
