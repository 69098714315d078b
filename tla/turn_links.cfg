\* Link failures, daemon crashes, a cancel and a deletion around two prompts.
CONSTANTS
    MaxPrompts  = 2
    MaxRuns     = 4
    MaxConns    = 2
    MaxSays     = 2
    MaxAsks     = 1
    MaxCancels  = 1
    MaxRetries  = 0
    MaxDrops    = 1
    MaxRestarts = 0
    MaxDeletes  = 1
    Agent       = "claude"
    Outcomes    = {"none", "fail"}
SPECIFICATION Spec
INVARIANTS
    LiveRunIsActive
PROPERTIES
    OutputInTurnOrder
    CancelStopsQueue
CHECK_DEADLOCK FALSE
