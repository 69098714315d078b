\* A link that fails once during a turn.
CONSTANTS
    MaxPrompts  = 1
    MaxRuns     = 3
    MaxConns    = 2
    MaxSays     = 0
    MaxAsks     = 0
    MaxCancels  = 0
    MaxRetries  = 0
    MaxDrops    = 1
    MaxRestarts = 0
    MaxDeletes  = 0
    Agent       = "codex"
    Outcomes    = {"none", "fail"}
SPECIFICATION FairSpec
PROPERTY TurnEnds
CHECK_DEADLOCK FALSE
