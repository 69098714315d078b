\* A cancel that reaches the server after the end of the turn.
CONSTANTS
    MaxPrompts  = 2
    MaxRuns     = 4
    MaxConns    = 1
    MaxSays     = 0
    MaxAsks     = 0
    MaxCancels  = 1
    MaxRetries  = 0
    MaxDrops    = 0
    MaxRestarts = 0
    MaxDeletes  = 0
    Agent       = "codex"
    Outcomes    = {"none", "fail"}
SPECIFICATION Spec
PROPERTY FailureIsShown
CHECK_DEADLOCK FALSE
