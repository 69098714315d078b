\* A resume token the agent no longer knows.
CONSTANTS
    MaxPrompts  = 2
    MaxRuns     = 6
    MaxConns    = 1
    MaxSays     = 0
    MaxAsks     = 0
    MaxCancels  = 0
    MaxRetries  = 0
    MaxDrops    = 0
    MaxRestarts = 0
    MaxDeletes  = 0
    Agent       = "claude"
    Outcomes    = {"none", "fail", "stale"}
SPECIFICATION Spec
INVARIANT LiveRunIsActive
CHECK_DEADLOCK FALSE
