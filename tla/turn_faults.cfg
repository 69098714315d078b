\* Every way a run may end, a retry, a cancel and a server restart; every turn
\* comes to an end.
CONSTANTS
    MaxPrompts  = 3
    MaxRuns     = 8
    MaxConns    = 2
    MaxSays     = 0
    MaxAsks     = 1
    MaxCancels  = 1
    MaxRetries  = 1
    MaxDrops    = 0
    MaxRestarts = 1
    MaxDeletes  = 0
    Agent       = "claude"
    Outcomes    = {"none", "fail", "auth", "stale"}
SPECIFICATION FairSpec
INVARIANTS
    TypeOK
    BusyMeansListening
    NoStrandedPrompt
    StatusTracksTurn
    NoToolWithoutConsent
    PromptsRunInOrder
PROPERTY TurnEnds
CHECK_DEADLOCK FALSE
