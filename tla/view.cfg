\* One tab, one session: two texts, one permission request, one click of the
\* user (here or elsewhere) and one fault.
CONSTANTS
    Tab = {t1}
    MaxSessions = 1
    MaxTexts    = 2
    MaxAsks     = 1
    MaxClicks   = 1
    MaxFaults   = 1
SPECIFICATION Spec
INVARIANTS
    TypeOK
    ShownIsTrue
    ModalsArePending
    PromptsArriveOnce
PROPERTIES
    HistoryIsKept
    QueueIsSent
CHECK_DEADLOCK FALSE
