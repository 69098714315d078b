\* Two attempts to sign in under two accounts, one tab, one session: a state
\* that outlives its time, one that comes back twice, and a restart.
CONSTANTS
    Account     = {a1, a2}
    Login       = {l1, l2}
    Tab         = {t1}
    Sess        = {s1}
    Lifetime    = 1
    MaxAgain    = 1
    MaxRestarts = 1
    MaxTime     = 5
    Capacity    = 2
    Interval    = 2
    MaxPrompts  = 4
SPECIFICATION Spec
INVARIANTS
    TypeOK
    OneSessionPerLogin
    SessionsStayReachable
    WithinRate
    PatienceHelps
    BucketsOfSessions
PROPERTIES
    RefusedForCause
CHECK_DEADLOCK FALSE
