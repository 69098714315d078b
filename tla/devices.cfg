\* A machine paired twice and connected: codes that expire, answers that are lost,
\* link failures and revocation.
CONSTANTS
    Machine   = {m1}
    Code      = {k1, k2}
    MaxTokens = 2
    MaxBlips  = 1
    MaxConns  = 3
    MaxFaults = 1
SPECIFICATION FairSpec
INVARIANTS
    TypeOK
    TokenInOnePlace
    StashOnlyWhileApproved
    OneSocketPerDevice
    ShownIsRegistered
PROPERTIES
    ComesOnline
    LoginEnds
    Promise
CHECK_DEADLOCK FALSE
