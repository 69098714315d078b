\* One device, revoked while its daemon reconnects.
CONSTANTS
    Machine   = {m1}
    Code      = {k1}
    MaxTokens = 1
    MaxBlips  = 0
    MaxConns  = 2
    MaxFaults = 1
SPECIFICATION Spec
INVARIANT RevokedIsGone
CHECK_DEADLOCK FALSE
