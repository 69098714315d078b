\* Three commands, in any overlap, two directories.
CONSTANTS
    Proc = {p1, p2, p3}
    Root = {r1, r2}
SPECIFICATION Spec
INVARIANTS
    TypeOK
    SettledFileIsIntended
PROPERTY PromptsFollowCommands
CHECK_DEADLOCK FALSE
