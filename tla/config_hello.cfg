\* A login, a command and a codex run are three processes, one directory is enough.
CONSTANTS
    Proc = {p1, p2, p3}
    Root = {r1}
SPECIFICATION Spec
PROPERTY ReportedIsHonoured
CHECK_DEADLOCK FALSE
