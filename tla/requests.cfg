\* A picker and a dialog, three requests, one failure.
CONSTANTS
    MaxRequests = 3
    MaxFaults   = 1
SPECIFICATION Spec
INVARIANTS
    TypeOK
    AnsweredOnce
    PickerShowsLatest
    EnabledIsWritten
    SpinnersHaveCause
PROPERTY AllAnswered
CHECK_DEADLOCK FALSE
