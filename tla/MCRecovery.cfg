SPECIFICATION Spec
CONSTANTS
    t1 = t1
    t2 = t2
    Tx = {t1}
    Action <- MCAction
    Converts <- MCConverts
    Opens <- MCOpens
    MaxAttempts = 2
    MaxFailures = 2
    MaxRepeats = 1
    MaxCrashes = 1
    MaxErrors = 1
    MaxStops = 0
    MaxSendFaults = 0
\* The bounds let the environment stop offering failures.
CHECK_DEADLOCK FALSE
INVARIANTS
    TypeOK
    ExecutedOnce
    AttemptsCounted
    AckTellsCaptures
PROPERTIES
    ImplementsCaseBook
