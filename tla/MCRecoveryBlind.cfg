SPECIFICATION Spec
CONSTANTS
    t1 = t1
    t2 = t2
    Tx = {t1}
    Action <- MCAction
    Converts <- MCConverts
    Opens <- MCOpens
    MaxAttempts = 2
    MaxFailures = 2
    MaxRepeats = 0
    MaxCrashes = 0
    MaxErrors = 0
    MaxStops = 0
    MaxSendFaults = 0
\* The bounds let the environment stop offering failures.
CHECK_DEADLOCK FALSE
PROPERTIES
    RecoveredLeftAlone
