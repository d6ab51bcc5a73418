SPECIFICATION FairSpec
CONSTANTS
    t1 = t1
    t2 = t2
    Tx = {t1, t2}
    Action <- MCLink
    Converts <- MCOnePays
    Opens = {t1, t2}
    MaxAttempts = 1
    MaxFailures = 1
    MaxRepeats = 0
    MaxCrashes = 1
    MaxErrors = 1
    MaxStops = 1
    MaxSendFaults = 1
\* The bounds let the environment stop offering failures.
CHECK_DEADLOCK FALSE
INVARIANTS
    SkippedBound
    UnansweredBound
PROPERTIES
    CandidatesRegistered
    CandidatesAnswered
