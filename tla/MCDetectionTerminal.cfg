SPECIFICATION Spec
CONSTANTS
    t1 = t1
    t2 = t2
    Tx = {t1, t2}
    Provider <- MCProvider
    Drafts <- MCDrafts
    Followups <- MCFollowups
    MaxEvents = 10
    MaxTotal = 5
    MaxRepeats = 1
    MaxCopies = 1
    MaxCrashes = 1
    MaxErrors = 1
    MaxSendFaults = 1
    MaxFaults = 1
\* The bounds let the feeds stop offering events.
CHECK_DEADLOCK FALSE
INVARIANTS
    FailureEndsLifecycle
