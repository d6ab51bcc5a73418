SPECIFICATION FairSpec
CONSTANTS
    Partition <- MCPartition
    Scenarios <- MCScenarios
    PollSize = 2
    Limits = {0, 2}
    PageSize = 1
    TrailSize = 1
    ViewSize = 1
    Attempts = 2
    MaxCrashes = 1
    MaxErrors = 2
\* The services publish no more than the script.
CHECK_DEADLOCK FALSE
INVARIANTS
    TypeOK
    CommittedOnSnapshot
    CommittedIsIndexed
    SettledRowsDisjoint
    EveryCaptureShown
    RepeatsAreInvisible
PROPERTIES
    OutcomeShownIsFinal
    EveryRecordIsShown
