SPECIFICATION FairSpec
CONSTANTS
    Apps = {"cat", "main_app"}
    MaxReads = 3
INVARIANTS
    WaitThreadNotStuck
    ReportsAreReads
PROPERTY
    ReadsAreReported
CHECK_DEADLOCK FALSE
