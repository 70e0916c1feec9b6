SPECIFICATION FairSpec
CONSTANTS
    Apps = {"main_app", "app2"}
    Files = {"fd", "fd2"}
    Shows = {"cat"}
    NoTask <- MCNoTask
    MaxIrqs = 2
INVARIANTS
    QuietAfterExit
    StaysDown
    SignalsOpenFile
CHECK_DEADLOCK FALSE

    
