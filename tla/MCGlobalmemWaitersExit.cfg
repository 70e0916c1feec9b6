SPECIFICATION Spec
CONSTANTS
    Apps = {"cat", "main_app"}
    MaxReads = 1
INVARIANT
    CompletionThreadNotStuck
CHECK_DEADLOCK FALSE
