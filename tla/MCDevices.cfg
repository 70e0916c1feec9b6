SPECIFICATION MCSpec
CONSTANTS
    MAX_SEG = 4
    MAX_LINE = 1
    Chars = {"a", "b"}
    FontSize = 1
    Texts <- MCTexts
    Welcome <- MCWelcome
    Bye <- MCBye
    ScrollLines = 0
    MaxRestarts = 1
    ULongSize = 8
    Debounce = 3
    SecondTasks = {t1, t2}
    ProcReaders = {r1, r2}
    MaxGot = 2
INVARIANTS
    PanelFollows
    PictureShown
    InStep
    BlankBehindInit
    ArmedWhileOpen
    ReadOnce
PROPERTIES
    IsTextScreen
    Debounced
CHECK_DEADLOCK FALSE
