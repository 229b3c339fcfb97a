SPECIFICATION FairSpec
CONSTANTS
    Cell = {c1, c2}
    Variants = {"VC1", "VC2", "VC22", "VC3", "VC4", "VC5"}
    Rows = 2
    MaxRows = 3
    Tall = 2
    Short = 1
    MaxTouches = 2
INVARIANTS
    PromptTapIsRight
    WrongOnlyIfMoved
    OneGesturePerTouch
    TouchDataSurvivesReload
PROPERTIES
    EveryTapReported
