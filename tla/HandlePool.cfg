SPECIFICATION FairSpec
CONSTANTS
    Thread = {c1, c2, t1}
    Task = {t1}
    Closer = {c1}
    Handle = {h1, h2, h3}
    NoHandle = NoHandle
    MaxHandles = 2
    MaxWriters = 1
    MaxSpurious = 0
    Nesting = {c2}
    MaxReferences <- References
INVARIANTS
    UsedAlone
    NoneLost
    AliveBounded
    NeverUpgrades
    ClosedIsEmpty
    NobodyStuck
PROPERTIES
    CloseReturns
    TaskReturns
