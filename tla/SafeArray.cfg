SPECIFICATION FairSpec
CONSTANTS
    Thread = {t1, t2}
    Item = {a, b}
    Nil = Nil
    Trap = Trap
    Index <- Positions
    Op <- AllMethods
    MaxItems = 2
    Reenters = TRUE
    MaxCalls = 1
INVARIANTS
    NoTrapButForReentry
PROPERTIES
    AtomicButForReentry
    EveryCallReturns
\* A closure of filter that calls back may wait for ever for the lock its thread holds.
CHECK_DEADLOCK FALSE
