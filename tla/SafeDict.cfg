SPECIFICATION FairSpec
CONSTANTS
    Thread = {t1, t2}
    Key = {k1, k2}
    Value = {v1}
    Nil = Nil
    Op <- AllMethods
    MaxCalls = 2
INVARIANTS
    IInv
    RacesNeedTestSet
PROPERTIES
    AtomicButForTestSet
    EveryCallReturns
