SPECIFICATION FairSpec
CONSTANTS
    Thread = {t1, t2, t3, t4}
    NoThread = NoThread
    MaxDepth = 2
INVARIANTS
    IInv
PROPERTIES
    ImplementsRWLock
    WriterServed
    ReaderServed
