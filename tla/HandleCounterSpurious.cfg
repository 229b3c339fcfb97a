SPECIFICATION CounterSpec
CONSTANTS
    Thread = {t1, t2, t3, t4}
    MaxHandles = 2
    MaxWriters = 1
    MaxSpurious = 1
INVARIANTS
    NobodyStuck
