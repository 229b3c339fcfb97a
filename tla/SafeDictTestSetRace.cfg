SPECIFICATION Spec
CONSTANTS
    Thread = {t1, t2}
    Key = {k1}
    Value = {v1}
    Nil = Nil
    Op <- AllMethods
    MaxCalls = 1
INVARIANTS
    ThreadSafe
