SPECIFICATION SeedSpec
CONSTANTS
    Nil = Nil
    Initial = Initial
    Other = Other
    Value = {Initial, Other}
    Batches <- RandomMessages
    MaxBatches = 3
    MaxRuns = 2
CHECK_DEADLOCK FALSE
PROPERTIES
    AddsOnlyWhenEmpty
