SPECIFICATION StoresSpec
CONSTANTS
    Components = {"members"}
    Nil = Nil
    Initial = Initial
    Other = Other
    Value = {Initial, Other}
    Batches <- Lists
    MaxBatches = 2
    MemberLists <- ListsOfMembers
    Words = {A, B}
    NewInfo <- NewMember
    Array = Array
    A = A
    B = B
    MaxMembers = 4
    SiteBatches <- ListsOfSites
    WordsIn <- WordsOfNames
    Requests <- Searches
    PlainRequests <- PlainSearches
    Word = Word
    MaxSites = 3
    Seeds <- TwoStudents
    s21434 = s21434
    s345 = s345
    Chosen = s345
    NoCount = NoCount
    MaxLaunches = 3
    MaxFaults = 2
    Thread = {t1, t2}
    Tag = {g1, g2}
    NoTag = NoTag
    MaxTime = 2
    MaxLogs = 3
INVARIANTS
    UpdateKeepsMembers
