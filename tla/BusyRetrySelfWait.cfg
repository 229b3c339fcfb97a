CONSTANTS
    main = main
    writer = writer
    reader = reader
    Thread = {main, writer, reader}
    Main = main
    Programs <- Work
    MaxPrograms <- Times
    Rounds = 1
    MaxSpurious = 1
SPECIFICATION Spec
INVARIANT
    AnotherChangedPagerLock
