SPECIFICATION FairSpec
CONSTANTS
    f1 = f1
    f2 = f2
    s1 = s1
    Flags = {f1, f2}
    Segments = {s1}
    Refs <- CycleRefs
    MaxVersion = 2
    InOrder = TRUE
    ReadFails = TRUE
    KeepsRefused = TRUE
INVARIANTS GraphMatchesStore EventsAreExact
PROPERTIES OperationEnds
