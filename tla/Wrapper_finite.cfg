SPECIFICATION FairSpec
CONSTANTS
    Kinds = {flags}
    Keys = {k1}
    MaxVersion = 1
    Readers = {r1}
    Writer = writer
    CacheMode = "finite"
    External = TRUE
    InOrder = FALSE
INVARIANTS CacheHoldsOnlyStoredData InitedOnlyAfterStored OutageIsPolled
PROPERTIES RecoveryIsReported FiniteCacheConverges
