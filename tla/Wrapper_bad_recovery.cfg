SPECIFICATION Spec
CONSTANTS
    Kinds = {flags}
    Keys = {k1}
    MaxVersion = 1
    Readers = {}
    Writer = writer
    CacheMode = "infinite"
    External = FALSE
    InOrder = TRUE
PROPERTIES FailedRecoveryStaysFailed
