SPECIFICATION Spec
CONSTANTS
    Kinds = {flags, segments}
    Keys = {k1}
    MaxVersion = 2
    Readers = {}
    Writer = writer
    CacheMode = "infinite"
    External = FALSE
    InOrder = TRUE
INVARIANTS CacheMirrorsFeed
