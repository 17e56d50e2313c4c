SPECIFICATION FairSpec
CONSTANTS
    a = a
    b = b
    Callers = {a, b}
    MaxPollers = 1
    MaxVersions = 1
    MaxChanges = 1
    None = None
    Asked = Asked
    Failed = Failed
INVARIANTS ClearedCacheStaysCleared
PROPERTIES StatusConverges CloseEndsPolling
CHECK_DEADLOCK FALSE
