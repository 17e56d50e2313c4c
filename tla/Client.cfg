SPECIFICATION FairSpec
CONSTANTS
    Contents = {"absent", "true", "shadow"}
    FirstContents = {"word"}
    WithPrerequisite = {"true"}
    Types = {"bool", "json", "migration", "all", "custom"}
    Defaults = {"dualwrite"}
    Hooks = 2
    Orders = {"Serial", "Concurrent"}
    Measures = {"latency", "errors"}
    MaxVersions = 2
    MaxFaults = 1
INVARIANTS HooksNest EventsTellResults AnswersFromData StartResultIsRight ClosedPartsAreReleased OperationsAreTracked
PROPERTIES Converges CloseStopsAll
CHECK_DEADLOCK FALSE
