SPECIFICATION Spec
CONSTANTS
    Contents = {"true"}
    FirstContents = {"true"}
    WithPrerequisite = {"true"}
    Types = {"bool"}
    Defaults = {}
    Hooks = 0
    Orders = {}
    Measures = {}
    MaxVersions = 1
    MaxFaults = 0
INVARIANTS AvailableDataIsUsed
CHECK_DEADLOCK FALSE
