SPECIFICATION FairSpec
CONSTANTS
    Keys = {"flag", "segment"}
    Flag = "flag"
    Writers = {"main", "u1", "u2"}
    Loader = "main"
    Starter = "main"
    Updaters = {"u1", "u2"}
    Builders = {"u1"}
    Cap = 1
    Default = "default"
    ErrorValue = "default"
    MaxListeners = 1
    MaxRefusals = 1
    Files = 2
    Contents <- MCContents
    Missing = Missing
    Bad = Bad
    DuplicateKeysHandling = "fail"
    MaxFileChanges = 2
    Contexts = {"alice"}
    Context = "alice"
    Preconfigured = {"red"}
    Variation3 <- MCVariation3
    Undefined = Undefined
    MaxUpdates = 2
    MaxEdits = 3
    Nil = Nil
INVARIANT TargetsAreServed
PROPERTIES LocalDataConverges ValueChangesAreReported
CHECK_DEADLOCK FALSE
