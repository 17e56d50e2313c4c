SPECIFICATION FairSpec
CONSTANTS
    Keys = {k1}
    Stores = {"unmonitored", "finite", "infinite"}
    MaxVersion = 2
    MaxFaults = 2
INVARIANTS LostUpdatesAreRefetched
PROPERTIES StoreNeverGoesBack Converges CloseEndsStream
CHECK_DEADLOCK FALSE
