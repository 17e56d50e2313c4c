SPECIFICATION FairSpec
CONSTANTS
    f1 = f1
    f2 = f2
    s1 = s1
    Features = {f1, f2}
    Segments = {s1}
    Refs <- MCRefs
    Modes = {"read", "readwrite"}
    Sources = {"stream", "poll"}
    MaxPayloads = 2
    MaxChanges = 2
    MaxFaults = 1
    Garbled = {"object"}
INVARIANTS SelectorIdentifiesData PersistentStoreIsCurrent
PROPERTIES SeesWholePayloads HoldsWholePayloads ReferencesAreStoredFirst Converges
CHECK_DEADLOCK FALSE
