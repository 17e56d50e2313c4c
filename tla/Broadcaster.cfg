SPECIFICATION FairSpec
CONSTANTS
    Owner = owner
    Publishers = {p1, p2}
    Listeners = {l1, l2}
    Capacity = 1
    MaxBroadcasts = 2
    Attentive = {l1, l2}
INVARIANTS SendsGoToOpenChannels DeliveredExactlyOnce
PROPERTIES CallsReturn
CHECK_DEADLOCK FALSE
