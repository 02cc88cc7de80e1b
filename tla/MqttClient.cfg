CONSTANTS
    Msgs = {m1, m2}
    Timeouts = {0}
    Default = 1
    MaxTime = 1
    MaxHandlers = 2
    MaxPackets = 2
    Anchor = Anchor
    Calls <- MCCalls
SPECIFICATION Spec
SYMMETRY MCSymmetry
INVARIANTS
    MTypeOK
    NoFreedEntryReached
    NoStaleWaiter
    OkMeansAcked
CHECK_DEADLOCK FALSE
PROPERTIES
    ImplementsDelivery
