CONSTANTS
    Msgs = {m1, m2}
    Timeouts = {0}
    Default = 2
    MaxTime = 1
    MaxHandlers = 1
    MaxPackets = 2
    Anchor = Anchor
    Calls <- MCCallbacks
SPECIFICATION FairSpec
INVARIANTS
    NoFreedEntryReached
    NoStaleWaiter
PROPERTIES
    ExpiredIsReported
    Reconnects
CHECK_DEADLOCK FALSE
