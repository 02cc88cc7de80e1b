CONSTANTS
    Msgs = {m1, m2}
    Timeouts = {0}
    Default = 1
    MaxTime = 1
    MaxHandlers = 1
    MaxPackets = 1
    Anchor = Anchor
    Calls <- MCCalls
SPECIFICATION Spec
INVARIANTS
    WaiterIsListed
CHECK_DEADLOCK FALSE
