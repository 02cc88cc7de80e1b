SPECIFICATION Spec
CONSTANTS
    Ports = {1}
    Pins = {0, 1}
    Timers = {t1}
    MaxRef = 3
    QueueLen = 2
INVARIANTS
    CTypeOK
    RegisteredHeld
    NoReferenceTwice
    RunsOwn
    NoneAfterClose
