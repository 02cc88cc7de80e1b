SPECIFICATION LSpec
CONSTANTS
    Main = main
    Nil = nil
    NoChan = nochan
    Workers = {w1}
    InitialWorkers = {w1}
    Procs = {p1, p2, p3}
    Names = {a}
    Chans = {c1, c2}
    MainCalls = {"newproc"}
    ProcCalls = {"newchannel", "delchannel", "send", "receive", "areceive"}
    Targets = {}
    RecycleLimits = {}
    MaxDestroy = 0
SYMMETRY Symmetry
INVARIANTS
    LTypeOK
    NoMissedRendezvous
    NoneStranded
PROPERTIES
    ImplementsRendezvous
    ImplementsSched
CHECK_DEADLOCK FALSE
