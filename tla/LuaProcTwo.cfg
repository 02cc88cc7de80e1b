SPECIFICATION LSpec
CONSTANTS
    Main = main
    Nil = nil
    NoChan = nochan
    Workers = {w1, w2}
    InitialWorkers = {w1, w2}
    Procs = {p1, p2}
    Names = {a}
    Chans = {c1}
    MainCalls = {"newproc"}
    ProcCalls = {"newchannel", "delchannel", "send", "receive", "areceive"}
    Targets = {}
    RecycleLimits = {}
    MaxDestroy = 0
INVARIANTS
    NoMissedRendezvous
CHECK_DEADLOCK FALSE
