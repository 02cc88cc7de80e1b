SPECIFICATION FairSpec
CONSTANTS
    Main = main
    Nil = nil
    Workers = {w1, w2}
    InitialWorkers = {w1}
    Procs = {p1, p2}
    MainCalls = {"newproc", "setnumworkers", "recycle", "exit"}
    ProcCalls = {}
    Targets = {1, 2}
    RecycleLimits = {0, 1}
    MaxDestroy = 1
INVARIANTS
    OnePlace
PROPERTIES
    ReadyIsServed
    JoinReturns
CHECK_DEADLOCK FALSE
