SPECIFICATION FairSpec
CONSTANTS
    Main = main
    Nil = nil
    Workers = {w1}
    InitialWorkers = {w1}
    Procs = {p1, p2}
    MainCalls = {"newproc"}
    ProcCalls = {}
    Targets = {1}
    RecycleLimits = {0}
    MaxDestroy = 1
PROPERTIES
    FinishedIsRetired
CHECK_DEADLOCK FALSE
