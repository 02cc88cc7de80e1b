SPECIFICATION MSpec
CONSTANTS
    Main = main
    Nil = nil
    MainLp = mainlp
    NoChan = nochan
    Workers = {w1}
    InitialWorkers = {w1}
    Procs = {p1, mainlp}
    Names = {a}
    Chans = {c1}
    MainCalls = {"newproc", "newchannel", "send"}
    ProcCalls = {"receive"}
    Targets = {}
    RecycleLimits = {}
    MaxDestroy = 0
PROPERTIES
    MainIsUnblocked
CHECK_DEADLOCK FALSE
