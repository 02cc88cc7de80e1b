SPECIFICATION Spec
CONSTANTS
    Main = main
    Nil = nil
    Workers = {w1, w2, w3}
    InitialWorkers = {w1}
    Procs = {p1, p2}
    MainCalls = {"newproc", "setnumworkers", "wait", "exit"}
    ProcCalls = {"newproc"}
    Targets = {1, 3}
    RecycleLimits = {}
    MaxDestroy = 2
SYMMETRY Symmetry
INVARIANTS
    TypeOK
    OnePlace
    LpcountExact
    WorkersExact
    NoLostWakeup
    JoinSafe
PROPERTIES
    ImplementsPool
CHECK_DEADLOCK FALSE
