SPECIFICATION SemSpec
CONSTANTS
    i = i
    a1 = a1
    a2 = a2
    a3 = a3
    empty = empty
    TInit = TInit
    TApp = TApp
    Tasks = {TInit, TApp}
    Threads <- MCThreads
    EmptyThread = empty
    InitThread = i
    TaskOf <- MCTaskOf
    Level <- MCLevel
    Priority <- MCPriority
    SignalParams <- MCParams
    SignalLimit = 2
    SoftFloor = 1
INVARIANTS CountIsQueue WaitsOnce
PROPERTIES ImplementsCountingSemaphore SemImplementsSched
