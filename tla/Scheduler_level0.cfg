SPECIFICATION SchedSpec
CONSTANTS
    i = i
    d1 = d1
    a1 = a1
    a2 = a2
    empty = empty
    TInit = TInit
    TDriver = TDriver
    TApp = TApp
    Tasks = {TInit, TDriver, TApp}
    Threads <- MCThreads
    EmptyThread = empty
    InitThread = i
    TaskOf <- MCTaskOf
    Level <- MCLevel
    Priority <- MCPriority
PROPERTY Level0First
