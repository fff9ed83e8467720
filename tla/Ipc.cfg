SPECIFICATION IpcSpec
CONSTANTS
    i = i
    d1 = d1
    a1 = a1
    empty = empty
    TInit = TInit
    TDriver = TDriver
    TApp = TApp
    Tasks = {TInit, TDriver, TApp}
    Threads <- MCThreads
    EmptyThread = empty
    InitThread = i
    TaskOf <- MCTaskOf
    Level <- MCLevel
    Priority <- MCPriority
    MailOwner <- MCMailOwner
    AllowPids <- MCAllowPids
    IrqUsers = {TDriver}
    Lengths = {1}
    MailSize = 5
    HeaderSize = 1
    IrqLength = 1
    NULL_TASK = NULL_TASK
    ANY_TASK = ANY_TASK
    DUMMY_TASK = DUMMY_TASK
    NoThread = NoThread
INVARIANTS MailAccounting NoLostWakeup WaiterIsHandler
PROPERTIES IpcImplementsSched
