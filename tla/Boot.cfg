SPECIFICATION FairBootSpec
CONSTANTS
    i = i  s = s  u = u  v1 = v1  v2 = v2  v3 = v3  v4 = v4  m1 = m1  m2 = m2  m3 = m3  k1 = k1  k2 = k2
    t1 = t1  t2 = t2  t3 = t3  e = e  b1 = b1  b2 = b2  empty = empty
    TInit = TInit  TSys = TSys  TSetup = TSetup  TVideo = TVideo  TIoman = TIoman
    TKeyboard = TKeyboard  TTty = TTty  TTb2 = TTb2
    Tasks = {TInit, TSys, TSetup, TVideo, TIoman, TKeyboard, TTty, TTb2}
    Threads <- MCThreads  EmptyThread = empty  InitThread = i
    TaskOf <- MCTaskOf  Level <- MCLevel  Priority <- MCPriority
    SignalParams <- MCParams  SignalLimit = 30  SoftFloor = 0
    MailOwner <- MCMailOwner  AllowPids <- MCAllowPids  IrqUsers = {TIoman, TSetup}
    Lengths <- MCLengths  IrqLength = 4  MailSize = 60  HeaderSize = 1
    NULL_TASK = NULL_TASK  ANY_TASK = ANY_TASK  DUMMY_TASK = DUMMY_TASK  NoThread = NoThread
    Systems <- MCSystems  Main <- MCMain  Workers <- MCWorkers  Helpers <- MCHelpers
    Open = {TVideo, TTb2}  Functions <- MCFunctions
    BodyCalls <- MCBodyCalls  ResultOf <- MCResultOf  Informed = TVideo
    Setup = TSetup  Loaded = {TVideo, TIoman, TKeyboard, TTty, TTb2}  Sectors = 2
    StatusLength = 1  NameLength = 5  AddressLength = 6  InfoLength = 7  IrqLimit = 1
INVARIANT ReportsArrive
INVARIANT FileIsInBuffer
INVARIANT DriversServe
 
