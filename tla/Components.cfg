SPECIFICATION MCSpec
CONSTANTS
    part_pages = part_pages  part_kheap = part_kheap  part_heap = part_heap
    part_ring = part_ring  part_threads = part_threads  part_fat = part_fat
    part_keys = part_keys  part_tree = part_tree  part_shm = part_shm
    part_int = part_int  part_kmod = part_kmod  part_lheap = part_lheap
    part_long = part_long  part_serve = part_serve  part_load = part_load
    part_full = part_full
    part_term = part_term  part_cons = part_cons  part_log = part_log  part_icon = part_icon
    Parts = {part_pages, part_kheap, part_heap, part_ring, part_threads, part_fat, part_keys,
             part_tree, part_shm, part_int, part_kmod, part_lheap, part_long, part_serve,
             part_load, part_full, part_term, part_cons, part_log, part_icon}
    MaxOrder = 3  HeapOrder = 1  Reserved = 4  PageCounts = {26, 27, 28, 34}  AllocOrders = {0, 1, 2, 3}
    Header = 24  Unit = 64  Base = 8  BaseSize = 2  Areas = {2, 10}  AreaSize = 6
    NodeBytes = 16  Requests = {41, 105}
    HeapSize = 17  DivMin = 3  MallocSizes = {1, 6}  Null = Null
    m0 = m0  m1 = m1  m2 = m2  Nothing = Nothing
    Messages = {m0, m1, m2}  LengthOf <- MCLengthOf  HeaderSize = 2  MailSize = 6
    A = A  B = B  i1 = i1  i2 = i2  i3 = i3  i4 = i4  i5 = i5  NULL = NULL
    Tasks = {A, B}  Infos = {i1, i2, i3, i4, i5}  FirstThread <- MCFirst
    Room = 4  MaxStacks = 4  FirstDies = FALSE
    Files = {f1, f2}  Root = Root  Nobody = Nobody  LastCluster = 7
    EntriesPerSector = 1  BufferSectors = 2  InOrder = TRUE
    Letters = {a}  Pads = {pad7}  Others = {one}  E0Keys = {}
    LSHIFT = LSHIFT  RSHIFT = RSHIFT  CAPSLOCK = CAPSLOCK  NUMLOCK = NUMLOCK
    LCTRL = LCTRL  Pause = Pause
    SignalLimit = 20  Levels = 3  Fanout = 2  ShmStart = 5  ShmSizes = {1, 2}
    Threads = {init, thread}  InitThread = init  EmptyThread = empty  Kernel = kernel
    Lines = {0, 14}  Faulting = {init, thread}  MaxSteps = 1
    Registered <- MCRegistered  Clients = {c1, c2}  Funcs = {0, 2, 3, 4}
    ArgsSizes = {5}  ReturnSizes = {1}  SentLimit = 3
    Bottom = 1  Top = 60  Slots = 9  Sizes = {2, 4, 6, 8}  Partitions = 3
    Contents <- MCContents  KernelRoom = 2  SetupRoom = 3  RootRoom = 2  FatRoom = 1
    Segments <- MCSegments  LastAddress = 200
    Characters = {a}  ENTER = ENTER  Readers = {r1, r2}  driver = driver  echo = echo
    Reply = Reply  full = full  local_full = local_full  signal = signal
    wait_enter = wait_enter  CONSOLE_LINES = 2  TypeLimit = 3
    Ids = {full, local_full, signal, wait_enter}  Users = {r1, r2, driver, echo}
    Columns = 3  ScreenLines = 2  ConsoleNum = 2  TabWidth = 1  Printables = {a}
    Blank = Blank  Strings <- MCStrings  Writers = {w1, w2}  NoCall = NoCall
    StackBytes = {0, 256}  OutputLimit = 4
    Complete = 3  CntLimit = 2  Rows = 2
INVARIANTS TypeOK PagesOnce SegmentsDescribeHeap LiveDisjoint ThreadsKeptApart LoadsFile
INVARIANTS ParsesAsTyped SignalsAreFound PagesAreMapped
INVARIANTS EntriesLeaveNoTrace ImageIsComplete BlocksKeptApart AnswersItsCaller
INVARIANTS BootsFirstMountable TypedIsReadAndShown PrintedIsSeen LoggedIsSent IconIsShown
PROPERTY ImplementsMailQueue
CHECK_DEADLOCK FALSE
