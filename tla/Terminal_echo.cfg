SPECIFICATION TerminalSpec
CONSTANTS
    Characters = {a, b}  ENTER = ENTER  Readers = {r1}  driver = driver  echo = echo
    Reply = Reply  full = full  local_full = local_full  signal = signal
    wait_enter = wait_enter
    Ids = {full, local_full, signal, wait_enter}  Users = {r1, driver, echo}
    CONSOLE_LINES = 2  TypeLimit = 3
INVARIANT EveryKeyShown
CHECK_DEADLOCK FALSE
