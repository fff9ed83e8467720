SPECIFICATION FairSpec
CONSTANTS
    echo = echo
    getchar = getchar
    Callers <- MCCallers
    Sizes = {1}
    MsgIds = 6
    CallLimit = 3
PROPERTIES AnsweredReturns
CHECK_DEADLOCK FALSE
