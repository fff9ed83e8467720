SPECIFICATION FairSpec
CONSTANTS
    echo = echo
    getchar = getchar
    Callers <- MCCallers
    Sizes = {1, 2}
    MsgIds = 3
    CallLimit = 6
INVARIANT RepliesFindCalls
PROPERTY AnsweredReturnsUnlessHung
CHECK_DEADLOCK FALSE
