CONSTANTS
    send = send
    receive = receive
    open = open
    pattern1 = pattern1
    pattern2 = pattern2
    unlink = unlink
    Old = Old
    None = None
    Proc <- AllProc
    Kind <- AllKind
    Casts <- FairCasts
    Count = 2
    Capacity = 2
SPECIFICATION FairSpec
PROPERTIES BalancedEnds SimplePairDelivers
\* Programs end, but a receiver that comes too late waits for ever.
CHECK_DEADLOCK FALSE
