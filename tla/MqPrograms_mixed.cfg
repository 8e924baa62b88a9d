CONSTANTS
    send = send
    receive = receive
    open = open
    pattern1 = pattern1
    pattern2 = pattern2
    unlink = unlink
    Old = Old
    None = None
    Proc <- AllProc
    Kind <- AllKind
    Casts <- MixedCasts
    Count = 2
    Capacity = 2
SPECIFICATION Spec
INVARIANTS TypeOK OpenFailsOnlyInRace PatternReceivesJoiners WaitersAreOwed
\* Programs end, crash, or wait for a message that will not come.
CHECK_DEADLOCK FALSE
