CONSTANTS
    Client = {c1, c2, c3}
    Server = {s1, s2}
    None = None
    Family = "unix"
    Backlog = 0
    MaxFd = 3
SPECIFICATION Spec
INVARIANTS TypeOK AckAfterRead ServersLast
PROPERTIES EveryClientEnds AnsweredInOrder
\* Clients end; servers then wait for more.
CHECK_DEADLOCK FALSE
