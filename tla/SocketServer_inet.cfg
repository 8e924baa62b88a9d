CONSTANTS
    Client = {c1, c2, c3}
    Server = {s1, s2}
    None = None
    Family = "inet"
    Backlog = 0
    MaxFd = 2
SPECIFICATION Spec
PROPERTIES ConnectedAnswered
\* Clients end, or wait for a server that can accept no more of them.
CHECK_DEADLOCK FALSE
