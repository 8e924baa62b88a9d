CONSTANTS
    Client = {c1, c2}
    Plain = {p1}
    Server = {s1, s2}
    Casts = {{s1, c1, c2, p1}, {s1, s2, c1, p1}, {s1, s2, c1, c2}}
    None = None
    Fresh = Fresh
    MaxFd = 3
SPECIFICATION Spec
INVARIANTS TypeOK AnsweredOnce PassedOverAtLimit
PROPERTIES RetryAnswered
\* Clients end or wait for ever; servers then wait for more.
CHECK_DEADLOCK FALSE
