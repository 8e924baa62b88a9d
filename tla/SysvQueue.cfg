CONSTANTS
    Plain = {p1, p2}
    Typed = {t1, t2}
    Sender = {s1}
    Receiver = {r1}
    Casts = {{t1, t2}, {p1, p2}, {t1, p1}, {t1, s1, r1}, {p1, p2, r1}}
    Old = Old
    Count = 2
    Capacity = 6
SPECIFICATION Spec
INVARIANTS TypeOK StarvedForCause
PROPERTIES UnmixedEnd
\* Programs end, or wait for a message that somebody else has taken, or for room.
CHECK_DEADLOCK FALSE
