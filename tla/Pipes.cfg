CONSTANTS
    PipeRun = {p1}
    FifoRun = {f1, f2, f3}
    Casts = {{p1}, {f1, f2, f3}}
    Capacity = 2
SPECIFICATION Spec
INVARIANTS TypeOK
PROPERTIES StrandedForGood PartnersMeet
\* A process may wait for a partner that has gone.
CHECK_DEADLOCK FALSE
