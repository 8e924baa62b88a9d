SPECIFICATION Spec
INVARIANTS TypeOK
PROPERTIES MissedForGood Joins
\* Both threads return, or the wait lasts for ever.
CHECK_DEADLOCK FALSE
