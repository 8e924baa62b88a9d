\* Parent and child freely interleaved or ordered by the sleeps, all builds.
CONSTANT Messages = 5
SPECIFICATION Spec
INVARIANTS TypeOK SignalledForMessage
PROPERTIES LostForGood LeavesNothing
\* The program may end, or hang with a message queued.
CHECK_DEADLOCK FALSE
