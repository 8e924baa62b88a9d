\* Sleeps of exact and of arbitrary length.
CONSTANT MaxKill = 3
SPECIFICATION Spec
INVARIANTS TypeOK EndsAsMeant SignalsOwnChild HandlersInTurn WakeupToCome
PROPERTIES RealTimeHang ChildEnds
\* A program ends when both of its processes have, or waits for a signal.
CHECK_DEADLOCK FALSE
