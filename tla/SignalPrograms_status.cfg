CONSTANT MaxKill = 1
SPECIFICATION Spec
INVARIANTS StatusTruthful
CHECK_DEADLOCK FALSE
