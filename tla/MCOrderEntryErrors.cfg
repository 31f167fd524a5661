SPECIFICATION Spec
CONSTANT MaxSequence = 6
INVARIANT AcksCarryNoError
CHECK_DEADLOCK FALSE
