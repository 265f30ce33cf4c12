\* A start, its stop and a second start.
SPECIFICATION Spec
CONSTANT MaxGen = 3
PROPERTY StaleWorkBowsOut
CHECK_DEADLOCK FALSE
