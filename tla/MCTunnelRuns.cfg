\* Five calls: a start, its stop, a second start, its stop and a third start.
SPECIFICATION Spec
CONSTANT MaxGen = 5
INVARIANTS
  OneTunnel
  OnlineIsReal
PROPERTIES
  OnlyCurrentMoves
  ImplementsService
CHECK_DEADLOCK FALSE
