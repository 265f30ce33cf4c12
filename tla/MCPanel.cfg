SPECIFICATION Spec
CONSTANTS
  MaxAddress = 2
  MaxInputs = 2
PROPERTIES ListIsCurrent ListConverges TunnelFollowed
CHECK_DEADLOCK FALSE
