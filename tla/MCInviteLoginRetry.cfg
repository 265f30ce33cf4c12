\* Approval mode with room for one device: two clients, overlapping and lost answers.
SPECIFICATION InviteSpec
CONSTANTS
  Ids = {d1, d2}
  MaxSessions = 1
  MaxAge = 9
  Idle = 0
  Modes = {TRUE}
  NotifyEvery = 1
  MaxTime = 2
  MaxSecrets = 2
  MaxHydrations = 1
  MaxLeases = 0
  Clients = {v1, v2}
  Handlers = {h1, h2}
  MaxCodes = 3
  MaxTries = 2
  TTL = 2
  Grace = 1
  MaxPending = 1
SYMMETRY InviteSymmetry
INVARIANTS
  OneDevicePerCode
  LatestCookieWorks
PROPERTY RotationEndsInvites
CHECK_DEADLOCK FALSE
