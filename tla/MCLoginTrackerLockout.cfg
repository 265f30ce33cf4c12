\* One address, window and lockout of the same length.
SPECIFICATION Spec
CONSTANTS
  Ips = {lo}
  Loopback = lo
  Handlers = {h1, h2}
  MaxAttempts = 2
  Lockout = 2
  MaxHold = 3
  MaxTracked = 2
  MaxTime = 6
SYMMETRY HandlerSymmetry
PROPERTY LoginLockKept
CHECK_DEADLOCK FALSE
