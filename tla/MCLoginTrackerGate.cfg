\* Both gates, forwarding always trusted or not, or a change of it: requests held back over two
\* windows, as under the shipped limits, the third attempt of an address landing in the third window.
SPECIFICATION Spec
CONSTANTS
  Ips = {lo, v1}
  Loopback = lo
  Handlers = {h1, h2, h3}
  MaxAttempts = 1
  Lockout = 2
  MaxHold = 6
  MaxTracked = 1
  MaxTime = 6
SYMMETRY HandlerSymmetry
INVARIANTS
  GuessesBounded
  NoLeakedReservation
PROPERTY UpgradeLockKept
CHECK_DEADLOCK FALSE
