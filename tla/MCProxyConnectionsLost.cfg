\* One device, two connections; a revocation that cannot be saved is taken back.
SPECIFICATION Spec
CONSTANTS
  Devices = {d1}
  Conns = {c1, c2}
  MaxSecrets = 1
  MaxFailures = 1
INVARIANT RevokedHasNoStream
CHECK_DEADLOCK FALSE
