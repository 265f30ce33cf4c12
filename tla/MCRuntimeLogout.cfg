\* One device that signs out while the owner rotates, changes or revokes; no crash.
SPECIFICATION Spec
CONSTANTS
  Devices = {d1}
  Addresses = {a}
  Default = a
  AutoRestore = TRUE
  MaxOps = 2
  MaxFailures = 1
  MaxCrashes = 0
INVARIANT LogoutIsFinal
CHECK_DEADLOCK FALSE
