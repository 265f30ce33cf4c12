\* Two operations, a failing write and a crash; one device, two addresses.
SPECIFICATION Spec
CONSTANTS
  Devices = {d1}
  Addresses = {a, b}
  Default = a
  AutoRestore = TRUE
  MaxOps = 2
  MaxFailures = 1
  MaxCrashes = 1
INVARIANTS
  DurableWhenIdle
  ListenerCurrent
  TunnelNeedsListener
  StopIsFinal
  CutIsFinal
PROPERTIES
  MalformedKept
  EntryKept
  OperationEnds
  ChangesReachDisk
CHECK_DEADLOCK FALSE
