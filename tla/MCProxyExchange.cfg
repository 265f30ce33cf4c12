\* One device with two connections; an asset in two variants; a capture at a time.
SPECIFICATION ExchangeSpec
CONSTANTS
  Devices = {d1}
  Conns = {c1, c2}
  MaxSecrets = 2
  MaxFailures = 1
  Assets = {a1}
  NegotiableAssets = {a1}
  Accepts <- MCAccepts
  MaxEntries = 2
  MaxBytes = 2
  MaxEntry = 2
  MaxBody = 1
  Overhead = 1
  MaxCaptures = 1
  Lifetime = 1
  MaxTime = 1
INVARIANTS CutClosesStreams CutIsForgotten CapturesCounted CachedIsFresh HitIsAcceptable
PROPERTY QuietStreamsClose
CHECK_DEADLOCK FALSE
