CONSTANTS
  Handles = {0, 1}
  Dialers = {d1}
  Acceptors = {a1}
  Ports = {80}
  MaxListen = 1
  LISTEN_POOL = 1
  MaxBatch = 1
SPECIFICATION ServeSpec
PROPERTIES DialEnds ClosingReaped HalfOpenReaped QueuedAccepted
