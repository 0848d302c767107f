CONSTANTS
  Callers = {c1}
  Calls = {"start", "stop", "add", "remove"}
  Keys = {"k", "m", "u"}
  Remote = {"m"}
  LocalUdp = {"u"}
  MaxDup = 1
  MaxTask = 3
  MaxRun = 2
  Callback = TRUE
  EventCap = 2
SPECIFICATION Spec
INVARIANTS PeersReported QuietWhenStopped MappingsServed ServedIsListed
