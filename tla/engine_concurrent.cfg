CONSTANTS
  Callers = {c1, c2}
  Calls = {"start", "stop", "add", "remove", "clear"}
  Keys = {"k"}
  Remote = {}
  LocalUdp = {"k"}
  MaxDup = 1
  MaxTask = 3
  MaxRun = 1
  Callback = FALSE
  EventCap = 1
SPECIFICATION FairSpec
INVARIANTS TypeOK EmptyWhenStopped
PROPERTY CallReturns
