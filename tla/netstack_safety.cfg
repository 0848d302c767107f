CONSTANTS
  Handles = {0, 1, 2}
  Dialers = {d1}
  Acceptors = {a1}
  Ports = {0, 80}
  MaxListen = 1
  LISTEN_POOL = 1
  MaxBatch = 1
SPECIFICATION Spec
INVARIANTS TypeOK HandlesLive OneOwner PoolToppedUp ClosedNoTraffic StreamsReleased
PROPERTIES SlotLifecycle
