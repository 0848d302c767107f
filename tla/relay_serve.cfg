CONSTANTS
  Kinds = {"socks", "http", "ltcp", "rtcp"}
  MaxConn = 2
  Talkers = {1}
  MaxUp = 2
  MaxDown = 1
SPECIFICATION FairSpec
INVARIANTS TypeOK GaugeExact TrafficCounted StreamInOrder ResponseWhole
PROPERTIES StopEndsRelays AssocEnds
CHECK_DEADLOCK FALSE
