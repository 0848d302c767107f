CONSTANTS
  N = 2
  TcpServers = {0}
  Lookups = {l1, l2}
SPECIFICATION FairSpec
PROPERTY PrimaryPickedUp
