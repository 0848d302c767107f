CONSTANTS
  N = 3
  TcpServers = {0}
  Lookups = {l1, l2}
SPECIFICATION Spec
INVARIANTS TypeOK SteadyServerAnswers
