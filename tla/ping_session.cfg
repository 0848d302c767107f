CONSTANTS
  Callers = {c1, c2}
  Count = 2
  SeqMod = 3
  MaxSession = 2
SPECIFICATION Spec
INVARIANTS TypeOK OkMeansAnswered EachProbeReported NoStraySession TakenIsJoined
CHECK_DEADLOCK FALSE
