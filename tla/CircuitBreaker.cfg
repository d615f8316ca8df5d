SPECIFICATION FairSpec
CONSTANTS
  Callers = {c1, c2, c3}
  FailureThreshold = 2
  SuccessThreshold = 2
  Timeout = 1
  MaxInt = 4
INVARIANTS TypeOK TrippedByCount HalfOpenIsQuiet
PROPERTIES Recovers ImplementsBreaker
