SPECIFICATION Spec
CONSTANTS
  Entries = {1, 2}
  MaxLines = 2
  Capacity = 2
  BatchSize = 2
  Requests = {r1}
INVARIANTS ShutdownIsGraceful
CHECK_DEADLOCK FALSE
