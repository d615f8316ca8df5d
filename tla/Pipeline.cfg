SPECIFICATION FairSpec
CONSTANTS
  Entries = {1, 2, 3, 4}
  MaxLines = 4
  Capacity = 2
  BatchSize = 2
  Requests = {r1, r2}
INVARIANTS TypeOK LinesInOrder AcknowledgedIsStored
PROPERTIES EveryLineIsProcessed SignalEndsProcess
CHECK_DEADLOCK FALSE
