SPECIFICATION FairSpec
CONSTANTS
  Names = {app}
  MaxAdds = 2
  Capacity = 1
  MaxLines = 3
INVARIANTS TypeOK NoSendAfterClose EveryLoopCanBeStopped DeliversInOrder
PROPERTIES CloseReturns ImplementsFeed
CHECK_DEADLOCK FALSE
