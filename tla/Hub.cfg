SPECIFICATION FairSpec
CONSTANTS
  Conns = {c1, c2}
  MaxClients = 1
  Capacity = 1
  MaxMessages = 2
INVARIANTS TypeOK RegisteredAreServed StreamsEveryMessage
PROPERTIES ImplementsBroadcast ClosedAreForgotten DrainsUnlessStalled
CHECK_DEADLOCK FALSE
