SPECIFICATION Spec
CONSTANTS
  Conns = {c1, c2}
  MaxClients = 1
  Capacity = 1
  MaxMessages = 1
INVARIANTS AtMostMaxClients
CHECK_DEADLOCK FALSE
