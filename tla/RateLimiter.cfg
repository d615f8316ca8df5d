SPECIFICATION FairSpec
CONSTANTS
  IPs = {alice, bob}
  Limits = {0, 1, 3}
  DefaultLimit = 2
  Window = 3
INVARIANTS TypeOK AtMostTwiceTheLimit RefusedWereServed
PROPERTIES NoClientIsStarved
