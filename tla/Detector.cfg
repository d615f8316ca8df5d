SPECIFICATION Spec
CONSTANTS
  Sources = {app}
  Patterns = {disk}
  Times = {0, 3, 4, 5, 9}
  MaxLogs = 5
  ErrorRates = {50}
  Bursts = {4, 12}
  Multipliers = {1}
  MinSpikeLogs = 2
  RingSize = 3
  MinRateLogs = 3
  MinSamples = 4
  Second = 1
  Minute = 3
  Window = 6
  SpikeCooldown = 2
  BurstCooldown = 2
  RateCooldown = 3
  NewErrorCooldown = 4
INVARIANTS TypeOK RaisedApart NewErrorOnce RateWindowOrdered
CHECK_DEADLOCK FALSE
