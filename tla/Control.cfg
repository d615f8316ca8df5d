SPECIFICATION FairSpec
CONSTANTS
  Reloads = {r1, r2}
  Puts = {p1}
  Files <- MCFiles
  Bad = Bad
  Absent = Absent
  Env <- MCEnv
  Missing = Missing
  Bodies <- MCBodies
  Types = {spike}
  Severities = {"HIGH", "LOW"}
  DefaultCooldown = 2
  MaxCooldown = 2
  MaxSending = 1
INVARIANTS TypeOK SettingsAgree AlertsApart
PROPERTIES ReloadEnds
CHECK_DEADLOCK FALSE
