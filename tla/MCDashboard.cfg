SPECIFICATION DashboardSpec
CONSTANTS
  c1 = c1
  bad = bad
  Files = {1, 2}
  Circuits = {c1, bad}
  BadCircuits = {bad}
  None = None
  Configs <- MCConfigs
  FirstConfig <- MCFirstConfig
  InitialDirs <- MCInitialDirs
  SessionTtl = 2
  Limits = {20, 50}
  DefaultLimit = 50
  MaxFetches = 2
  MaxEvents = 3
INVARIANTS
  OverviewIsNewest
  LoadedIsAsked
  SessionShownIsHeld
CHECK_DEADLOCK FALSE
