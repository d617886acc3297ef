SPECIFICATION SiteSpec
CONSTANTS
  Bundles = {x, y}  Blank = Blank
  Ring = 4  Backlog = 2  Chunk = 2  WantDelay = 3  Stall = 2
  Elapsed = {0, 1, 3}  Faults = TRUE  MaxTic = 6
  Boots <- MCBoots  SecretExits <- MCSecretExits  SwitchExits <- MCSwitchExits
  Slots = {0, 1}  TextTics = 1  SkipTics = 1  PageTics = 1  MaxShift = 1
  PauseTics = 1  ShowTics = 2  NoTics = 2
  Conns = {c1, c2}  Games = {1, 2}  Pings = 2  None = None
  MaxVersion = 2  MaxSessions = 2  MaxPending = 3  MaxFaults = 1
  d1 = d1  d2 = d2  d3 = d3  d4 = d4
  Demos = {d1, d2, d3, d4}  Bytes <- SiteBytes
  PerDemoCap = 6  TotalQuota = 6  TTL = 2  RecordOverhead = 1  MaxTime = 5
CHECK_DEADLOCK FALSE
INVARIANTS TypesOK RanIsLog NothingLost FlagsAreTrue StoredOrTold
PROPERTIES CmdsAreFresh IsReplica RouteReturns SeekIsFresh IntermissionEnds TabIsOne
  ReloadSeesSaves QuotaHolds
