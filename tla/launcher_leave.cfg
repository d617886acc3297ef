SPECIFICATION LauncherSpec
CONSTANTS
  Conns = {c1, c2}  Games = {1, 2}  Pings = 2  None = None
CHECK_DEADLOCK FALSE
PROPERTIES LeaveIsNotLoss
