SPECIFICATION MobjsSpec
CONSTANTS
  MAXPLAYERS = 2  Sessions <- MCSessions  Addresses = {1, 2, 3, 4, 5, 6}
  BODYQUESIZE = 1  ITEMQUESIZE = 2  MAXBRAINTARGETS = 1  NULL = NULL
CHECK_DEADLOCK FALSE
INVARIANT TouchHasPlayer
