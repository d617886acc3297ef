SPECIFICATION EngineSpec
CONSTANTS
  Levels <- MCLevels
  Ids = {1, 2, 3}  MAXPLATS = 2  MAXCEILINGS = 1
  Wait = 2  Rise = 1  Clear = 1  Grain = 1  Garbage = {0, 3}
  Top = 5  MinFragment = 1  Lumps = {l, k}  Length <- EngineLength  Sizes = {2}
  Unowned = Unowned  Free = Free
  Nodes = {n1, n2, n3}  thinkercap = thinkercap
  Kits <- MCKits  MaxAmmo <- MCMaxAmmo  Clip <- MCClip  BFGCELLS = 2
  MAXPLAYERS = 2  Sessions <- MCSessions  Addresses = {1, 2, 3, 4, 5, 6}
  BODYQUESIZE = 1  ITEMQUESIZE = 2  MAXBRAINTARGETS = 1
  Places = {1, 2, 3}  Skulls = 0  Player = Player  Body = Body  NULL = NULL
CHECK_DEADLOCK FALSE
INVARIANTS TypesOK MoversAgree HeapSound CacheIsTrue Linked WeaponsSound ObjectsSound DeadStayDown TargetsChecked
  BossesTrigger
PROPERTIES ReloadKeeps LatestSurvives EachRunsOnce NothingHangs
