SPECIFICATION LiveSpec
CONSTANTS
  a = a  b = b  j = j  k = k  NoClient = NoClient
  Slots = {0, 1}  Seats = {0}  Clients = {a, j}
  Owner <- OneSeat
  JoinMargin = 1  Window = 1  Grace = 2  QuietSweeps = 1  Drop = 2
  NeverJoined = 1  JoinTimeout = 2  Gaps = {1}
  MaxHistory = 1  MaxSpectators = 0  Events = {FALSE}  MaxTic = 2
  Contents = {x}  Blankness = Blankness
  Ring = 4  Backlog = 3  Chunk = 2  WantDelay = 4  Stall = 2
  Elapsed = {0, 1, 3}  LastTic = 6
CHECK_DEADLOCK FALSE
PROPERTIES SealProgress NobodyLingers Advances
