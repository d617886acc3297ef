SPECIFICATION Spec
CONSTANTS
  a = a  b = b  j = j  k = k  NoClient = NoClient
  Slots = {0, 1}  Seats = {0, 1}  Clients = {a, b, j}
  Owner <- TwoSeats
  JoinMargin = 1  Window = 2  Grace = 1  QuietSweeps = 1  Drop = 2
  NeverJoined = 3  JoinTimeout = 3  Gaps = {1}
  MaxHistory = 1  MaxSpectators = 1  Events = {FALSE} MaxTic = 3
CHECK_DEADLOCK FALSE
PROPERTIES SealedCmdIsPlayers
