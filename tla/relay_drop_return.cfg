SPECIFICATION Spec
CONSTANTS
  a = a  b = b  j = j  k = k  NoClient = NoClient
  Slots = {0, 1}  Seats = {0}  Clients = {a, j}
  Owner <- OneSeat
  JoinMargin = 1  Window = 1  Grace = 1  QuietSweeps = 1  Drop = 1
  NeverJoined = 2  JoinTimeout = 4  Gaps = {1}
  MaxHistory = 1  MaxSpectators = 1  Events = {FALSE} MaxTic = 5
CHECK_DEADLOCK FALSE
PROPERTIES DroppedIsOut
