SPECIFICATION ServerSpec
CONSTANTS
  a = a  b = b  j = j  k = k  NoClient = NoClient
  Slots = {0, 1}  Seats = {0, 1}  Clients = {a, b}
  Owner <- TwoSeats
  JoinMargin = 1  Window = 1  Grace = 1  QuietSweeps = 1  Drop = 2
  NeverJoined = 3  JoinTimeout = 3  Gaps = {1}
  MaxHistory = 1  MaxSpectators = 1  Events = {FALSE, TRUE} MaxTic = 3
  LobbySlots = {0, 1}  OddSlots = {half}  NoOne = NoOne
  Peers = {p1, p2, p3}  Params = {r1, r2}  Count = 2  MaxConns = 3  MaxSessions = 2
SYMMETRY AnyPeers
CHECK_DEADLOCK FALSE
INVARIANTS TypeOK EventsAreSent LobbySound
PROPERTIES NobodyLeftAtStart LaunchIsOne
