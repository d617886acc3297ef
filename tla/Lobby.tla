-------------------------------- MODULE Lobby --------------------------------
(***************************************************************************)
(* The lobby of server/game.js and the sessions it starts, one after       *)
(* another: who sits where, the params anyone may set, the countdown, the  *)
(* launch frames, the sweep's timer and the sockets that outlive a session.*)
(*                                                                         *)
(* What happens inside a session is Relay's; of it there is only what ends *)
(* one: seats and drop-ins that connect or never do, the drops, the closes.*)
(* A member may ask for any number from 0 up to MAXPLAYERS as its slot:    *)
(* one that is no slot is a seat like the others, until the launch fails   *)
(* at it.                                                                  *)
(* Node runs one handler at a time: each is one action.  A sweep is two,   *)
(* the interval that queues it and the immediate that runs it after the    *)
(* frames that were waiting.                                               *)
(***************************************************************************)
EXTENDS Integers, FiniteSets, FiniteSetsExt

CONSTANTS
  LobbySlots,     \* 0 .. MAXPLAYERS - 1
  OddSlots,       \* the numbers between them, like 1.5, which may be sat on, too
  Peers,          \* whoever opens lobby sockets
  Params,         \* what the params handler leaves: a served wad, rules in range
  Count,          \* the countdown: 3
  MaxConns,       \* MAX_CONNS
  MaxSessions,    \* bound: the sessions started
  NoOne

LobbySeats == LobbySlots \cup OddSlots

\* What is said of a session here.
Session ==
  [id : 1 .. MaxSessions, n : 0 .. Count - 1, launched : BOOLEAN,
   params : Params, slots : (SUBSET LobbySeats) \ {{}},
   ingame : SUBSET LobbySlots, joined : SUBSET LobbySlots, joining : SUBSET LobbySlots,
   token : SUBSET LobbySlots]

\* A launch frame: the game, and whose it is.
LaunchFrame == [params : Params, slots : SUBSET LobbySeats, slot : LobbySeats]

ASSUME LobbyAssumption ==
  /\ IsFiniteSet(LobbySlots) /\ LobbySlots \subseteq Nat /\ IsFiniteSet(Peers)
  /\ LobbySlots \cap OddSlots = {} /\ Params # {}
  /\ NoOne \notin LobbySeats \cup Peers \cup Session \cup LaunchFrame
  /\ Count \in Nat \ {0} /\ {MaxConns, MaxSessions} \subseteq Nat

VARIABLES
  lobby,          \* lobby: who sits on each seat
  params,         \* params
  session,        \* session: what is said of it here, or NoOne
  connCount,      \* connCount
  sock,           \* the state of each peer's lobby socket
  at,             \* the slot in the closure of that socket (-1 is NoOne)
  told,           \* the roster each peer was cast last
  socks,          \* the sockets of slots: <<session, slot>> |-> open or closing
  others,         \* how many sockets hold nothing: spectators, refused, timed out
  ticks, sweeps,  \* the sessions with a countdown tick, a sweep interval due
  queued,         \* the sessions whose sweep a setImmediate holds
  started,        \* how many sessions there were
  launches        \* the launch frames the last step sent

lobbyVars == <<lobby, params, session, connCount, sock, at, told, socks, others, ticks, sweeps,
               queued, started, launches>>

DefaultParams == CHOOSE ps \in Params : TRUE
Nobody == [s \in LobbySeats |-> NoOne]
Unsent == [p \in Peers |-> NoOne]

LobbyInit ==
  /\ lobby = Nobody
  /\ params = DefaultParams
  /\ session = NoOne
  /\ connCount = 0
  /\ sock = [p \in Peers |-> "out"]
  /\ at = Unsent /\ told = Unsent /\ launches = Unsent
  /\ socks = [k \in {} |-> "open"]
  /\ others = 0 /\ ticks = {} /\ sweeps = {} /\ queued = {}
  /\ started = 0

-----------------------------------------------------------------------------
\* roster, and cast of it: a socket that is closed or refused is sent nothing.
Seated(l) == {s \in LobbySeats : l[s] # NoOne}
Roster(l, ps) == [players |-> Seated(l), params |-> ps]
Listens(l, p) == sock[p] = "open" /\ \E s \in LobbySeats : l[s] = p
CastRoster(l, ps) ==
  told' = [p \in Peers |-> IF Listens(l, p) THEN Roster(l, ps) ELSE told[p]]

FreeSlots == {s \in LobbySlots : lobby[s] = NoOne}

\* The connection event of a lobby socket: the cap, then lobbyConnect.  Past
\* the cap the socket is refused uncounted.  An observer has no slot, and a
\* full lobby refuses the socket it has counted.
Counted(p) == sock[p] \in {"open", "dead"}

ConnectSeat(p) ==
  LET l == [lobby EXCEPT ![Min(FreeSlots)] = p]
      seated == [sock EXCEPT ![p] = "open"]
  IN
  /\ sock[p] = "out" /\ connCount < MaxConns
  /\ session = NoOne /\ FreeSlots # {}
  /\ lobby' = l
  /\ at' = [at EXCEPT ![p] = Min(FreeSlots)]
  /\ sock' = seated
  /\ told' = [q \in Peers |-> IF q = p \/ Listens(l, q) THEN Roster(l, params) ELSE told[q]]
  /\ connCount' = connCount + 1
  /\ launches' = Unsent
  /\ UNCHANGED <<params, session, socks, others, ticks, sweeps, queued, started>>

ConnectObserver(p) ==
  /\ sock[p] = "out" /\ connCount < MaxConns
  /\ session # NoOne \/ FreeSlots = {}
  /\ sock' = [sock EXCEPT ![p] = IF session # NoOne THEN "open" ELSE "dead"]
  /\ connCount' = connCount + 1
  /\ launches' = Unsent
  /\ UNCHANGED <<lobby, params, session, at, told, socks, others, ticks, sweeps, queued,
                 started>>

\* refuse: a flood, or a peer that does not read.
RefuseLobby(p) ==
  /\ sock[p] = "open"
  /\ sock' = [sock EXCEPT ![p] = "dead"]
  /\ told' = [told EXCEPT ![p] = NoOne]
  /\ launches' = Unsent
  /\ UNCHANGED <<lobby, params, session, connCount, at, socks, others, ticks, sweeps, queued,
                 started>>

\* The 'close' of a lobby socket.
CloseLobby(p) ==
  LET l == IF at[p] = NoOne THEN lobby ELSE [lobby EXCEPT ![at[p]] = NoOne] IN
  /\ sock[p] \in {"open", "dead"}
  /\ sock' = [sock EXCEPT ![p] = "out"]
  /\ lobby' = l
  /\ at' = [at EXCEPT ![p] = NoOne]
  /\ told' = [q \in Peers |-> CASE q = p -> NoOne
                                [] q # p /\ at[p] # NoOne /\ Listens(l, q) -> Roster(l, params)
                                [] OTHER -> told[q]]
  /\ connCount' = connCount - 1
  /\ launches' = Unsent
  /\ UNCHANGED <<params, session, socks, others, ticks, sweeps, queued, started>>

\* What a lobby message needs: a seat, and no session: the lobby is frozen
\* once a game starts.
MaySet(p) == sock[p] = "open" /\ at[p] # NoOne /\ session = NoOne

Moved_SlotKept(p, want) == at
Moved(p, want) == [at EXCEPT ![p] = want]

PickSlot(p, want) ==
  LET l == [lobby EXCEPT ![want] = lobby[at[p]], ![at[p]] = NoOne] IN
  /\ MaySet(p)
  /\ lobby[want] = NoOne /\ want # at[p]
  /\ lobby' = l
  /\ at' = Moved(p, want)
  /\ CastRoster(l, params)
  /\ launches' = Unsent
  /\ UNCHANGED <<params, session, connCount, sock, socks, others, ticks, sweeps, queued,
                 started>>

\* Whatever is asked for: an unserved wad keeps the one there was, and the
\* rest is clamped to its range.
SetParams(p, ps) ==
  /\ MaySet(p)
  /\ params' = ps
  /\ CastRoster(lobby, ps)
  /\ launches' = Unsent
  /\ UNCHANGED <<lobby, session, connCount, sock, at, socks, others, ticks, sweeps, queued,
                 started>>

-----------------------------------------------------------------------------
(* The countdown and the launch.                                           *)

\* startGame, its first tick included.  The players are the slots that are
\* taken, slots all the seats.
NewSession ==
  LET in == Seated(lobby) \cap LobbySlots IN
  [id |-> started + 1, n |-> Count - 1, launched |-> FALSE,
   params |-> params, slots |-> Seated(lobby),
   ingame |-> in, joined |-> LobbySlots \ in, joining |-> {}, token |-> {}]

Start(p) ==
  /\ MaySet(p) /\ started < MaxSessions
  /\ session' = NewSession
  /\ started' = started + 1
  /\ ticks' = ticks \cup {started + 1}
  /\ launches' = Unsent
  /\ UNCHANGED <<lobby, params, connCount, sock, at, told, socks, others, sweeps, queued>>

\* A timer fires only once the immediates queued before it have run.
Current(i) == session # NoOne /\ session.id = i
Tick(i) ==
  /\ i \in ticks /\ queued = {} /\ Current(i) /\ session.n > 0
  /\ session' = [session EXCEPT !.n = @ - 1]
  /\ launches' = Unsent
  /\ UNCHANGED <<lobby, params, connCount, sock, at, told, socks, others, ticks, sweeps, queued,
                 started>>

\* The last tick.  Every member gets its seat's token, those it can be sent to;
\* the params are the lobby's, the players the session's.
LastTick(i) ==
  /\ i \in ticks /\ queued = {} /\ Current(i) /\ session.n = 0
  /\ ticks' = ticks \ {i}
  /\ UNCHANGED <<lobby, params, connCount, sock, at, told, socks, others, queued, started>>

SeatOf(p) == CHOOSE s \in LobbySeats : lobby[s] = p
Frames(S) ==
  [p \in Peers |-> IF Listens(lobby, p) /\ SeatOf(p) \in S
                   THEN [params |-> params, slots |-> session.slots, slot |-> SeatOf(p)]
                   ELSE NoOne]

LaunchGame(i) ==
  /\ LastTick(i) /\ Seated(lobby) \subseteq LobbySlots
  /\ session' = [session EXCEPT !.launched = TRUE, !.token = @ \cup Seated(lobby)]
  /\ launches' = Frames(Seated(lobby))
  /\ sweeps' = sweeps \cup {i}

\* A seat that is no slot has no player to give a token to: the tick throws
\* there, and the server goes on.  The members before it in the Map's order,
\* which is not kept here, have their frames; no sweep is ever set.
LaunchFails(i) ==
  /\ LastTick(i) /\ ~ Seated(lobby) \subseteq LobbySlots
  /\ \E early \in SUBSET (Seated(lobby) \cap LobbySlots) :
       /\ session' = [session EXCEPT !.token = @ \cup early]
       /\ launches' = Frames(early)
  /\ UNCHANGED sweeps

\* endSession: the timer, the sockets, the roster.
ClosingSocks(f) == [k \in DOMAIN f |-> IF session.id = k[1] THEN "closing" ELSE f[k]]
Cleared(T) == T \ {session.id}
EndSession(f) ==
  /\ session' = NoOne
  /\ socks' = ClosingSocks(f)
  /\ ticks' = Cleared(ticks)
  /\ sweeps' = Cleared(sweeps)
  /\ CastRoster(lobby, params)

\* The interval: it queues a sweep behind the frames that wait to be read.
QueueSweep(i) ==
  /\ i \in sweeps /\ queued = {}
  /\ queued' = {i}
  /\ launches' = Unsent
  /\ UNCHANGED <<lobby, params, session, connCount, sock, at, told, socks, others, ticks, sweeps,
                 started>>

\* The sweep.  Seats that have not connected NEVER_JOINED_MS after the launch
\* are out; a session never launched was launched at 0, ages ago.
Judges_Anyone(i) == session # NoOne
Judges(i) == Current(i)
Present(old) == IF old THEN session.ingame \cap session.joined ELSE session.ingame
Ages == IF session.launched THEN BOOLEAN ELSE {TRUE}

\* The drop-ins that are bound and not live yet: one that takes too long loses
\* its slot, and its socket any say.
Waiting == {s \in session.joining \ session.ingame : <<session.id, s>> \in DOMAIN socks}

Immediate(i) ==
  /\ i \in queued
  /\ queued' = queued \ {i}
  /\ launches' = Unsent
  /\ \/ /\ ~ Judges(i)
        /\ UNCHANGED <<session, told, socks, others, ticks, sweeps>>
     \/ /\ Judges(i) /\ \E old \in Ages : Present(old) = {}
        /\ EndSession(socks) /\ UNCHANGED others
     \* once all have joined, tics are sealed, which enters drop-ins, and
     \* whoever holds the game up too long is dropped
     \/ /\ Judges(i)
        /\ \E old \in Ages, T \in SUBSET Waiting : \E G \in SUBSET (Waiting \ T) :
           \E D \in SUBSET (Present(old) \cup G) :
             /\ Present(old) # {}
             /\ D \cup G # {} => Present(old) \subseteq session.joined
             /\ session' = [session EXCEPT !.ingame = (Present(old) \cup G) \ D,
                                           !.joining = @ \ T, !.token = @ \ T]
             /\ socks' = [k \in DOMAIN socks \ ({session.id} \X T) |->
                            IF k \in {session.id} \X D THEN "closing" ELSE socks[k]]
             /\ others' = others + Cardinality(T)
        /\ UNCHANGED <<told, ticks, sweeps>>
  /\ UNCHANGED <<lobby, params, connCount, sock, at, started>>

-----------------------------------------------------------------------------
(* The game sockets.                                                       *)

\* relayConnect; a slot that is not in the game drops in.
Attach(s) ==
  /\ session # NoOne /\ connCount < MaxConns
  /\ <<session.id, s>> \notin DOMAIN socks
  /\ session' = [session EXCEPT !.joined = @ \cup {s}, !.token = @ \cup {s},
                                !.joining = IF s \in session.ingame THEN @ ELSE @ \cup {s}]
  /\ socks' = [k \in DOMAIN socks \cup {<<session.id, s>>} |->
                 IF k \in DOMAIN socks THEN socks[k] ELSE "open"]
  /\ connCount' = connCount + 1
  /\ launches' = Unsent
  /\ UNCHANGED <<lobby, params, sock, at, told, others, ticks, sweeps, queued, started>>

\* With the slot's token: a launched seat, or one that was dropped meanwhile.
Bind(s) == session # NoOne /\ s \in session.token /\ Attach(s)

\* With the one that join gave an observer, in a countdown, too.  (What becomes
\* of a reservation until then is Relay's.)
DropIn(s) ==
  /\ session # NoOne /\ s \notin session.ingame
  /\ \E p \in Peers : sock[p] = "open" /\ at[p] = NoOne
  /\ Attach(s)

\* A frame's seal enters the drop-ins that are due; nothing is sealed while a
\* seat is still to join, or without one.
GoLive(G) ==
  /\ session # NoOne /\ session.ingame # {} /\ session.ingame \subseteq session.joined
  /\ G # {} /\ G \subseteq Waiting
  /\ session' = [session EXCEPT !.ingame = @ \cup G]
  /\ launches' = Unsent
  /\ UNCHANGED <<lobby, params, connCount, sock, at, told, socks, others, ticks, sweeps, queued,
                 started>>

\* The 'close' of a game socket: mine() is false for one of an ended session.
CloseGame(k) ==
  LET rest == [j \in DOMAIN socks \ {k} |-> socks[j]]
      left == session.ingame \ {k[2]}
  IN
  /\ k \in DOMAIN socks
  /\ IF ~ Current(k[1])
     THEN socks' = rest /\ UNCHANGED <<session, told, ticks, sweeps>>
     ELSE IF left = {} THEN EndSession(rest)
     ELSE /\ session' = [session EXCEPT !.ingame = left, !.token = @ \ {k[2]},
                                        !.joining = @ \ {k[2]}]
          /\ socks' = rest
          /\ UNCHANGED <<told, ticks, sweeps>>
  /\ connCount' = connCount - 1
  /\ launches' = Unsent
  /\ UNCHANGED <<lobby, params, sock, at, others, queued, started>>

\* A spectator's socket, or one that is refused; and the close of such a one.
ConnectOther ==
  /\ connCount < MaxConns
  /\ connCount' = connCount + 1 /\ others' = others + 1
  /\ launches' = Unsent
  /\ UNCHANGED <<lobby, params, session, sock, at, told, socks, ticks, sweeps, queued, started>>

CloseOther ==
  /\ others > 0
  /\ connCount' = connCount - 1 /\ others' = others - 1
  /\ launches' = Unsent
  /\ UNCHANGED <<lobby, params, session, sock, at, told, socks, ticks, sweeps, queued, started>>

LobbyNext ==
  \/ \E p \in Peers :
       \/ ConnectSeat(p) \/ ConnectObserver(p) \/ RefuseLobby(p) \/ CloseLobby(p) \/ Start(p)
       \/ \E s \in LobbySeats : PickSlot(p, s)
       \/ \E ps \in Params : SetParams(p, ps)
  \/ \E i \in 1 .. MaxSessions : Tick(i) \/ LaunchGame(i) \/ LaunchFails(i)
                                 \/ QueueSweep(i) \/ Immediate(i)
  \/ \E s \in LobbySlots : Bind(s) \/ DropIn(s)
  \/ \E G \in SUBSET LobbySlots : GoLive(G)
  \/ \E k \in DOMAIN socks : CloseGame(k)
  \/ ConnectOther \/ CloseOther

LobbySpec == LobbyInit /\ [][LobbyNext]_lobbyVars

-----------------------------------------------------------------------------
LobbyTypeOK ==
  /\ lobby \in [LobbySeats -> Peers \cup {NoOne}]
  /\ params \in Params
  /\ session \in Session \cup {NoOne}
  /\ connCount \in 0 .. MaxConns /\ others \in Nat
  /\ sock \in [Peers -> {"out", "open", "dead"}]
  /\ at \in [Peers -> LobbySeats \cup {NoOne}]
  /\ \A k \in DOMAIN socks : socks[k] \in {"open", "closing"}
  /\ queued \subseteq 1 .. MaxSessions

SeatsAgree ==
  /\ \A p \in Peers, s \in LobbySeats : lobby[s] = p <=> at[p] = s
  /\ \A p \in Peers : at[p] # NoOne => Counted(p)
CastTrue == \A p \in Peers : Listens(lobby, p) => told[p] = Roster(lobby, params)
CountTrue ==
  connCount = Cardinality({p \in Peers : Counted(p)}) + Cardinality(DOMAIN socks) + others
TimersTrue == ticks \cup sweeps \subseteq IF session = NoOne THEN {} ELSE {session.id}

\* A member sits on one seat, the one its closure names, whatever moves, leaves
\* and starts interleave, on a number that is no slot, too; whoever still reads
\* was cast the roster and the params as they are; every open socket is counted
\* once; and no timer outlives its session (game.js:189, 231-236, 267, 351, 697).
LobbySound == LobbyTypeOK /\ SeatsAgree /\ CastTrue /\ CountTrue /\ TimersTrue

\* Every launch frame of a session says the same game: the params a drop-in
\* will be handed, the seats that are in it, and a slot for each member it is
\* sent to, that plays and has a token, no two the same (game.js:224, 310,
\* 330-334).
LaunchAgrees ==
  LET sent == {p \in Peers : launches[p] # NoOne} IN
  /\ \A p \in sent :
       /\ launches[p].params = session.params
       /\ launches[p].slots = session.slots
       /\ launches[p].slot \in session.ingame \cap session.token
  /\ \A p, q \in sent : launches[p].slot = launches[q].slot => p = q

\* A countdown of any slot that plays belongs to the session that started it:
\* nothing that an earlier session left behind (a tick, a queued sweep, a
\* socket's close) and no drop-in ends it or changes who plays; and it launches
\* only when it has counted down, with a frame for every member who reads.
\* (A launch that fails at a seat that is no slot is none: those before it have
\* their frames, the rest never will.  Where only such seats are taken, nobody
\* plays, and the first drop-in to leave ends the countdown.  game.js:318-342,
\* 346, 497.)
CountdownIsKept ==
  [][session # NoOne /\ session.id \in ticks /\ session.ingame # {} =>
       /\ session' # NoOne /\ session'.id = session.id
       /\ session'.ingame = session.ingame
       /\ session'.n \in {session.n, session.n - 1}
       /\ session'.launched =>
            session.n = 0 /\ \A p \in Peers : Listens(lobby, p) => launches'[p] # NoOne]_lobbyVars

\* Both: a launch is one game for all, of a countdown that was its own.
LaunchIsOne == []LaunchAgrees /\ CountdownIsKept
=============================================================================
