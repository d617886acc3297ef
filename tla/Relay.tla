-------------------------------- MODULE Relay --------------------------------
(***************************************************************************)
(* One session of the tic relay of server/game.js, from startGame to       *)
(* endSession: seats and their tokens, drop-in reservations, the binding   *)
(* of game sockets, the tic cmds they send, the seal, the grace/drop sweep *)
(* and the closing of sockets.  Node runs one handler at a time, so each   *)
(* handler is one action.                                                  *)
(*                                                                         *)
(* Time is counted in sweeps.  Every Date.now() the code keeps becomes an  *)
(* age: how long ago it was taken, as of the last sweep; a sweep that      *)
(* comes d periods after the one before ages everything by d.  Ages stop   *)
(* one past the threshold they are compared with.                          *)
(*                                                                         *)
(* A client is anything that can hold one seat token.  Its frames are      *)
(* arbitrary: any tic, in any order, at any time, or never.                *)
(*                                                                         *)
(* A definition named X_Y is X with a plausible bug in it: X's property    *)
(* must fail under it (PROJECT.json, "mutants").                           *)
(***************************************************************************)
EXTENDS Integers, FiniteSets, FiniteSetsExt

CONSTANTS
  Slots,          \* the seats of a session (MAXPLAYERS of them)
  Seats,          \* the slots of lobby members when the countdown started
  Clients,        \* holders of a token, or of a spectator socket
  Owner,          \* the lobby member of each seat
  NoClient,       \* no socket, no token, no sender
  JoinMargin,     \* JOIN_MARGIN
  Window,         \* the 512 tics past the frontier a cmd may be for
  Grace,          \* GRACE_MS, in sweeps
  QuietSweeps,    \* QUIET_SWEEPS
  Drop,           \* DROP_MS, in sweeps
  NeverJoined,    \* NEVER_JOINED_MS, in sweeps
  JoinTimeout,    \* JOIN_TIMEOUT_MS, in sweeps
  Gaps,           \* how many periods late a sweep may come, 1 being on time
  MaxHistory,     \* MAX_HISTORY_TICS
  MaxSpectators,  \* MAX_SPECTATORS
  Events,         \* {FALSE}, or BOOLEAN where one-tic events matter
  MaxTic          \* bound: tics 0..MaxTic-1 are sealed, then frames stop coming

ASSUME SlotsAssumption ==
  /\ IsFiniteSet(Slots)
  /\ Seats \subseteq Slots
  /\ NoClient \notin Clients \cup Slots
  /\ Owner \in [Seats -> Clients]
  /\ \A s, r \in Seats : Owner[s] = Owner[r] => s = r

ASSUME NumbersAssumption ==
  /\ {Window, Grace, QuietSweeps, Drop, NeverJoined, JoinTimeout} \subseteq Nat
  /\ {MaxHistory, MaxSpectators, MaxTic} \subseteq Nat
  /\ JoinMargin \in Nat \ {0}
  /\ Gaps \subseteq Nat \ {0}
  /\ Events \subseteq BOOLEAN

VARIABLES
  players,      \* session.players: the state of each slot
  tic,          \* session.tic: the next tic to seal
  cast,         \* the bundles the last step sealed and broadcast, by tic
  spectators,   \* session.spectators
  launchAge,    \* how long ago the countdown ended (session.launched)
  over,         \* session = null: endSession has run
  client,       \* each client's lobby and game socket
  sent          \* the tics whose bundles each client's game socket was sent

vars == <<players, tic, cast, spectators, launchAge, over, client, sent>>

-----------------------------------------------------------------------------
NotLaunched == -1
NotHeld == -1                       \* reservedAt = 0
NotScheduled == 0                   \* joinAt = 0

Tics == 0 .. MaxTic - 1

\* What the relay can tell apart of a ticcmd: who sent it, and whether it
\* carries a one-tic event (a chat character, or a BT_SPECIAL button).
Cmd == [by : Clients \cup {NoClient}, ev : BOOLEAN]
Blank == [by |-> NoClient, ev |-> FALSE]
Strip_Whole(cmd) == cmd
Strip(cmd) == [cmd EXCEPT !.ev = FALSE]

\* cmds is a Map: a function on the tics it has an entry for.
IsMap(f, T, V) == /\ f = [t \in DOMAIN f |-> f[t]]
                  /\ DOMAIN f \subseteq T
                  /\ \A t \in DOMAIN f : f[t] \in V

Player(cmds) ==
  [ws : Clients \cup {NoClient}, token : Clients \cup {NoClient},
   joined : BOOLEAN, ingame : BOOLEAN, joining : BOOLEAN,
   reservedAge : Nat \cup {NotHeld}, joinAt : Nat, sentAny : BOOLEAN,
   seenAge : Nat, heardAge : Nat, quiet : Nat, silent : BOOLEAN,
   cmds : {cmds}, last : Cmd]
IsPlayer(p) == p \in Player(p.cmds) /\ IsMap(p.cmds, Tics, Cmd)

\* lobby: "seat" of the lobby the game started from; "observer" of the live
\* game; "holder" of a reservation; "gone"; or "spectator", never in a lobby.
\* sock: a game socket is "closing" once the server sent it a close frame
\* (frames the client sent before still arrive) and "dead" once terminated.
Client == [lobby : {"seat", "observer", "holder", "gone", "spectator"},
           at : Slots \cup {NoClient},
           sock : {"none", "open", "closing", "dead", "closed"}]

AtMost(n, cap) == IF n > cap THEN cap ELSE n

Live(pl) == {s \in Slots : pl[s].ingame}
AllJoined(pl) == \A s \in Live(pl) : pl[s].joined
HistoryFull_Never == FALSE
HistoryFull == tic > MaxHistory

\* What burstHistory streams: the tics retained.
History == 0 .. Min({tic, MaxHistory}) - 1

\* A slot nobody plays, holds or has a socket on: what `join` may take.
Free(s) == ~ players[s].ingame /\ ~ players[s].joining /\ players[s].ws = NoClient

\* The relayConnect closures' test: this socket still holds its slot.
Mine(c) == ~ over /\ client[c].at \in Slots /\ players[client[c].at].ws = c

-----------------------------------------------------------------------------
(* The seal.  sealTic for tics t0 to k-1, in one go.                       *)

\* Whether seal()'s loop goes on to seal tic t, drop-ins due before t being
\* live by then.
Due(p, k) == p.joinAt # NotScheduled /\ p.joinAt < k
LiveAt(pl, t) == {s \in Slots : pl[s].ingame \/ Due(pl[s], t)}
Sent(pl, t) == {s \in Slots : t \in DOMAIN pl[s].cmds}
CanSeal(pl, t) ==
  LET live == LiveAt(pl, t)
      has  == Sent(pl, t)
  IN live \cap has # {} /\ \A s \in live \ has : pl[s].silent

\* seal() started at tic t0 stops at tic k.
SealStops(pl, t0, k) ==
  /\ t0 <= k
  /\ AllJoined(pl) => /\ \A t \in t0 .. k - 1 : CanSeal(pl, t)
                      /\ ~ CanSeal(pl, k)
  /\ ~ AllJoined(pl) => k = t0

\* The cmds of p among tics t0..t, and what a fabricated tic after t repeats.
Own(p, t0, t) == DOMAIN p.cmds \cap (t0 .. t)
LastCmd(p, t0, t) == IF Own(p, t0, t) = {} THEN p.last
                     ELSE Strip(p.cmds[Max(Own(p, t0, t))])

Bundle(pl, t0, t) ==
  [mask |-> LiveAt(pl, t + 1),
   fab  |-> Slots \ Sent(pl, t),
   cmd  |-> [s \in Slots |-> LET p == pl[s] IN
               IF t \in DOMAIN p.cmds THEN p.cmds[t] ELSE LastCmd(p, t0, t)]]

\* The players after sealing tics t0..k-1: drop-ins due are promoted, cmds of
\* those tics are used up, and a player that filled one has just been seen.
AfterSeal(pl, t0, k) ==
  [s \in Slots |->
    LET p == pl[s] IN
    [p EXCEPT !.ingame  = @ \/ Due(p, k),
              !.joinAt  = IF Due(p, k) THEN NotScheduled ELSE @,
              !.seenAge = IF Own(p, t0, k - 1) # {} THEN 0 ELSE @,
              !.last    = LastCmd(p, t0, k - 1),
              !.cmds    = [t \in DOMAIN @ \ (t0 .. k - 1) |-> @[t]]]]

\* The sockets a bundle goes to: the slots' and the spectators', those open.
Reads(pl, c) == c \in spectators \/ \E s \in Slots : pl[s].ws = c
Receives(pl, cl, c) == cl[c].sock = "open" /\ Reads(pl, c)

SendTo(pl, cl, snt, t0, k) ==
  [c \in Clients |-> IF Receives(pl, cl, c) THEN snt[c] \cup (t0 .. k - 1)
                     ELSE snt[c]]

Sealed(pl, t0, k) == [t \in t0 .. k - 1 |-> Bundle(pl, t0, t)]
Nothing == [t \in {} |-> Blank]

\* seal() run on the players pl, from the current tic: the message handler.
Seal(pl) ==
  \E k \in tic .. MaxTic :
    /\ SealStops(pl, tic, k)
    /\ players' = AfterSeal(pl, tic, k)
    /\ tic' = k
    /\ cast' = Sealed(pl, tic, k)
    /\ sent' = SendTo(pl, client, sent, tic, k)

-----------------------------------------------------------------------------
NewPlayer(s) ==
  [ws |-> NoClient, token |-> NoClient,
   joined |-> s \notin Seats, ingame |-> s \in Seats, joining |-> FALSE,
   reservedAge |-> NotHeld, joinAt |-> NotScheduled, sentAny |-> FALSE,
   seenAge |-> 0, heardAge |-> Grace + 1, quiet |-> 0, silent |-> FALSE,
   cmds |-> Nothing, last |-> Blank]

\* startGame has just made the session; its countdown runs.  A client that is
\* not one of the lobby's members arrives later, on /ws/lobby or /ws/spectate.
Init ==
  /\ players = [s \in Slots |-> NewPlayer(s)]
  /\ tic = 0
  /\ cast = Nothing
  /\ spectators = {}
  /\ launchAge = NotLaunched
  /\ over = FALSE
  /\ client = [c \in Clients |->
       IF \E s \in Seats : Owner[s] = c
       THEN [lobby |-> "seat", at |-> CHOOSE s \in Seats : Owner[s] = c, sock |-> "none"]
       ELSE [lobby |-> "observer", at |-> NoClient, sock |-> "none"]]
  /\ sent = [c \in Clients |-> {}]

\* The sockets closed by the server go through the closing handshake.
Closing(cl, C) ==
  [c \in Clients |-> IF c \in C /\ cl[c].sock = "open"
                     THEN [cl[c] EXCEPT !.sock = "closing"] ELSE cl[c]]

\* The countdown's last tick: the members still in the lobby get the token of
\* their seat, and the sweep starts.  lastSweep = now: whoever was heard during
\* the countdown was heard before it.
Launch ==
  /\ ~ over /\ launchAge = NotLaunched
  /\ launchAge' = 0
  /\ \E S \in SUBSET Seats :
       players' = [s \in Slots |->
         [players[s] EXCEPT !.token = IF s \in S THEN Owner[s] ELSE @,
                            !.heardAge = AtMost(@ + 1, Grace + 1)]]
  /\ cast' = Nothing
  /\ UNCHANGED <<tic, spectators, over, client, sent>>

\* `join` on a lobby socket that observes the game: the slot asked for, or the
\* first free one, which is any free slot.
Reserve(c) ==
  /\ ~ over /\ client[c].lobby = "observer"
  /\ \E s \in Slots :
       /\ Free(s)
       /\ players' = [players EXCEPT ![s].token = c, ![s].joining = TRUE,
                                     ![s].reservedAge = 0]
       /\ client' = [client EXCEPT ![c].lobby = "holder", ![c].at = s]
  /\ cast' = Nothing
  /\ UNCHANGED <<tic, spectators, launchAge, over, sent>>

\* The lobby socket of a reservation closes; the reservation goes with it only
\* while it is still this socket's.
ReservationIsStill(c) ==
  /\ ~ over
  /\ players[client[c].at].token = c
  /\ ~ players[client[c].at].ingame
  /\ players[client[c].at].ws = NoClient

LeaveLobby(c) ==
  /\ client[c].lobby = "holder"
  /\ client' = [client EXCEPT ![c].lobby = "gone"]
  /\ players' = IF ReservationIsStill(c)
                THEN [players EXCEPT ![client[c].at].joining = FALSE,
                                     ![client[c].at].reservedAge = NotHeld,
                                     ![client[c].at].token = NoClient]
                ELSE players
  /\ cast' = Nothing
  /\ UNCHANGED <<tic, spectators, launchAge, over, sent>>

\* relayConnect with the slot's current token.  Bound(p) is what every bind
\* does; a slot that is not in the game is a drop-in's, and gets the history.
Bound(p, c) == [p EXCEPT !.ws = c, !.joined = TRUE, !.seenAge = 0, !.heardAge = 0,
                         !.quiet = 0, !.silent = FALSE]
Unbound(p) == [p EXCEPT !.ws = NoClient, !.joined = FALSE]

MayBind(c) ==
  /\ ~ over /\ client[c].sock = "none" /\ client[c].at \in Slots
  /\ players[client[c].at].ws = NoClient
  /\ players[client[c].at].token = c

BindSeat(c) ==
  /\ MayBind(c)
  /\ players[client[c].at].ingame
  /\ players' = [players EXCEPT ![client[c].at] = Bound(@, c)]
  /\ client' = [client EXCEPT ![c].sock = "open"]
  /\ cast' = Nothing
  /\ UNCHANGED <<tic, spectators, launchAge, over, sent>>

BindDropIn(c) ==
  LET s == client[c].at
      p == Bound(players[s], c)
  IN
  /\ MayBind(c)
  /\ ~ players[s].ingame
  /\ \/ /\ HistoryFull                      \* refused: the history is a prefix
        /\ players' = [players EXCEPT ![s] = Unbound(p)]
        /\ UNCHANGED <<client, sent>>
     \/ /\ ~ HistoryFull                    \* the burst went through
        /\ players' = [players EXCEPT ![s] =
             [p EXCEPT !.joining = TRUE,
                       !.reservedAge = IF @ = NotHeld THEN 0 ELSE @]]
        /\ client' = [client EXCEPT ![c].sock = "open"]
        /\ sent' = [sent EXCEPT ![c] = History]
     \/ /\ ~ HistoryFull                    \* not reading: refused mid-burst
        /\ tic > 0
        /\ players' = [players EXCEPT ![s] =
             [Unbound(p) EXCEPT !.joining = FALSE, !.reservedAge = NotHeld,
                                !.token = NoClient]]
        /\ client' = [client EXCEPT ![c].sock = "closed"]
        /\ UNCHANGED sent
  /\ cast' = Nothing
  /\ UNCHANGED <<tic, spectators, launchAge, over>>

\* A well-formed frame from a socket that still holds its slot.  One for a tic
\* outside the window is heard and otherwise ignored.
Heard_LiveToo(p) ==
  [p EXCEPT !.sentAny = TRUE, !.heardAge = 0, !.quiet = 0, !.silent = FALSE,
            !.joinAt = IF p.joining /\ @ = NotScheduled THEN tic + JoinMargin ELSE @]
Heard(p) ==
  [p EXCEPT !.sentAny = TRUE, !.heardAge = 0, !.quiet = 0, !.silent = FALSE,
            !.joinAt = IF p.joining /\ ~ p.ingame /\ @ = NotScheduled
                       THEN tic + JoinMargin ELSE @]

Store_AnyTicIsProgress(p, t, cmd) ==
  [p EXCEPT !.cmds = [u \in DOMAIN @ \cup {t} |-> IF u = t THEN cmd ELSE @[u]],
            !.seenAge = 0]
Store(p, t, cmd) ==
  LET cmds == [u \in DOMAIN p.cmds \cup {t} |-> IF u = t THEN cmd ELSE p.cmds[u]] IN
  [p EXCEPT !.cmds = cmds, !.seenAge = IF tic \in DOMAIN cmds THEN 0 ELSE @]

Frame(c) ==
  LET s == client[c].at IN
  /\ tic < MaxTic
  /\ client[c].sock \in {"open", "closing"} /\ Mine(c)
  /\ \E t \in Tics, ev \in Events :
       IF t < tic \/ t > tic + Window
       THEN /\ players' = [players EXCEPT ![s] = Heard(@)]
            /\ cast' = Nothing
            /\ UNCHANGED <<tic, sent>>
       ELSE Seal([players EXCEPT ![s] = Store(Heard(@), t, [by |-> c, ev |-> ev])])
  /\ UNCHANGED <<spectators, launchAge, over, client>>

\* refuse() on a bound or spectating socket: a flood of frames (rateOk), or a
\* backlog past SEND_BACKLOG_CAP (sendTo).  It is terminated: nothing more is
\* sent to it or read from it, and its 'close' event follows.
Refuse(c) ==
  /\ client[c].sock = "open"
  /\ client' = [client EXCEPT ![c].sock = "dead"]
  /\ cast' = Nothing
  /\ UNCHANGED <<players, tic, spectators, launchAge, over, sent>>

\* The 'close' event of a game or spectator socket, whoever closed it.
Left_StillScheduled(p) ==
  [p EXCEPT !.ws = NoClient, !.token = NoClient, !.ingame = FALSE, !.joining = FALSE]
Left_OtherSentinel(p) ==
  [p EXCEPT !.ws = NoClient, !.token = NoClient, !.ingame = FALSE,
            !.joining = FALSE, !.joinAt = NotHeld]
Left(p) == [p EXCEPT !.ws = NoClient, !.token = NoClient, !.ingame = FALSE,
                     !.joining = FALSE, !.joinAt = NotScheduled]

Close(c) ==
  LET closed == [client EXCEPT ![c].sock = "closed"]
      left   == [players EXCEPT ![client[c].at] = Left(@)]
  IN
  /\ client[c].sock \in {"open", "closing", "dead"}
  /\ players' = IF Mine(c) THEN left ELSE players
  /\ spectators' = spectators \ {c}
  /\ over' = (over \/ (Mine(c) /\ Live(left) = {}))
  /\ client' = IF over' /\ ~ over
               THEN Closing(closed, {d \in Clients : Reads(left, d)})
               ELSE closed
  /\ cast' = Nothing
  /\ UNCHANGED <<tic, launchAge, sent>>

Spectate(c) ==
  /\ ~ over /\ client[c].lobby = "observer"
  /\ ~ HistoryFull
  /\ Cardinality(spectators) < MaxSpectators
  /\ spectators' = spectators \cup {c}
  /\ client' = [client EXCEPT ![c].lobby = "spectator", ![c].sock = "open"]
  /\ sent' = [sent EXCEPT ![c] = History]
  /\ cast' = Nothing
  /\ UNCHANGED <<players, tic, launchAge, over>>

-----------------------------------------------------------------------------
(* The sweep, in the order sealSweep takes it.                             *)

Aged(p, d) ==
  [p EXCEPT !.reservedAge = IF @ = NotHeld THEN @ ELSE AtMost(@ + d, JoinTimeout + 1),
            !.seenAge  = AtMost(@ + d, Drop + 1),
            !.heardAge = AtMost(@ + d, Grace + 1)]

\* A reservation that never went live is freed; a stalled joiner is closed.
TimedOut_Unbound(p) == /\ p.joining /\ ~ p.ingame /\ p.ws = NoClient
                       /\ p.reservedAge > JoinTimeout
TimedOut(p) == p.joining /\ ~ p.ingame /\ p.reservedAge > JoinTimeout

Reclaim_KeepsSocket(p) ==
  IF ~ TimedOut(p) THEN p
  ELSE [p EXCEPT !.joining = FALSE, !.reservedAge = NotHeld,
                 !.joinAt = NotScheduled, !.token = NoClient]
Reclaim(p) ==
  IF ~ TimedOut(p) THEN p
  ELSE [p EXCEPT !.joining = FALSE, !.reservedAge = NotHeld,
                 !.joinAt = NotScheduled, !.ws = NoClient,
                 !.token = IF p.ws = NoClient THEN @ ELSE NoClient]

\* A seat nobody connected to cannot hold the launch for ever.
Absent(p, age) == IF age > NeverJoined /\ ~ p.joined
                  THEN [p EXCEPT !.ingame = FALSE] ELSE p

\* Nothing is fabricated until every live player has sent something.
Rolling_AtOnce(pl, age) == TRUE
Rolling(pl, age) == (\A s \in Live(pl) : pl[s].sentAny) \/ age >= NeverJoined

\* Heard since the sweep before: a frame or a bind came after its ageing.
HeardSince(s) == players[s].heardAge = 0

Silence(pl) ==
  LET heard == {q \in Live(pl) : HeardSince(q)} IN
  [s \in Slots |->
    LET p == pl[s] IN
    IF p.ingame /\ p.sentAny /\ ~ HeardSince(s) /\ heard # {}
    THEN [p EXCEPT !.quiet = AtMost(@ + 1, QuietSweeps),
                   !.silent = @ \/ (p.quiet + 1 >= QuietSweeps /\ p.heardAge > Grace)]
    ELSE p]

Laggards(pl, t) == {s \in Live(pl) : t \notin DOMAIN pl[s].cmds}
ToDrop(pl, t) == {s \in Laggards(pl, t) : pl[s].seenAge > Drop}
Dropped(pl, t) ==
  LET gone == ToDrop(pl, t) IN
  [s \in Slots |-> IF s \in gone THEN [pl[s] EXCEPT !.ingame = FALSE] ELSE pl[s]]
\* Someone's next cmd is in flight: the sweep does not fabricate.
InFlight_Ignored(pl, t) == FALSE
InFlight(pl, t) == \E s \in Laggards(pl, t) : pl[s].seenAge < Grace

\* seal(), the drops, then one forced sealTic and seal() again: k1 is where the
\* first seal stops, k2 where the second does.
SweepSeal(pl, cl) ==
  \E k1 \in tic .. MaxTic :
    LET p1 == AfterSeal(pl, tic, k1)
        p2 == Dropped(p1, k1)
        c2 == Closing(cl, {p1[s].ws : s \in ToDrop(p1, k1)})
        b1 == Sealed(pl, tic, k1)
        n1 == SendTo(pl, cl, sent, tic, k1)
    IN
    /\ SealStops(pl, tic, k1)
    /\ \/ /\ k1 = MaxTic \/ Laggards(p1, k1) = {}
          /\ players' = p1 /\ client' = cl
          /\ tic' = k1 /\ cast' = b1 /\ sent' = n1
       \/ /\ k1 < MaxTic /\ Laggards(p1, k1) # {} /\ InFlight(p2, k1)
          /\ players' = p2 /\ client' = c2
          /\ tic' = k1 /\ cast' = b1 /\ sent' = n1
       \/ /\ k1 < MaxTic /\ Laggards(p1, k1) # {} /\ ~ InFlight(p2, k1)
          /\ \E k2 \in k1 + 1 .. MaxTic :
               LET p3 == AfterSeal(p2, k1, k1 + 1) IN
               /\ SealStops(p3, k1 + 1, k2)
               /\ players' = AfterSeal(p3, k1 + 1, k2)
               /\ client' = c2
               /\ tic' = k2
               /\ cast' = [t \in tic .. k2 - 1 |->
                             CASE t < k1 -> b1[t]
                               [] t = k1 -> Bundle(p2, k1, t)
                               [] t > k1 -> Bundle(p3, k1 + 1, t)]
               /\ sent' = SendTo(p2, c2, n1, k1, k2)

Sweep(d) ==
  LET age  == AtMost(launchAge + d, NeverJoined + 1)
      late == {s \in Slots : TimedOut(Aged(players[s], d))}
      cl   == Closing(client, {players[s].ws : s \in late})
      pl   == [s \in Slots |-> Absent(Reclaim(Aged(players[s], d)), age)]
  IN
  /\ ~ over /\ launchAge # NotLaunched
  /\ launchAge' = age
  /\ \/ /\ Live(pl) = {}
        /\ players' = pl
        /\ over' = TRUE
        /\ client' = Closing(cl, {c \in Clients : Reads(pl, c)})
        /\ cast' = Nothing
        /\ UNCHANGED <<tic, sent>>
     \/ /\ Live(pl) # {}
        /\ ~ (AllJoined(pl) /\ Rolling(pl, age))
        /\ players' = pl
        /\ client' = cl
        /\ cast' = Nothing
        /\ UNCHANGED <<tic, sent, over>>
     \/ /\ Live(pl) # {}
        /\ AllJoined(pl) /\ Rolling(pl, age)
        /\ SweepSeal(Silence(pl), cl)
        /\ UNCHANGED over
  /\ UNCHANGED spectators

SweepStep == \E d \in Gaps : Sweep(d)
ClientStep == \E c \in Clients :
  \/ Reserve(c) \/ LeaveLobby(c) \/ BindSeat(c) \/ BindDropIn(c)
  \/ Frame(c) \/ Refuse(c) \/ Close(c) \/ Spectate(c)

Next == Launch \/ SweepStep \/ ClientStep

Spec == Init /\ [][Next]_vars

-----------------------------------------------------------------------------
(* Properties.                                                             *)

BundleType == [mask : SUBSET Slots, fab : SUBSET Slots, cmd : [Slots -> Cmd]]

TypeOK ==
  /\ players = [s \in Slots |-> players[s]]
  /\ \A s \in Slots : IsPlayer(players[s])
  /\ tic \in 0 .. MaxTic
  /\ IsMap(cast, Tics, BundleType)
  /\ spectators \in SUBSET Clients
  /\ launchAge \in {NotLaunched} \cup Nat
  /\ over \in BOOLEAN
  /\ client \in [Clients -> Client]
  /\ sent \in [Clients -> SUBSET Tics]

\* A socket that is open and holds a slot, or watches, has been sent every tic
\* sealed so far: a drop-in's burst and the live bundles after it leave no gap,
\* past the history cap too, and a launched seat that connects late missed
\* nothing.
StreamWhole ==
  ~ over => \A c \in Clients : Receives(players, client, c) => sent[c] = 0 .. tic - 1

\* A slot's socket is the one its current token was given to, however binds,
\* reservations, timeouts, drops and closes interleave; so no client ever
\* speaks for two slots, and no reservation is given away under a live socket.
HolderHasToken ==
  ~ over => \A s \in Slots : players[s].ws # NoClient =>
              players[s].token = players[s].ws /\ client[players[s].ws].at = s

\* A slot in the game whose seat was ever connected has a socket: no departure
\* (close, timeout, refusal) leaves a ghost the others would wait for.
NoGhost ==
  ~ over => \A s \in Live(players) : players[s].joined => players[s].ws # NoClient

\* A drop-in is scheduled only while its socket holds the slot, ahead of the
\* frontier by at most the margin: it never enters at a tic already sealed.
ScheduledAhead ==
  ~ over => \A s \in Slots : players[s].joinAt # NotScheduled =>
              /\ players[s].ws # NoClient /\ players[s].joining /\ ~ players[s].ingame
              /\ players[s].joinAt \in tic .. tic + JoinMargin

\* A one-tic event (a pause, a savegame, a chat character) is sealed as often
\* as the relay was sent it: a repeated cmd never carries one.
EventsAreSent ==
  \A t \in DOMAIN cast : \A s \in cast[t].fab : ~ cast[t].cmd[s].ev

\* What makes the invariants above inductive, per slot at frontier t.  A
\* socket's slot has its token and counts as joined; a seat still to connect
\* has missed nothing; a fabricated cmd can repeat no event.
SlotInv(p, t) ==
  /\ p.joinAt # NotScheduled =>
       /\ p.ws # NoClient /\ p.joining /\ ~ p.ingame
       /\ t <= p.joinAt /\ p.joinAt <= t + JoinMargin
  /\ p.ingame /\ p.joined => p.ws # NoClient
  /\ p.ingame /\ ~ p.joined => t = 0
  /\ p.ws # NoClient => p.token = p.ws /\ p.joined
  /\ ~ p.last.ev

\* A client speaks for one slot, through one game socket in its life.
Bindings ==
  \A s \in Slots : players[s].ws # NoClient =>
    client[players[s].ws].at = s /\ client[players[s].ws].sock # "none"

Newcomers ==
  \A c \in Clients : /\ client[c].lobby = "observer" =>
                          client[c].sock = "none" /\ client[c].at = NoClient
                     /\ client[c].sock = "none" => sent[c] = {}

\* Seats are in the game and have no token until the countdown ends.
SeatsAwaitLaunch ==
  launchAge = NotLaunched =>
    \A s \in Seats : /\ players[s].ingame
                    /\ players[s].ws = NoClient /\ players[s].token = NoClient

IInv ==
  /\ TypeOK
  /\ \A s \in Slots : SlotInv(players[s], tic)
  /\ Bindings /\ Newcomers /\ SeatsAwaitLaunch
  /\ StreamWhole /\ EventsAreSent

\* A player already live is fabricated only when it is silent, or has filled
\* no tic for the grace: a cmd that is merely in flight is waited for, by the
\* seal and by the sweep.  (A player that owed a tic and had sent later ones
\* fills those in the same step.)
AlreadyLive(s, t) == IF t = tic THEN players[s].ingame ELSE s \in cast'[t - 1].mask

FabricationIsEarned ==
  [][\A t \in DOMAIN cast' : \A s \in cast'[t].mask \cap cast'[t].fab :
       AlreadyLive(s, t) =>
         \/ players'[s].silent
         \/ players'[s].seenAge >= Grace
         \/ \E u \in DOMAIN cast' : u > t /\ s \notin cast'[u].fab]_vars

\* No tic is sealed while a launched seat is still to connect, and none is
\* fabricated for a player that has sent nothing before the launch grace ends.
NobodyLeftAtStart ==
  [][\A t \in DOMAIN cast' :
       /\ AllJoined(players')
       /\ (\E s \in cast'[t].mask \cap cast'[t].fab : ~ players'[s].sentAny)
            => launchAge' >= NeverJoined]_vars

\* What game.js:9 and netcode.md:55 say of a sealed cmd: a live slot's is its
\* player's own, or repeats its player's last.
SealedCmdIsPlayers ==
  [][\A t \in DOMAIN cast' : \A s \in cast'[t].mask :
       cast'[t].cmd[s].by \in {NoClient, players'[s].ws}]_vars

\* What game.js:10 says of a dropped player: it is out.  Its socket is being
\* closed and brings no slot back into the game.
DroppedIsOut ==
  [][\A s \in Slots : ~ players[s].ingame /\ players'[s].ingame =>
       client[players[s].ws].sock # "closing"]_vars
=============================================================================
