------------------------------ MODULE Launcher ------------------------------
(***************************************************************************)
(* One browser tab: the launcher (client/js/lobby.js over menu.js and      *)
(* countdown.js), its lobby connections (net.js connectLobby) and the      *)
(* sessions it boots (main.js bootDoom and endSession).                    *)
(*                                                                         *)
(* The state machine is the one docs/state-machine.md draws, but here the  *)
(* handlers that await (a launch and its pings, a boot) stay pending while *)
(* the user and the sockets go on.  The server is what it may send on a    *)
(* connection, given what it sent before; the network is when.  Picking a  *)
(* value, a name or a colour changes nothing that is kept here.            *)
(*                                                                         *)
(* A definition named X_Y is X with a plausible bug in it.                 *)
(***************************************************************************)
EXTENDS Naturals, FiniteSets

CONSTANTS
  Conns,        \* bound: the lobby connections the tab opens
  Games,        \* bound: the games it enters
  Pings,        \* bound: the 12 pings between a launch and its boot
  None

ASSUME LauncherAssumption == None \notin Conns \cup Games /\ Pings \in Nat \ {0}

VARIABLES
  booted,       \* lobby.js's booted; the menu is hidden meanwhile
  lobby,        \* lobby.js's lobby, a connection or None
  screen,       \* the top of the menu's stack
  overlay,      \* the countdown: "hidden", "shown" or "melting"
  conn,         \* connection -> "unused", "connecting", "seat", "observer",
                \* "closing" (its close event is to come) or "closed"
  asked,        \* the observers that sent a join
  launches,     \* the launch handlers that await: [conn, join, left]
  entry,        \* game -> [phase, kind, conn, slot]: the connection whose
                \* launch began it and the one whose slot it takes
  released,     \* the games whose endSession has run
  active,       \* main.js's activeEndSession, a game or None
  canvas        \* the game's canvas shows

launcherVars ==
  <<booted, lobby, screen, overlay, conn, asked, launches, entry, released, active, canvas>>

Screens == {"root", "sp", "connecting", "lobby", "picker", "inprogress"}
Open == {c \in Conns : conn[c] \in {"connecting", "seat", "observer"}}
NoBoot == [phase |-> "none", kind |-> "sp", conn |-> None, slot |-> None]
Phases == {"none", "loading", "catchup", "running", "over"}

LauncherInit ==
  /\ booted = FALSE /\ lobby = None /\ screen = "root" /\ overlay = "hidden"
  /\ conn = [c \in Conns |-> "unused"] /\ asked = {} /\ launches = {}
  /\ entry = [b \in Games |-> NoBoot] /\ released = {} /\ active = None /\ canvas = FALSE

-----------------------------------------------------------------------------
(* What the handlers call.                                                 *)

Closed(cs, c) == IF c # None /\ cs[c] # "closed" THEN [cs EXCEPT ![c] = "closing"] ELSE cs

\* resetToLauncher: it ends the session, if there is one, and that session's
\* onQuit comes back here and finds nothing to end.
resetToLauncher ==
  /\ released' = released \cup ({active} \ {None})
  /\ active' = None
  /\ canvas' = (canvas /\ active = None)
  /\ booted' = FALSE
  /\ lobby' = None
  /\ conn' = Closed(conn, lobby)
  /\ overlay' = "hidden"
  /\ screen' = "root"

\* endSession of b, whose onQuit is resetToLauncher.
endSession(b) ==
  IF b \in released
  THEN UNCHANGED <<released, active, canvas, booted, lobby, conn, overlay, screen>>
  ELSE /\ released' = released \cup {b}
       /\ active' = None
       /\ canvas' = FALSE
       /\ booted' = FALSE /\ lobby' = None /\ conn' = Closed(conn, lobby)
       /\ overlay' = "hidden" /\ screen' = "root"

\* enterGame, up to bootDoom's first await.
enterGame_Again(kind, c, slot) ==
  \E b \in Games :
    /\ entry[b] = NoBoot
    /\ booted' = TRUE
    /\ entry' = [entry EXCEPT ![b] = [phase |-> "loading", kind |-> kind, conn |-> c, slot |-> slot]]
    /\ active' = b
    /\ canvas' = TRUE
enterGame(kind, c, slot) ==
  IF booted
  THEN UNCHANGED <<booted, entry, active, canvas>>
  ELSE \E b \in Games :
         /\ entry[b] = NoBoot
         /\ booted' = TRUE
         /\ entry' = [entry EXCEPT ![b] = [phase |-> "loading", kind |-> kind, conn |-> c, slot |-> slot]]
         /\ active' = b
         /\ canvas' = TRUE

Unbooted == UNCHANGED <<entry, asked, launches>>

-----------------------------------------------------------------------------
(* The user, while the menu shows.                                         *)

SinglePlayer ==
  /\ ~ booted /\ screen = "root"
  /\ screen' = "sp"
  /\ UNCHANGED <<booted, lobby, overlay, conn, released, active, canvas>> /\ Unbooted

PickGame ==
  /\ ~ booted /\ screen = "sp"
  /\ enterGame("sp", None, None)
  /\ UNCHANGED <<lobby, screen, overlay, conn, asked, launches, released>>

\* MULTIPLAYER; a stale handle would be reset first, but there is none at the
\* root (NoSeatUnseen).
enterMultiplayer ==
  /\ ~ booted /\ screen = "root" /\ lobby = None
  /\ \E c \in Conns :
       /\ conn[c] = "unused"
       /\ lobby' = c
       /\ conn' = [conn EXCEPT ![c] = "connecting"]
  /\ screen' = "connecting"
  /\ UNCHANGED <<booted, overlay, released, active, canvas>> /\ Unbooted

\* GAME, MAP and RULES, and their way back.
Picker ==
  /\ ~ booted /\ screen \in {"lobby", "picker"}
  /\ screen' = IF screen = "lobby" THEN "picker" ELSE "lobby"
  /\ UNCHANGED <<booted, lobby, overlay, conn, released, active, canvas>> /\ Unbooted

\* ESC: onBack is toLauncher on the screens of a connection.
Back ==
  /\ ~ booted /\ screen \in {"sp", "connecting", "lobby", "inprogress"}
  /\ Unbooted
  /\ IF screen = "sp"
     THEN screen' = "root" /\ UNCHANGED <<booted, lobby, overlay, conn, released, active, canvas>>
     ELSE resetToLauncher

DropIn ==
  /\ ~ booted /\ screen = "inprogress" /\ lobby # None
  /\ asked' = asked \cup {lobby}
  /\ UNCHANGED <<booted, lobby, screen, overlay, conn, launches, entry, released, active, canvas>>

Spectate ==
  /\ ~ booted /\ screen = "inprogress"
  /\ enterGame("spectate", lobby, None)
  /\ UNCHANGED <<lobby, screen, overlay, conn, asked, launches, released>>

-----------------------------------------------------------------------------
(* The lobby connections.  A closing socket delivers nothing but its close.*)

\* The server's first message: "roster" for a seat, "inprogress" for an
\* observer.
Answered(c) ==
  /\ conn[c] = "connecting"
  /\ \E role \in {"seat", "observer"} :
       /\ conn' = [conn EXCEPT ![c] = role]
       /\ screen' = IF screen # "connecting" THEN screen
                    ELSE IF role = "seat" THEN "lobby" ELSE "inprogress"
  /\ UNCHANGED <<booted, lobby, overlay, released, active, canvas>> /\ Unbooted

\* "full": no place, no slot, or the game is over.
Full(c) ==
  /\ conn[c] = "connecting" \/ (c \in asked /\ conn[c] = "observer")
  /\ Unbooted
  /\ IF booted
     THEN UNCHANGED <<booted, lobby, screen, overlay, conn, released, active, canvas>>
     ELSE resetToLauncher

CountdownShown(c) ==
  /\ conn[c] = "seat"
  /\ overlay' = IF booted THEN overlay ELSE "shown"
  /\ UNCHANGED <<booted, lobby, screen, conn, released, active, canvas>> /\ Unbooted

\* "launch", up to the first await; good: its params can be played.  The
\* server launches a seat, or an observer who asked.
\* bound: one handler of a connection at a time
Launch(c, good) ==
  /\ conn[c] = "seat" \/ (conn[c] = "observer" /\ c \in asked)
  /\ ~ \E h \in launches : h.conn = c
  /\ UNCHANGED <<entry, asked>>
  /\ IF booted
     THEN UNCHANGED <<booted, lobby, screen, overlay, conn, launches, released, active, canvas>>
     ELSE IF ~ good
     THEN resetToLauncher /\ UNCHANGED launches
     ELSE /\ overlay' = IF conn[c] = "seat" THEN "shown" ELSE overlay
          /\ launches' = launches \cup {[conn |-> c, join |-> conn[c] = "observer", left |-> Pings]}
          /\ UNCHANGED <<booted, lobby, screen, conn, released, active, canvas>>

\* A ping is answered or given up: the next goes to whatever lobby is now,
\* and a null lobby ends the handler with a TypeError.
Ponged_OneMore(h) ==
  /\ launches' = (launches \ {h}) \cup IF lobby = None THEN {} ELSE {[h EXCEPT !.left = h.left - 1]}
  /\ UNCHANGED <<booted, lobby, screen, overlay, conn, asked, entry, released, active, canvas>>
Ponged(h) ==
  /\ h.left > 1
  /\ launches' = (launches \ {h}) \cup IF lobby = None THEN {} ELSE {[h EXCEPT !.left = h.left - 1]}
  /\ UNCHANGED <<booted, lobby, screen, overlay, conn, asked, entry, released, active, canvas>>

\* The last ping: the game is entered with the launch's token and lobby.slot.
LastPing(h) ==
  /\ h.left = 1
  /\ launches' = launches \ {h}
  /\ IF lobby = None
     THEN UNCHANGED <<booted, entry, active, canvas>>
     ELSE enterGame(IF h.join THEN "join" ELSE "player", h.conn, lobby)
  /\ UNCHANGED <<lobby, screen, overlay, conn, asked, released>>

\* The socket's close event, after close() or a lost connection.
SocketCloses(c) ==
  /\ conn[c] \in {"closing"} \cup {"connecting", "seat", "observer"}
  /\ Unbooted
  /\ IF ~ booted /\ lobby # None
     THEN \* 'lobby connection lost'
          /\ released' = released \cup ({active} \ {None}) /\ active' = None
          /\ canvas' = (canvas /\ active = None)
          /\ booted' = FALSE /\ lobby' = None /\ overlay' = "hidden" /\ screen' = "root"
          /\ conn' = [Closed(conn, lobby) EXCEPT ![c] = "closed"]
     ELSE /\ conn' = [conn EXCEPT ![c] = "closed"]
          /\ UNCHANGED <<booted, lobby, screen, overlay, released, active, canvas>>

\* The melted countdown is taken down, by its last frame or after 2.5 s.
Melted ==
  /\ overlay = "melting" /\ overlay' = "hidden"
  /\ UNCHANGED <<booted, lobby, screen, conn, released, active, canvas>> /\ Unbooted

-----------------------------------------------------------------------------
(* The boots.                                                              *)

Phase(b, p) == entry' = [entry EXCEPT ![b].phase = p]

\* enterGame's after: a player's countdown goes, and the lobby's socket.
Arrived(b) ==
  /\ Phase(b, "running")
  /\ overlay' = IF entry[b].kind \in {"player", "join"} /\ overlay = "shown" THEN "melting" ELSE overlay
  /\ conn' = IF entry[b].kind = "sp" THEN conn ELSE Closed(conn, lobby)
  /\ UNCHANGED <<booted, lobby, screen, released, active, canvas>>

\* The engine and the WADs are loaded: callMain, and the relay goes live or
\* begins to catch up.  If the launcher took over, nothing is started.
Loaded(b) ==
  /\ entry[b].phase = "loading"
  /\ UNCHANGED <<asked, launches>>
  /\ IF b \in released
     THEN Phase(b, "over")
          /\ UNCHANGED <<booted, lobby, screen, overlay, conn, released, active, canvas>>
     ELSE IF entry[b].kind \in {"join", "spectate"}
     THEN Phase(b, "catchup")
          /\ UNCHANGED <<booted, lobby, screen, overlay, conn, released, active, canvas>>
     ELSE Arrived(b)

BootCaughtUp(b) ==
  /\ entry[b].phase = "catchup" /\ b \notin released
  /\ Arrived(b)
  /\ UNCHANGED <<asked, launches>>

\* A boot fails: a fetch, the engine's registry, an I_Error in callMain, a
\* catch-up.  The rejection ends in enterGame's catch.  A catch-up whose
\* session has ended returns null instead.
Fails(b) ==
  /\ entry[b].phase \in {"loading", "catchup"}
  /\ Phase(b, "over")
  /\ UNCHANGED <<asked, launches>>
  /\ IF entry[b].phase = "catchup" /\ b \in released
     THEN UNCHANGED <<booted, lobby, screen, overlay, conn, released, active, canvas>>
     ELSE resetToLauncher

\* Quit Game, an engine error, a throw in the frame loop, a lost relay; a
\* catch-up only loses its relay, and its promise is still to come.
Ends(b) ==
  /\ entry[b].phase \in {"running", "catchup"} /\ b \notin released
  /\ entry' = IF entry[b].phase = "running" THEN [entry EXCEPT ![b].phase = "over"] ELSE entry
  /\ endSession(b)
  /\ UNCHANGED <<asked, launches>>

TabUser == SinglePlayer \/ PickGame \/ enterMultiplayer \/ Picker \/ Back \/ DropIn \/ Spectate

LauncherNext ==
  \/ TabUser \/ Melted
  \/ \E c \in Conns : \/ Answered(c) \/ Full(c) \/ CountdownShown(c) \/ SocketCloses(c)
                      \/ \E good \in BOOLEAN : Launch(c, good)
  \/ \E h \in launches : Ponged(h) \/ LastPing(h)
  \/ \E b \in Games : Loaded(b) \/ BootCaughtUp(b) \/ Fails(b) \/ Ends(b)

LauncherSpec == LauncherInit /\ [][LauncherNext]_launcherVars

-----------------------------------------------------------------------------
LauncherTypeOK ==
  /\ booted \in BOOLEAN /\ canvas \in BOOLEAN
  /\ lobby \in Conns \cup {None} /\ active \in Games \cup {None}
  /\ screen \in Screens /\ overlay \in {"hidden", "shown", "melting"}
  /\ \A c \in Conns : conn[c] \in {"unused", "connecting", "seat", "observer", "closing", "closed"}
  /\ asked \subseteq Conns /\ released \subseteq Games
  /\ launches \subseteq [conn : Conns, join : BOOLEAN, left : 1 .. Pings]
  /\ \A b \in Games : entry[b].phase \in Phases

\* docs/state-machine.md, "States that cannot occur": no second engine, and no
\* engine behind the launcher.  A game that has not been ended is the one
\* endActiveSession can reach, and while the launcher shows there is none.
OneSession ==
  /\ \A b \in Games : entry[b].phase \in {"loading", "catchup", "running"} /\ b \notin released =>
       active = b /\ booted
  /\ canvas = booted

\* What is held is on the screen.  A connection that is open is the one lobby.js
\* holds, and either its screen is up or its game is being entered: no colour
\* slot is held unseen.  A countdown is never left over the root menu, however
\* the lobby was left.
NoSeatUnseen ==
  /\ \A c \in Open : c = lobby /\ (booted \/ screen \notin {"root", "sp"})
  /\ overlay # "hidden" => booted \/ lobby # None

\* A boot's rejection never takes down another game: whatever was left, ended
\* and entered while it was pending.
BootsDoNotCross ==
  [][\A b \in Games : Fails(b) => released' \subseteq released \cup {b}]_launcherVars

\* A tab is one: one engine at most, no seat held behind a menu, and no boot that
\* takes another game down.
TabIsOne == [](OneSession /\ NoSeatUnseen) /\ BootsDoNotCross

\* lobby.js, "a dropped connection; a deliberate leave nulls `lobby` first":
\* the close event of a connection that was left resets nothing.  False: by
\* then MULTIPLAYER may have opened the next one.
LeaveIsNotLoss ==
  [][\A c \in Conns : SocketCloses(c) /\ c # lobby => lobby' = lobby]_launcherVars
=============================================================================
