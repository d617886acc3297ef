-------------------------------- MODULE Game --------------------------------
(***************************************************************************)
(* The flow of a game through engine/core/g_game.c, with d_main.c's title  *)
(* loop, f_finale.c, the menu's entries (m_menu.c), the level cheat        *)
(* (st_stuff.c) and the replays of engine/web/demo.c: which screen runs,   *)
(* which level comes next, what a save holds and what a load, a demo or a  *)
(* new game leaves behind.                                                 *)
(*                                                                         *)
(* Everything is asked for through one variable, gameaction, which the     *)
(* next tic executes: a request replaces the one before it.                *)
(*                                                                         *)
(* The playsim is reduced to what it asks of the game: a player dies,      *)
(* comes back, the level is left.  shift counts how often the monsters'    *)
(* state tics were halved (doubled, below zero).                           *)
(***************************************************************************)
EXTENDS Intermission, FiniteSets, TLC

CONSTANTS
  Boots,        \* how the engine is started and what the user does: records
                \* [commercial, netgame, deathmatch, start, skill, fast, in,
                \*  levels, skills, demos, replays, uses, passes]; demos[seq]
                \* is a page or a demo's header
  Slots,        \* 0 .. MAXPLAYERS - 1; the console player is 0
  SecretExits,  \* the levels with a secret exit, in Doom II (TRUE) and elsewhere
  SwitchExits,  \* the levels left by a switch that works once
  TextTics,     \* how long a finale's text runs
  SkipTics,     \* the 50 tics before a Doom II finale can be skipped
  PageTics,     \* pagetic
  MaxShift      \* bound: no new game is begun when shift is past it

\* What a demo's header says.
IsDemo(h) ==
  /\ h.kind = "demo" /\ {h.good, h.deathmatch, h.fast} \subseteq BOOLEAN
  /\ h.in \subseteq Slots /\ h.lev \in Nat \X Nat

ASSUME GameAssumption ==
  /\ 0 \in Slots
  /\ \A b \in Boots :
       /\ {b.netgame, b.deathmatch, b.fast} \subseteq BOOLEAN
       /\ b.in \subseteq Slots /\ {b.start} \cup b.levels \subseteq Nat \X Nat
       /\ \A h \in b.replays : IsDemo(h)
       /\ LET n == Cardinality(DOMAIN b.demos)
          IN n \in Nat \ {0} /\ DOMAIN b.demos = 0 .. n - 1
       /\ \A s \in DOMAIN b.demos : b.demos[s].kind = "page" \/ IsDemo(b.demos[s])

\* Where the maps' secret exits are, those in the secret levels aside.
ASSUME MapsAssumption ==
  /\ {<<1, 3>>, <<2, 5>>, <<3, 6>>, <<4, 2>>} \subseteq SecretExits[FALSE]
  /\ <<1, 15>> \in SecretExits[TRUE]
  /\ \A b \in Boots : b.commercial \in BOOLEAN

VARIABLES
  boot,         \* how the engine was started
  g,            \* the game
  menu          \* the menu or prompt that is open, of those that ask for something
gameVars == <<boot, g, menu>>

NoFile == [kind |-> "none"]
BadFile == [kind |-> "bad"]       \* a savegame of another version
NoTables == [kind |-> "none"]
Title == <<0, 0>>
States == {"level", "intermission", "finale", "demoscreen"}
Menus == {"new", "load", "save", "end"}
Actions == {"nothing", "loadlevel", "newgame", "loadgame", "savegame", "playdemo",
            "completed", "victory", "worlddone"}

\* The level after the secret one of an episode.
AfterSecret_OffByOne(e, old) == CASE e = 1 -> 4 [] e = 2 -> 5 [] e = 3 -> 7 [] e = 4 -> 3 [] OTHER -> old
AfterSecret(e, old) == CASE e = 1 -> 4 [] e = 2 -> 6 [] e = 3 -> 7 [] e = 4 -> 3 [] OTHER -> old

\* wminfo.next + 1 after a level was left; without a case it stays what it was.
NextMap(commercial, lev, secret, old) ==
  LET m == lev[2] IN
  IF commercial
  THEN CASE secret /\ m = 15 -> 31
         [] secret /\ m = 31 -> 32
         [] secret /\ m \notin {15, 31} -> old
         [] ~ secret /\ m \in {31, 32} -> 16
         [] OTHER -> m + 1
  ELSE CASE secret -> 9
         [] ~ secret /\ m = 9 -> AfterSecret(lev[1], old)
         [] OTHER -> m + 1

\* What D_DoomMain starts from.
Idle ==
  [state |-> "demoscreen", action |-> "nothing", lev |-> Title, next |-> 1, secretexit |-> FALSE,
   ps |-> [p \in Slots |-> "live"], paused |-> FALSE, sendsave |-> FALSE, cmd |-> "none",
   spent |-> FALSE, shift |-> 0, skill |-> "easy", usergame |-> FALSE, demo |-> FALSE,
   netdemo |-> FALSE, under |-> FALSE, advance |-> TRUE, seq |-> -1, page |-> 0,
   stage |-> "text", count |-> 0, wi |-> NoIntermission, new |-> [skill |-> "easy", lev |-> Title], tables |-> NoTables,
   hdr |-> NoFile, singletics |-> FALSE, first |-> NoFile, file |-> NoFile,
   netgame |-> FALSE, deathmatch |-> FALSE, fast |-> FALSE, in |-> {}]

-----------------------------------------------------------------------------
(* The actions of g_game.c, on the game's record.                          *)

\* P_SetupLevel spawns every player who is in the game.
G_DoLoadLevel(v) ==
  [v EXCEPT !.state = "level", !.action = "nothing", !.paused = FALSE,
            !.sendsave = FALSE, !.spent = FALSE,
            !.ps = [p \in Slots |-> IF p \in v.in THEN "live" ELSE v.ps[p]]]

\* The tables change when the skill does, and again each time under -fast.
Shift_StaysFast(v, skill) ==
  IF v.fast \/ (skill = "nightmare" /\ v.skill # "nightmare") THEN v.shift + 1 ELSE v.shift
Shift(v, skill) ==
  IF v.fast \/ (skill = "nightmare" /\ v.skill # "nightmare") THEN v.shift + 1
  ELSE IF skill # "nightmare" /\ v.skill = "nightmare" THEN v.shift - 1
  ELSE v.shift

G_InitNew(v, skill, lev) ==
  G_DoLoadLevel([v EXCEPT !.shift = Shift(v, skill), !.skill = skill, !.lev = lev,
                          !.ps = [p \in Slots |-> "reborn"],
                          !.usergame = TRUE, !.demo = FALSE, !.under = FALSE])

\* What G_DoNewGame and G_CheckDemoStatus clear.
Alone(v) ==
  [v EXCEPT !.demo = FALSE, !.netdemo = FALSE, !.netgame = FALSE,
            !.deathmatch = FALSE, !.in = v.in \cap {0}, !.fast = FALSE]

G_DoNewGame(v) == G_InitNew(Alone(v), v.new.skill, v.new.lev)

\* gameskill is set before G_InitNew compares it.  The net flags stay what they
\* are: under, for FlagsAreTrue, keeps that they were a demo's.
G_DoLoadGame(v) ==
  LET f == v.file
      base == G_InitNew([v EXCEPT !.skill = f.skill, !.in = f.in], f.skill, f.lev)
  IN IF f.kind = "bad" THEN [v EXCEPT !.action = "nothing"]
     ELSE [base EXCEPT !.ps = [p \in Slots |-> IF p \in f.in THEN f.ps[p] ELSE base.ps[p]],
                       !.spent = f.spent, !.under = v.netdemo]

G_DoSaveGame(v) ==
  [v EXCEPT !.action = "nothing",
            !.file = [kind |-> "good", skill |-> v.skill, lev |-> v.lev, in |-> v.in,
                      ps |-> v.ps, spent |-> v.spent]]

\* A demo's header over the game: G_DoPlayDemo and begin_replay.
Header(v, h) ==
  [v EXCEPT !.deathmatch = h.deathmatch, !.fast = h.fast, !.in = h.in,
            !.netgame = v.netgame \/ 1 \in h.in, !.netdemo = v.netdemo \/ 1 \in h.in]
Played(v, h) ==
  [G_InitNew(Header(v, h), h.skill, h.lev) EXCEPT !.usergame = FALSE, !.demo = TRUE]

G_DoPlayDemo(v) ==
  LET h == boot.demos[v.seq]
  IN IF h.good THEN Played(v, h) ELSE [v EXCEPT !.action = "nothing"]

Kind(v) == IF v.deathmatch THEN "deathmatch" ELSE IF v.netgame THEN "netgame" ELSE "single"

G_DoCompleted(v, frags) ==
  IF ~ boot.commercial /\ v.lev[2] = 8
  THEN [v EXCEPT !.action = "victory"]
  ELSE [v EXCEPT !.action = "nothing", !.state = "intermission",
                 !.next = NextMap(boot.commercial, v.lev, v.secretexit, v.next),
                 !.wi = WI_Start(Kind(v), frags)]

F_StartFinale(v) ==
  [v EXCEPT !.action = "nothing", !.state = "finale", !.stage = "text", !.count = 0]

G_WorldDone(v) ==
  LET m == v.lev[2]
      story == m \in {6, 11, 20, 30} \/ (m \in {15, 31} /\ v.secretexit)
  IN IF boot.commercial /\ story
     THEN F_StartFinale(v) ELSE [v EXCEPT !.action = "worlddone"]

G_DoWorldDone(v) == G_DoLoadLevel([v EXCEPT !.lev = <<v.lev[1], v.next>>])

\* One pass of G_Ticker's loop over gameaction; no action leads to more than
\* one other.
Act(v, frags) ==
  CASE v.action = "loadlevel" -> G_DoLoadLevel(v)
    [] v.action = "newgame" -> G_DoNewGame(v)
    [] v.action = "loadgame" -> G_DoLoadGame(v)
    [] v.action = "savegame" -> G_DoSaveGame(v)
    [] v.action = "playdemo" -> G_DoPlayDemo(v)
    [] v.action = "completed" -> G_DoCompleted(v, frags)
    [] v.action = "victory" -> F_StartFinale(v)
    [] v.action = "worlddone" -> G_DoWorldDone(v)
    [] OTHER -> v

\* G_DoReborn: alone, the level is loaded again; in a net game the player is
\* spawned at a start.
Reborns(v) ==
  LET asked == {p \in v.in : v.ps[p] = "reborn"}
  IN IF asked = {} THEN v
     ELSE IF v.netgame
          THEN [v EXCEPT !.ps = [p \in Slots |-> IF p \in asked THEN "live" ELSE v.ps[p]]]
          ELSE [v EXCEPT !.action = "loadlevel"]

G_CheckDemoStatus(v) == [Alone(v) EXCEPT !.advance = TRUE]

D_DoAdvanceDemo(v) ==
  LET seq == (v.seq + 1) % Cardinality(DOMAIN boot.demos)
      shown == [v EXCEPT !.ps[0] = "live", !.advance = FALSE, !.usergame = FALSE,
                         !.paused = FALSE, !.seq = seq]
  IN IF boot.demos[seq].kind = "page"
     THEN [shown EXCEPT !.action = "nothing", !.state = "demoscreen", !.page = PageTics]
     ELSE [shown EXCEPT !.action = "playdemo"]

D_PageTicker(v) ==
  [v EXCEPT !.page = IF v.page > 0 THEN v.page - 1 ELSE Endless,
            !.advance = v.advance \/ v.page <= 0]

-----------------------------------------------------------------------------
(* A tic.                                                                  *)

\* apply_roster: who is in a net game at this tic.  A drop-in is reborn.
Roster(v, now) ==
  IF ~ v.netgame \/ v.singletics THEN v
  ELSE [v EXCEPT !.in = now,
                 !.ps = [p \in Slots |-> IF p \in now \ v.in THEN "reborn" ELSE v.ps[p]]]

\* The special buttons of the cmds of this tic.
Cmds(v, late) ==
  IF late THEN v
  ELSE [v EXCEPT !.cmd = "none",
                 !.paused = IF v.cmd = "pause" THEN ~ v.paused ELSE v.paused,
                 !.action = IF v.cmd = "save" THEN "savegame" ELSE v.action]

\* P_Ticker: a player dies or, dead, presses use; the level is left.  A
\* switch is used by somebody alive and is spent, a line may be crossed by
\* the sliding dead.  (That an open menu stops the level, alone and past the
\* level's first tic, is left out: there is only more that may happen.)
P_Ticker(v, who, fate, exit) ==
  LET moved == [v EXCEPT !.ps[who] = CASE fate = "die" -> "dead"
                                       [] fate = "use" -> "reborn"
                                       [] OTHER -> v.ps[who]]
  IN IF v.paused THEN v
     ELSE IF exit = "no" THEN moved
     ELSE [moved EXCEPT !.action = "completed", !.secretexit = (exit = "secret"),
                        !.spent = v.spent \/ v.lev \in SwitchExits]

Fates(v, who) ==
  {"same"} \cup IF v.ps[who] = "live" THEN {"die"} ELSE {"use"}
Exits(v) ==
  LET open == IF v.lev \in SwitchExits
              THEN ~ v.spent /\ \E p \in v.in : v.ps[p] = "live" ELSE TRUE
  IN {"no"} \cup (IF open THEN {"exit"} ELSE {})
            \cup (IF open /\ v.lev \in SecretExits[boot.commercial] THEN {"secret"} ELSE {})

WI_Tick(v, press, passes) ==
  LET wi == WI_Ticker(v.wi, press, boot.commercial, passes)
      u == [v EXCEPT !.wi = wi]
  IN IF WI_Done(v.wi, wi) THEN G_WorldDone(u) ELSE u

F_Ticker(v, press) ==
  LET skip == boot.commercial /\ v.count > SkipTics /\ press
      told == ~ boot.commercial /\ v.stage = "text" /\ v.count + 1 > TextTics
      u == IF ~ skip THEN v
           ELSE IF v.lev[2] = 30 THEN [v EXCEPT !.stage = "cast"]
           ELSE [v EXCEPT !.action = "worlddone"]
  IN IF told THEN [u EXCEPT !.count = 0, !.stage = "picture"]
     ELSE [u EXCEPT !.count = IF v.count > SkipTics + TextTics THEN v.count ELSE v.count + 1]

\* G_Ticker up to the cmds, after the roster and D_DoAdvanceDemo: the set of
\* its one result (a bound value is computed once).
Begun(now, frags) ==
  UNION {UNION {{Act(b, frags) : b \in {Act(r, frags)}} : r \in {Reborns(a)}} :
           a \in {IF u.advance THEN D_DoAdvanceDemo(u) ELSE u : u \in {Roster(g, now)}}}

\* What is set anew before it is read again is forgotten: the counters of a
\* screen that is gone, the request that was taken up.
Settled(v) ==
  [v EXCEPT !.wi = IF v.state = "intermission" THEN v.wi ELSE NoIntermission,
            !.stage = IF v.state = "finale" THEN v.stage ELSE "text",
            !.count = IF v.state = "finale" THEN v.count ELSE 0,
            !.page = IF v.state = "demoscreen" THEN v.page ELSE 0,
            !.new = IF v.action = "newgame" THEN v.new ELSE Idle.new,
            !.secretexit = IF v.state = "level" /\ v.action # "completed"
                           THEN FALSE ELSE v.secretexit]

\* TryRunTics: in a game of one's own only nettics[0] moves on, so the tics
\* stop if another player is in it.  A replay does not ask.
CanRun(v) == boot.netgame \/ v.singletics \/ v.in = {0}

\* G_Ticker's end: the ticker of the screen that runs.
Ticker(d, press) ==
  CASE d.state = "level" ->
         \E who \in d.in : \E fate \in Fates(d, who), exit \in Exits(d) :
           g' = Settled(P_Ticker(d, who, fate, exit))
    [] d.state = "intermission" ->
         \E passes \in boot.passes : g' = Settled(WI_Tick(d, press, passes))
    [] d.state = "finale" -> g' = Settled(F_Ticker(d, press))
    [] d.state = "demoscreen" -> g' = Settled(D_PageTicker(d))

\* over: the demo's data ends here; late: the cmd with the save or the pause
\* is one of a later tic.
Tic(press) ==
  /\ CanRun(g)
  /\ \E now \in IF boot.netgame THEN {r \in SUBSET Slots : 0 \in r} ELSE {g.in},
        frags \in {FALSE} \cup IF g.action = "completed" THEN {g.netgame} ELSE {} :
     \E b \in Begun(now, frags), over \in BOOLEAN, late \in BOOLEAN :
       /\ over => b.demo
       /\ late => b.cmd # "none"
       /\ \E d \in {Cmds(c, late) : c \in {IF over THEN G_CheckDemoStatus(b) ELSE b}} :
            Ticker(d, press)
  /\ UNCHANGED <<boot, menu>>

-----------------------------------------------------------------------------
(* Between two tics: the menu, the cheat and the replays.                  *)

\* A menu or a prompt is opened, and asks what the game is just then; it is left
\* again, or picked from, any number of tics later, when nothing asks any more.
User(use) == use \in boot.uses /\ UNCHANGED boot

May(m) ==
  CASE m = "new" -> ~ (g.netgame /\ ~ g.demo)
    [] m = "load" -> ~ g.netgame /\ g.file # NoFile
    [] m = "save" -> g.usergame /\ g.state = "level"
    [] m = "end" -> g.usergame /\ ~ g.netgame

OpenMenu(m) ==
  /\ User(m) /\ menu = "none" /\ May(m)
  /\ menu' = m
  /\ UNCHANGED g

CloseMenu ==
  /\ menu # "none"
  /\ menu' = "none"
  /\ UNCHANGED <<boot, g>>

Picks(m) == menu = m /\ menu' = "none" /\ User(m)

\* G_DeferedInitNew. bound: MaxShift
DeferNew(skill, lev) ==
  /\ g.shift \in -MaxShift .. MaxShift
  /\ g' = [g EXCEPT !.action = "newgame", !.new = [skill |-> skill, lev |-> lev]]

\* M_ChooseSkill.
NewGame(skill, lev) == Picks("new") /\ DeferNew(skill, lev)

\* The level cheat, typed in a level, in a net game too.  In a demo the keys
\* reach it only while another request waits; Doom II's episode, 0, is refused.
LevelCheat(lev) ==
  /\ User("cheat") /\ ~ boot.commercial
  /\ g.state = "level" /\ (g.demo => g.action # "nothing")
  /\ DeferNew(g.skill, lev)
  /\ UNCHANGED menu

\* M_LoadSelect, of a slot that holds something.
LoadGame ==
  /\ Picks("load") /\ g.file # NoFile
  /\ g' = [g EXCEPT !.action = "loadgame"]

\* M_DoSave. bound: one save
SaveGame ==
  /\ Picks("save") /\ g.file.kind # "good"
  /\ g' = [g EXCEPT !.sendsave = TRUE]

\* G_BuildTiccmd puts the save, or a pause, into a cmd that runs some tics on.
BuildTiccmd ==
  /\ UNCHANGED <<boot, menu>>
  /\ g.cmd = "none"
  /\ \/ g.sendsave /\ g' = [g EXCEPT !.cmd = "save", !.sendsave = FALSE]
     \/ "pause" \in boot.uses /\ g' = [g EXCEPT !.cmd = "pause"]

\* M_EndGameResponse: D_StartTitle.
EndGame ==
  /\ Picks("end")
  /\ g' = [g EXCEPT !.action = "nothing", !.seq = -1, !.advance = TRUE]

\* demo.c's begin_replay, for web_play_demo_buf and web_seek_demo: the tables
\* and gameskill are first put back to what they were at the first replay.
Now(v) == [kind |-> "kept", shift |-> v.shift, skill |-> v.skill]
Kept_Anew(v) == Now(v)
Kept(v) == IF v.tables = NoTables THEN Now(v) ELSE v.tables

begin_replay(v, h) ==
  LET kept == Kept(v)
  IN [Played([v EXCEPT !.shift = kept.shift, !.skill = kept.skill, !.advance = FALSE,
                       !.singletics = TRUE], h)
       EXCEPT !.tables = kept, !.hdr = h]

\* What a start of a replay leaves: all that its tics depend on; first
\* keeps the first start's, for SeekIsFresh.
Fresh(v) ==
  [shift |-> v.shift, skill |-> v.skill, lev |-> v.lev, in |-> v.in, ps |-> v.ps,
   netgame |-> v.netgame, deathmatch |-> v.deathmatch, fast |-> v.fast,
   action |-> v.action, paused |-> v.paused, advance |-> v.advance, demo |-> v.demo]

Replay(h) ==
  /\ User("replay") /\ UNCHANGED menu
  /\ LET v == begin_replay(g, h)
     IN g' = [v EXCEPT !.first = IF g.hdr = h THEN g.first ELSE Fresh(v)]

Seek ==
  /\ User("replay") /\ UNCHANGED menu
  /\ g.hdr # NoFile
  /\ g' = begin_replay(g, g.hdr)

\* D_DoomMain: -warp or a net game start a level, otherwise the title loop.
GameInit ==
  /\ boot \in Boots /\ menu = "none"
  /\ \E f \in {NoFile} \cup IF "load" \in boot.uses THEN {BadFile} ELSE {} :
       LET v == [Idle EXCEPT !.netgame = boot.netgame, !.deathmatch = boot.deathmatch,
                             !.fast = boot.fast, !.in = boot.in, !.file = f]
       IN g = IF boot.start = Title THEN v
              ELSE G_InitNew([v EXCEPT !.advance = FALSE], boot.skill, boot.start)

Menu ==
  \/ \E m \in Menus : OpenMenu(m)
  \/ CloseMenu
  \/ \E skill \in boot.skills, lev \in boot.levels : NewGame(skill, lev)
  \/ \E lev \in boot.levels : LevelCheat(lev)
  \/ LoadGame \/ SaveGame \/ EndGame
  \/ \E h \in boot.replays : Replay(h)
  \/ Seek

GameNext == (\E press \in BOOLEAN : Tic(press)) \/ BuildTiccmd \/ Menu

GameSpec == GameInit /\ [][GameNext]_gameVars

\* Tics run for ever, and somebody presses fire or use again and again: the
\* intermission and a Doom II finale wait for it.
GameFairSpec == GameSpec /\ WF_gameVars(Tic(TRUE))

-----------------------------------------------------------------------------
GameTypeOK ==
  /\ boot \in Boots /\ menu \in Menus \cup {"none"}
  /\ g.state \in States /\ g.action \in Actions
  /\ g.in \subseteq Slots /\ g.ps \in [Slots -> {"live", "dead", "reborn"}]
  /\ g.lev \in Nat \X Nat /\ g.next \in Nat /\ g.shift \in Int
  /\ g.cmd \in {"none", "save", "pause"} /\ g.file.kind \in {"none", "bad", "good"}
  /\ {g.netgame, g.netdemo, g.deathmatch, g.fast, g.demo, g.usergame, g.paused, g.advance,
      g.under, g.spent, g.secretexit, g.sendsave, g.singletics} \subseteq BOOLEAN

\* The tic that takes up G_WorldDone's request.
Leaving ==
  /\ g.state = "intermission" /\ g'.state = "level" /\ g.action = "worlddone"
  /\ ~ g.advance /\ \E press \in BOOLEAN : Tic(press)
SecretMaps == IF boot.commercial THEN {31, 32} ELSE {9}

\* A secret level leads back to the level after the one whose secret exit led
\* to it, in Doom II from either of the two: the switch of G_DoCompleted
\* against the maps, through an intermission that nothing takes away.  (It has
\* no case for episode 5, "SIGIL", whose next level is whatever wminfo.next was.)
RouteReturns ==
  [][Leaving /\ g.lev[2] \in SecretMaps /\ ~ g.secretexit /\ g.lev[1] \in 1 .. 4
       => \E l \in SecretExits[boot.commercial] :
            /\ l[2] \notin SecretMaps /\ (boot.commercial \/ l[1] = g.lev[1])
            /\ g'.lev = <<g.lev[1], l[2] + 1>>]_gameVars

\* netgame is not what it was when the replay first started: a demo of two
\* players sets it, and begin_replay, for a demo of one, does not clear it.
NetLeft == 1 \notin g.hdr.in /\ g.netgame # g.first.netgame

\* web/demo.c: a seek starts the replay from the state its first start had,
\* whatever was replayed, ended, loaded or begun since, -fast included: all of
\* it, but for netgame where it was left on (NetLeft).
SeekIsFresh ==
  [][Seek => \/ Fresh(g') = g.first
             \/ NetLeft /\ [Fresh(g') EXCEPT !.netgame = g.first.netgame] = g.first]_gameVars

\* Nothing can be loaded, and neither -fast nor a demo asks for fast monsters.
NeverFast ==
  /\ "load" \notin boot.uses /\ ~ boot.fast /\ \A h \in boot.replays : ~ h.fast
  /\ \A s \in DOMAIN boot.demos : boot.demos[s].kind = "demo" => ~ boot.demos[s].fast

\* What the rest of the engine asks a session's flags is true of it, over all the
\* games, loads and demos it goes through.  The net flags belong to a session
\* that began as a net game, to a demo that is playing or, where it left them, to
\* a game that was loaded from under it, by a menu opened before it began; a
\* user's game is no demo; and until a game was loaded, or -fast asked for, the
\* monsters are fast exactly in nightmare (g_game.c:1256-1300, 1575-1640;
\* m_menu.c:580-597).
FlagsAreTrue ==
  /\ g.netdemo => g.demo \/ g.under
  /\ g.netgame => boot.netgame \/ g.netdemo
  /\ g.usergame => ~ g.demo
  /\ NeverFast => g.shift = IF g.skill = "nightmare" THEN 1 ELSE 0

\* Every intermission ends, if somebody presses: in a level or a finale.  The
\* exception is a request that replaced its last one (a load that is refused,
\* in the one tic between G_WorldDone and G_DoWorldDone).
IntermissionEnds ==
  g.state = "intermission" ~>
    g.state # "intermission" \/ (g.wi.cnt = Endless /\ "load" \in boot.uses)
=============================================================================
