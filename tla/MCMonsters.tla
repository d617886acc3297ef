----------------------------- MODULE MCMonsters ------------------------------
(* Levels for Monsters: which monsters, how many mobjs there is room for, and *)
(* what kind of game.  Every kind is in one of them, alone or with one that   *)
(* fights it, raises it or is the other boss.                                 *)
EXTENDS Integers, Sequences

Level(things, room) ==
  [things |-> things, room |-> room, mode |-> "commercial", episode |-> 1, map |-> 1,
   netgame |-> FALSE, respawn |-> FALSE]
Boss(things, room, episode, map) ==
  [Level(things, room) EXCEPT !.mode = "registered", !.episode = episode, !.map = map]

MCScenes ==
  {Level(<<"MT_POSSESSED", "MT_BARREL">>, 2), Level(<<"MT_SERGEANT">>, 1), Level(<<"MT_SHADOWS">>, 1),
   Level(<<"MT_SHOTGUY">>, 1), Level(<<"MT_CHAINGUY">>, 1), Level(<<"MT_WOLFSS">>, 1),
   Level(<<"MT_TROOP">>, 2), Level(<<"MT_HEAD">>, 2), Level(<<"MT_UNDEAD">>, 2),
   Level(<<"MT_PAIN">>, 2), Level(<<"MT_SKULL">>, 1), Level(<<"MT_VILE">>, 2),
   [Level(<<"MT_KNIGHT">>, 2) EXCEPT !.netgame = TRUE, !.respawn = TRUE],
   [Level(<<"MT_KEEN", "MT_KEEN">>, 3) EXCEPT !.map = 32, !.respawn = TRUE],
   [Level(<<"MT_BABY">>, 2) EXCEPT !.map = 7], [Level(<<"MT_FATSO">>, 3) EXCEPT !.map = 7],
   [Level(<<"MT_BOSSBRAIN">>, 1) EXCEPT !.map = 30],
   Boss(<<"MT_BRUISER", "MT_VILE">>, 2, 1, 8),
   Boss(<<"MT_CYBORG", "MT_CYBORG">>, 2, 2, 8), Boss(<<"MT_CYBORG">>, 1, 4, 6), Boss(<<"MT_CYBORG">>, 2, 4, 7),
   Boss(<<"MT_SPIDER">>, 1, 3, 8), Boss(<<"MT_SPIDER">>, 1, 4, 8), Boss(<<"MT_BRUISER">>, 2, 5, 8)}
=============================================================================
