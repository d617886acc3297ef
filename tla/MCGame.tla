------------------------------- MODULE MCGame -------------------------------
(* Small sessions for Game: a campaign of each kind, a player who saves and  *)
(* loads, the title loop, two players, a deathmatch, the replays.            *)
EXTENDS Integers

AtTitle == <<0, 0>>     \* Game's Title
NeverDone == -1         \* Intermission's Endless
Page == [kind |-> "page"]
Demo(in, fast) == [kind |-> "demo", good |-> TRUE, deathmatch |-> FALSE, fast |-> fast,
                   in |-> in, skill |-> "easy", lev |-> <<1, 7>>]
Loop(h) == [s \in 0 .. 1 |-> IF s = 0 THEN Page ELSE h]

Session == [commercial |-> FALSE, netgame |-> FALSE, deathmatch |-> FALSE, start |-> <<1, 1>>,
            skill |-> "easy", fast |-> FALSE, in |-> {0}, levels |-> {}, skills |-> {"easy"},
            demos |-> Loop(Demo({0}, FALSE)), replays |-> {}, uses |-> {}, passes |-> {0}]

Campaigns == {[Session EXCEPT !.start = s] : s \in {<<1, 2>>, <<2, 4>>, <<3, 6>>, <<4, 2>>}}
DoomII == [Session EXCEPT !.commercial = TRUE, !.start = <<1, 14>>]
Saver == [Session EXCEPT !.start = <<1, 7>>, !.levels = {<<1, 7>>}, !.uses = {"new", "load", "save"},
                         !.passes = {1}]
Pauser == [Saver EXCEPT !.levels = {}, !.uses = {"save", "pause"}]
Titles == [Session EXCEPT !.start = AtTitle, !.levels = {<<1, 8>>}, !.skills = {"easy", "nightmare"},
                          !.uses = {"new", "end"}]
Coop == [Session EXCEPT !.start = <<1, 7>>, !.netgame = TRUE, !.in = {0, 1}]
Deathmatch == [Coop EXCEPT !.deathmatch = TRUE, !.passes = {1, NeverDone}]
Viewer == [Session EXCEPT !.replays = {Demo({0, 1}, TRUE)}, !.levels = {<<1, 7>>},
                          !.skills = {"nightmare"}, !.uses = {"new", "replay"}]

NetTitles == [Viewer EXCEPT !.start = AtTitle, !.demos = Loop(Demo({0, 1}, FALSE)),
                            !.replays = {Demo({0}, FALSE)}, !.uses = {"replay"}]

\* Saves, and loads from under a replay of two players.
Loader == [Saver EXCEPT !.start = <<1, 8>>, !.levels = {}, !.demos = [s \in {0} |-> Page],
                        !.replays = {[Demo({0, 1}, FALSE) EXCEPT !.lev = <<1, 8>>]},
                        !.uses = {"load", "save", "replay"}]
Cheater == [Coop EXCEPT !.levels = {<<1, 8>>}, !.uses = {"cheat"}]

MCBoots == Campaigns \cup {DoomII, Saver, Pauser, Titles, Coop, Deathmatch, Viewer, NetTitles,
                          Loader, Cheater}
MCSecretExits ==
  [doomII \in BOOLEAN |-> IF doomII THEN {<<1, 15>>, <<1, 31>>}
                           ELSE {<<1, 3>>, <<2, 5>>, <<3, 6>>, <<4, 2>>}]
MCSwitchExits == {<<1, 4>>, <<1, 7>>}
=============================================================================
