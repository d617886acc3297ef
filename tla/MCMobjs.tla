------------------------------ MODULE MCMobjs -------------------------------
(* Six sessions for Mobjs: alone; before the boss shooter; cooperative; on a *)
(* map with one start; -altdeath; and -altdeath alone.                       *)
Map == [starts |-> {0, 1}, items |-> {1}, targets |-> 0]
Solo == [netgame |-> FALSE, deathmatch |-> 0, in |-> {0}, map |-> Map, room |-> 3]
Icon == [Solo EXCEPT !.map.targets = 2, !.map.items = {}, !.room = 4]
Coop == [Solo EXCEPT !.netgame = TRUE, !.in = {0, 1}, !.room = 4]
OneStart == [Coop EXCEPT !.in = {0}, !.map.starts = {0}, !.map.items = {}]
AltDeath == [Coop EXCEPT !.deathmatch = 2, !.room = 3]
Alone == [Solo EXCEPT !.deathmatch = 2, !.map.items = {0, 1}, !.map.starts = {0}]

MCSessions == {Solo, Icon, Coop, OneStart, AltDeath, Alone}
=============================================================================
