----------------------------- MODULE MCArsenal ------------------------------
(* Five players, their surroundings and their keys, for Arsenal; Bare is the  *)
(* one that nothing happens to.                                              *)
EXTENDS TLC
AmmoIs(clip, shell, cell, misl) == "clip" :> clip @@ "shell" :> shell @@ "cell" :> cell @@ "misl" :> misl
Box(a) == [kind |-> "ammo", of |-> a, clips |-> 1]
Gun(w, dropped) == [kind |-> "weapon", of |-> w, dropped |-> dropped]
Item(kind) == [kind |-> kind]
Bare == [owned |-> {"fist", "pistol"}, ammo |-> AmmoIs(2, 0, 0, 0), mode |-> "registered",
         netgame |-> FALSE, deathmatch |-> 0, double |-> FALSE, items |-> {}, keys |-> {}]
With(ws) == Bare.owned \cup ws
MCKits == {
  Bare,
  [Bare EXCEPT !.owned = With({"chainsaw"}), !.items = {Box("clip"), Gun("chaingun", TRUE), Item("berserk")},
               !.keys = {"fist", "chaingun"}],
  [Bare EXCEPT !.mode = "commercial", !.ammo = AmmoIs(1, 3, 0, 0), !.netgame = TRUE,
               !.items = {Box("shell"), Gun("shotgun", FALSE), Gun("supershotgun", FALSE)}, !.keys = {"shotgun", "pistol"}],
  [Bare EXCEPT !.owned = With({"plasma", "bfg", "missile"}), !.ammo = AmmoIs(0, 0, 4, 1), !.double = TRUE,
               !.items = {Box("cell"), Box("misl")}, !.keys = {"bfg", "missile"}],
  [Bare EXCEPT !.mode = "shareware", !.items = {Item("backpack"), Item("cheat")},
               !.keys = {"plasma", "missile", "pistol"}],
  [Bare EXCEPT !.mode = "commercial", !.netgame = TRUE, !.deathmatch = 1, !.items = {Gun("plasma", FALSE)},
               !.keys = {"plasma"}] }
MCMaxAmmo == AmmoIs(3, 3, 4, 1)
MCClip == AmmoIs(2, 1, 1, 1)
=============================================================================
