------------------------------- MODULE Arsenal -------------------------------
(***************************************************************************)
(* A player's weapons: what engine/core/p_pspr.c does with the weapon on   *)
(* the screen, p_inter.c with what is picked up, p_user.c with the keys,   *)
(* and g_game.c with death and the next level.                             *)
(*                                                                         *)
(* The weapon sprite is a machine of states (info.c), whose actions read   *)
(* readyweapon, pendingweapon and the ammo, which pickups and keys change  *)
(* between any two of them.  A state that only waits is left out unless it *)
(* is the one before a shot.  The muzzle flash, the bob and what a shot    *)
(* hits are not kept.                                                      *)
(*                                                                         *)
(* A definition named X_Y is X with a plausible bug in it.                 *)
(***************************************************************************)
EXTENDS Integers, Sequences, FiniteSets

CONSTANTS
  Kits,         \* players: [owned, ammo, mode, netgame, deathmatch, double,
                \*  items, keys]; items are what can be touched
  MaxAmmo,      \* maxammo, by type
  Clip,         \* clipammo, by type
  BFGCELLS

Weapons == {"fist", "pistol", "shotgun", "chaingun", "missile", "plasma", "bfg", "chainsaw",
            "supershotgun"}
Ammo == {"clip", "shell", "cell", "misl"}

\* What lies about: a box of ammo, a weapon, or something else.
Items == [kind : {"ammo"}, of : Ammo, clips : Nat] \cup
         [kind : {"weapon"}, of : Weapons, dropped : BOOLEAN] \cup
         [kind : {"berserk", "backpack", "cheat"}]

\* A player comes with the two weapons of G_PlayerReborn, and the shareware
\* episode has no plasma rifle and no BFG to find.
ASSUME ArsenalAssumption ==
  /\ BFGCELLS \in Nat \ {0}
  /\ MaxAmmo \in [Ammo -> Nat \ {0}] /\ Clip \in [Ammo -> Nat]
  /\ \A k \in Kits :
       /\ {"fist", "pistol"} \subseteq k.owned /\ k.owned \subseteq Weapons
       /\ k.ammo \in [Ammo -> Nat] /\ \A a \in Ammo : k.ammo[a] <= MaxAmmo[a]
       /\ k.keys \subseteq Weapons /\ k.items \subseteq Items
       /\ k.mode = "shareware" =>
            {"plasma", "bfg"} \cap (k.owned \cup {item.of : item \in {x \in k.items : x.kind = "weapon"}}) = {}

VARIABLES
  kit,          \* the player's surroundings, which never change
  player        \* player_t: [alive, ready, pending, owned, ammo, backpack,
                \*  strength, attackdown, sy, st]; sy is 0 at the top; st is
                \*  the weapon sprite's state, [of, at, i], i the
                \*  frame of an attack and else 0

arsenalVars == <<kit, player>>

nochange == "nochange"
Bottom == 2     \* bound: WEAPONBOTTOM is 16 steps below WEAPONTOP

\* weaponinfo's ammo
AmmoOf(w) ==
  CASE w \in {"pistol", "chaingun"} -> "clip"
    [] w \in {"shotgun", "supershotgun"} -> "shell"
    [] w \in {"plasma", "bfg"} -> "cell"
    [] w = "missile" -> "misl"
    [] w \in {"fist", "chainsaw"} -> "none"

\* The states from weaponinfo's atkstate on, by their actions; "now" is an
\* A_ReFire whose state lasts no tic.
Frames(w) ==
  CASE w = "fist" -> <<"-", "hit", "refire">>
    [] w \in {"pistol", "shotgun"} -> <<"-", "shoot", "refire">>
    [] w = "supershotgun" -> <<"-", "shoot", "reload", "refire", "refire">>
    [] w = "chaingun" -> <<"shoot", "shoot", "now">>
    [] w = "missile" -> <<"-", "shoot", "now">>
    [] w = "plasma" -> <<"shoot", "refire">>
    [] w = "bfg" -> <<"-", "shoot", "refire">>
    [] w = "chainsaw" -> <<"hit", "hit", "now">>

\* What P_CheckAmmo asks for, and what a shot takes.
Count(w) == CASE w = "bfg" -> BFGCELLS [] w = "supershotgun" -> 2 [] OTHER -> 1
HasAmmo(v, w) == AmmoOf(w) = "none" \/ v.ammo[AmmoOf(w)] >= Count(w)

At(v, where) == [v EXCEPT !.st = [of |-> v.ready, at |-> where, i |-> 0]]
Attack(v) == [v EXCEPT !.st = [of |-> v.ready, at |-> "fire", i |-> 1]]

-----------------------------------------------------------------------------
(* The actions of the weapon sprite.                                       *)

\* The first A_Raise of a weapon that comes up is run with the state.
P_BringUpWeapon(v) == At([v EXCEPT !.pending = nochange, !.sy = Bottom - 1], "up")

\* With no pending weapon, readyweapon becomes wp_nochange, which no
\* weaponinfo is for (WeaponHeld).
A_Lower(v) ==
  IF v.sy + 1 < Bottom THEN [v EXCEPT !.sy = v.sy + 1]
  ELSE IF ~ v.alive THEN [v EXCEPT !.sy = Bottom]
  ELSE P_BringUpWeapon([v EXCEPT !.ready = v.pending])

PutDown(v) == A_Lower(At(v, "down"))

\* What P_CheckAmmo changes to.
Spare(v) ==
  LET Owns(w, n) == w \in v.owned /\ v.ammo[AmmoOf(w)] > n
      full == kit.mode # "shareware"
  IN IF Owns("plasma", 0) /\ full THEN "plasma"
     ELSE IF Owns("supershotgun", 2) /\ kit.mode = "commercial" THEN "supershotgun"
     ELSE IF Owns("chaingun", 0) THEN "chaingun"
     ELSE IF Owns("shotgun", 0) THEN "shotgun"
     ELSE IF v.ammo["clip"] > 0 THEN "pistol"
     ELSE IF "chainsaw" \in v.owned THEN "chainsaw"
     ELSE IF Owns("missile", 0) THEN "missile"
     ELSE IF Owns("bfg", BFGCELLS) /\ full THEN "bfg"
     ELSE "fist"

\* Out of ammo: lower the weapon for the spare one.
ChangeOver(v) == PutDown([v EXCEPT !.pending = Spare(v)])

Shoot_Unchecked(v) == [v EXCEPT !.ammo[AmmoOf(v.ready)] = @ - Count(v.ready)]
\* A_FirePistol and its like; only A_FireCGun, which shoots twice for one
\* P_CheckAmmo, looks again.
Shoot(v) ==
  IF v.ready = "chaingun" /\ v.ammo["clip"] = 0 THEN v
  ELSE [v EXCEPT !.ammo[AmmoOf(v.ready)] = @ - Count(v.ready)]

P_FireWeapon(v) ==
  IF ~ HasAmmo(v, v.ready) THEN ChangeOver(v)
  ELSE IF Frames(v.ready)[1] = "shoot" THEN Shoot(Attack(v)) ELSE Attack(v)

A_WeaponReady(v, attack) ==
  IF v.pending # nochange \/ ~ v.alive THEN PutDown(v)
  ELSE IF ~ attack THEN [v EXCEPT !.attackdown = FALSE, !.sy = 0]
  ELSE IF v.attackdown /\ v.ready \in {"missile", "bfg"} THEN [v EXCEPT !.sy = 0]
  ELSE P_FireWeapon([v EXCEPT !.attackdown = TRUE])

Ready(v, attack) == A_WeaponReady(At(v, "ready"), attack)

A_Raise(v, attack) ==
  IF v.sy - 1 > 0 THEN [v EXCEPT !.sy = v.sy - 1]
  ELSE Ready([v EXCEPT !.sy = 0], attack)

A_ReFire_Again(v, attack) ==
  IF attack /\ v.alive THEN P_FireWeapon(v)
  ELSE IF HasAmmo(v, v.ready) THEN v ELSE ChangeOver(v)
A_ReFire(v, attack) ==
  IF attack /\ v.pending = nochange /\ v.alive THEN P_FireWeapon(v)
  ELSE IF HasAmmo(v, v.ready) THEN v ELSE ChangeOver(v)

A_CheckReload(v) == IF HasAmmo(v, v.ready) THEN v ELSE ChangeOver(v)

\* P_SetPsprite to the i-th state of an attack, or past its last.
P_SetPsprite(v, i, attack) ==
  LET frames == Frames(v.st.of)
      u == [v EXCEPT !.st.i = i]
      again == A_ReFire(u, attack)
  IN IF i > Len(frames) THEN Ready(v, attack)
     ELSE CASE frames[i] = "shoot" -> Shoot(u)
            [] frames[i] = "reload" -> A_CheckReload(u)
            [] frames[i] = "refire" -> again
            [] frames[i] = "now" -> IF again.st = u.st THEN Ready(again, attack) ELSE again
            [] OTHER -> u

P_MovePsprites(v, attack) ==
  CASE v.st.at = "up" -> A_Raise(v, attack)
    [] v.st.at = "down" -> A_Lower(v)
    [] v.st.at = "ready" -> A_WeaponReady(v, attack)
    [] OTHER -> P_SetPsprite(v, v.st.i + 1, attack)

-----------------------------------------------------------------------------
(* What is picked up.                                                      *)

Least(a, b) == IF a < b THEN a ELSE b
Limit(v, a) == IF v.backpack THEN 2 * MaxAmmo[a] ELSE MaxAmmo[a]

\* With ammo for the first time, a weapon that uses it is brought up; the
\* pistol is, as the fist, not asked for.
Preferred(v, a) ==
  LET bare == v.ready = "fist"
      Or(w, other) == IF w \in v.owned THEN w ELSE other
  IN CASE a = "clip" /\ bare -> Or("chaingun", "pistol")
       [] a = "shell" /\ (bare \/ v.ready = "pistol") -> Or("shotgun", v.pending)
       [] a = "cell" /\ (bare \/ v.ready = "pistol") -> Or("plasma", v.pending)
       [] a = "misl" /\ bare -> Or("missile", v.pending)
       [] OTHER -> v.pending

P_GiveAmmo(v, a, clips) ==
  LET num == (IF clips > 0 THEN clips * Clip[a] ELSE Clip[a] \div 2)
               * (IF kit.double THEN 2 ELSE 1)
  IN IF a = "none" THEN v
     ELSE IF v.ammo[a] = Limit(v, a) THEN v
     ELSE [v EXCEPT !.ammo[a] = Least(@ + num, Limit(v, a)),
                    !.pending = IF v.ammo[a] > 0 THEN @ ELSE Preferred(v, a)]

\* In a net game a placed weapon stays, and is given once.
P_GiveWeapon(v, w, dropped) ==
  IF kit.netgame /\ kit.deathmatch # 2 /\ ~ dropped
  THEN IF w \in v.owned THEN v
       ELSE [P_GiveAmmo([v EXCEPT !.owned = @ \cup {w}], AmmoOf(w),
                        IF kit.deathmatch > 0 THEN 5 ELSE 2) EXCEPT !.pending = w]
  ELSE LET u == P_GiveAmmo(v, AmmoOf(w), IF dropped THEN 1 ELSE 2)
       IN IF w \in v.owned THEN u
          ELSE [u EXCEPT !.owned = @ \cup {w}, !.pending = w]

Backpack(v) ==
  LET more == [v EXCEPT !.backpack = TRUE]
      Give(u, a) == P_GiveAmmo(u, a, 1)
  IN Give(Give(Give(Give(more, "clip"), "shell"), "cell"), "misl")

\* IDFA and IDKFA
Everything(v) == [v EXCEPT !.owned = Weapons, !.ammo = [a \in Ammo |-> Limit(v, a)]]

P_TouchSpecialThing(v, item) ==
  CASE item.kind = "ammo" -> P_GiveAmmo(v, item.of, item.clips)
    [] item.kind = "weapon" -> P_GiveWeapon(v, item.of, item.dropped)
    [] item.kind = "berserk" ->
         [v EXCEPT !.strength = TRUE, !.pending = IF v.ready # "fist" THEN "fist" ELSE @]
    [] item.kind = "backpack" -> Backpack(v)
    [] item.kind = "cheat" -> Everything(v)

-----------------------------------------------------------------------------
\* The weapon keys: 1 and 3 stand for two weapons each.
Wanted(v, key) ==
  LET saw == key = "fist" /\ "chainsaw" \in v.owned /\ ~ (v.ready = "chainsaw" /\ v.strength)
      double == /\ kit.mode = "commercial" /\ key = "shotgun"
                /\ "supershotgun" \in v.owned /\ v.ready # "supershotgun"
  IN IF saw THEN "chainsaw" ELSE IF double THEN "supershotgun" ELSE key

BT_CHANGE(v, key) ==
  LET w == Wanted(v, key)
  IN IF /\ w \in v.owned /\ w # v.ready
        /\ w \in {"plasma", "bfg"} => kit.mode # "shareware"
     THEN [v EXCEPT !.pending = w] ELSE v

P_SetupPsprites(v) == P_BringUpWeapon(v)

G_PlayerReborn(v) ==
  [v EXCEPT !.alive = TRUE, !.ready = "pistol", !.pending = "pistol",
            !.owned = {"fist", "pistol"}, !.backpack = FALSE, !.strength = FALSE,
            !.ammo = [a \in Ammo |-> IF a = "clip" THEN MaxAmmo[a] \div 2 ELSE 0],
            !.attackdown = TRUE]

ArsenalInit ==
  /\ kit \in Kits
  /\ player = P_SetupPsprites(
           [alive |-> TRUE, ready |-> "pistol", pending |-> nochange, owned |-> kit.owned,
            ammo |-> kit.ammo, backpack |-> FALSE, strength |-> FALSE, attackdown |-> TRUE,
            sy |-> 0, st |-> [of |-> "pistol", at |-> "up", i |-> 0]])

\* P_PlayerThink: the key, then the sprites; P_DeathThink only the sprites.
P_PlayerThink(attack, key) ==
  /\ ~ player.alive => key = nochange
  /\ player' = P_MovePsprites(IF key = nochange THEN player ELSE BT_CHANGE(player, key), attack)
  /\ UNCHANGED kit

Touch(item) ==
  /\ player.alive
  /\ player' = P_TouchSpecialThing(player, item)
  /\ UNCHANGED kit

\* P_KillMobj: P_DropWeapon, from whatever state.
Die ==
  /\ player.alive
  /\ player' = PutDown([player EXCEPT !.alive = FALSE])
  /\ UNCHANGED kit

Reborn ==
  /\ ~ player.alive
  /\ player' = P_SetupPsprites(G_PlayerReborn(player))
  /\ UNCHANGED kit

\* G_PlayerFinishLevel, and P_SpawnPlayer in the next level.
NextLevel ==
  /\ player.alive
  /\ player' = P_SetupPsprites([player EXCEPT !.strength = FALSE])
  /\ UNCHANGED kit

Tic == \E attack \in BOOLEAN, key \in {nochange} \cup kit.keys : P_PlayerThink(attack, key)
ArsenalNext == Tic \/ (\E item \in kit.items : Touch(item)) \/ Die \/ Reborn \/ NextLevel

\* Every tic of a level runs its players.
ArsenalSpec == ArsenalInit /\ [][ArsenalNext]_arsenalVars /\ WF_arsenalVars(Tic)

-----------------------------------------------------------------------------
ArsenalTypeOK ==
  /\ player.owned \subseteq Weapons /\ player.st.of \in Weapons
  /\ \/ player.st.at \in {"up", "down", "ready"} /\ player.st.i = 0
     \/ player.st.at = "fire" /\ player.st.i \in 1 .. Len(Frames(player.st.of))
  /\ player.sy \in 0 .. Bottom

\* Whatever is picked up, chosen, shot and cut off by a death or an exit: the
\* weapon in the hands is one the player has, so is the one to come, and the
\* states and their shots are that weapon's; a weapon is not lowered for
\* none, which would leave readyweapon outside weaponinfo; and in shareware
\* it is never the plasma rifle or the BFG, "even if cheated" (p_user.c).
WeaponHeld ==
  /\ player.ready \in player.owned /\ player.pending \in player.owned \cup {nochange}
  /\ player.st.of = player.ready
  /\ player.alive /\ player.st.at = "down" => player.pending # nochange
  /\ kit.mode = "shareware" => player.ready \notin {"plasma", "bfg"}

\* Ammo is never owed and never above its limit: a shot takes what
\* P_CheckAmmo found some states earlier, the chaingun's second included.
AmmoHolds == \A a \in Ammo : player.ammo[a] \in 0 .. Limit(player, a)

\* When the weapon cannot shoot any more, the one P_CheckAmmo turns to is
\* another one, is the player's, and can.
SpareShoots ==
  ~ HasAmmo(player, player.ready) =>
    LET w == Spare(player) IN w # player.ready /\ w \in player.owned /\ HasAmmo(player, w)

\* The three of them, of every player: what p_pspr.c reads between two tics is
\* what p_inter.c, p_user.c and g_game.c left.
WeaponsSound == WeaponHeld /\ AmmoHolds /\ SpareShoots
=============================================================================
