------------------------------ MODULE Monsters ------------------------------
(***************************************************************************)
(* The monsters of p_enemy.c and what happens to them: frames that run     *)
(* actions, actions that hurt and move others, deaths that set off a       *)
(* level's event, corpses that are raised, respawned or crushed, missiles, *)
(* lost souls in flight, and the pointers between them all.                *)
(*                                                                         *)
(* Where things are is left out: whatever distance, sight, a roll of the   *)
(* dice or a number of tics decides is a choice.  So is what is read in a  *)
(* mobj that was freed; what is written to one has no effect here.         *)
(*                                                                         *)
(* An operator that stands for a function of the code is the set of the    *)
(* worlds it may leave.  One action of the module is one event of a tic.   *)
(***************************************************************************)
EXTENDS MonsterInfo, FiniteSets

CONSTANTS
  Ids,          \* addresses of mobjs: bound
  Scenes,       \* levels and what stands in them
  Skulls,       \* the 20 of A_PainShootSkull
  Player, Body, \* a player's mobj, and those that players have left for new ones
  Nil

VARIABLES
  scene,        \* [things, room, mode, episode, map, netgame, respawn]
  m             \* the world: see World

monstersVars == <<scene, m>>

Gone == [kind |-> "none"]

\* P_SpawnMobj: health, flags and spawnstate of the type, all else 0.
Spawned(kind) ==
  [kind |-> kind, st |-> <<"stnd", 1>>, alive |-> TRUE, flags |-> mobjinfo[kind].flags,
   target |-> Nil, tracer |-> Nil, threshold |-> FALSE]

World ==
  [mobj |-> [id \in Ids |-> IF id <= Len(scene.things) THEN Spawned(scene.things[id]) ELSE Gone],
   player |-> TRUE,         \* whether the player lives
   tm |-> Nil,              \* tmthing, within a step
   done |-> "no",           \* whose death set off the level's event: floor, door, exit
   unwitnessed |-> FALSE,   \* a boss's death looked for a living player in vain
   mistaken |-> FALSE,      \* a slam gave a dead mobj its spawnstate
   null |-> FALSE]          \* something was read through a null pointer

Init == scene \in Scenes /\ m = World

-----------------------------------------------------------------------------
(* Mobjs and pointers.                                                     *)

Here(w, id) == id \in Ids /\ w.mobj[id] # Gone
InfoOf(w, id) == mobjinfo[w.mobj[id].kind]
Things(w) == {id \in Ids : Here(w, id)}

\* Where Z_Malloc puts the next mobj.  (Bound: the level's room; what needs an
\* address when none is free does not happen.)
Address(w) ==
  LET free == {id \in 1 .. scene.room : ~ Here(w, id)}
  IN IF free = {} THEN {} ELSE {CHOOSE id \in free : TRUE}

Chain(o) == mobjinfo[o.kind].states.chains[o.st[1]]
After(o) == mobjinfo[o.kind].states.after[o.st[1]]
Has(w, id, flag) == flag \in w.mobj[id].flags

\* What target->flags & MF_SHOOTABLE, target->health > 0, target->type may say.
Shootable(w, p) ==
  CASE p = Player -> {w.player} [] p = Body -> {FALSE}
    [] Here(w, p) -> {Has(w, p, "SHOOTABLE")} [] OTHER -> BOOLEAN
Healthy(w, p) ==
  CASE p = Player -> {w.player} [] p = Body -> {FALSE}
    [] Here(w, p) -> {w.mobj[p].alive} [] OTHER -> BOOLEAN
IsOf(w, p, kinds) ==
  CASE p \in {Player, Body} -> {"MT_PLAYER" \in kinds}
    [] Here(w, p) -> {w.mobj[p].kind \in kinds} [] OTHER -> BOOLEAN

\* A read through p that nothing guards.
Read(w, p) == IF p = Nil THEN [w EXCEPT !.null = TRUE] ELSE w

P_RemoveMobj(w, id) == [w EXCEPT !.mobj[id] = Gone]
P_SpawnMobj(w, id, kind) == [w EXCEPT !.mobj[id] = Spawned(kind)]

A_Fall(w, id) == [w EXCEPT !.mobj[id].flags = @ \ {"SOLID"}]

RECURSIVE SetFrame(_, _, _), RadiusAttack(_, _, _)
P_SetMobjState(w, id, state) == SetFrame(w, id, <<state, 1>>)

-----------------------------------------------------------------------------
(* Damage.                                                                 *)

\* P_KillMobj: death, or extreme death when the last hit was a hard one.
Dead(w, id) ==
  [w EXCEPT !.mobj[id].alive = FALSE,
            !.mobj[id].flags = (@ \ {"SHOOTABLE", "SKULLFLY"}) \cup {"CORPSE"}]
Deaths(w, id, info) ==
  {[at |-> Dead(w, id), state |-> s] : s \in {info.deathstate, info.xdeathstate} \ {"null"}}
P_KillMobj(w, id) ==
  UNION {P_SetMobjState(d.at, id, d.state) : d \in Deaths(w, id, InfoOf(w, id))}

\* P_DamageMobj, of one that lives on: it may be pained, and who is not intent
\* on someone else goes after the source and wakes.  (The first frame of a pain
\* does nothing but be there, so it is no matter that it comes before.)
Heeds(w, id, source) ==
  {v # TRUE : v \in IF source \in {Nil, id} \/ (w.mobj[id].threshold /\ w.mobj[id].kind # "MT_VILE")
                     THEN {TRUE} ELSE IsOf(w, source, {"MT_VILE"})}
Retargets(w, id, source) == [w EXCEPT !.mobj[id].target = source, !.mobj[id].threshold = TRUE]
Wakes(w, id, info) ==
  IF w.mobj[id].st = <<"stnd", 1>> /\ info.seestate # "null" THEN info.seestate ELSE "same"
Pains(w, id, info) == IF Has(w, id, "SKULLFLY") THEN {} ELSE {info.painstate} \ {"null"}
Hurts(w, id, source, info) ==
  UNION {{[at |-> IF heeds THEN Retargets(w, id, source) ELSE w, state |-> s] :
            s \in Pains(w, id, info) \cup {IF heeds THEN Wakes(w, id, info) ELSE "same"}} :
           heeds \in Heeds(w, id, source)}

P_DamageMobj(w, id, source) ==
  CASE id = Player -> {w, [w EXCEPT !.player = FALSE]}
    [] id # Player /\ ~ Here(w, id) -> {Read(w, id)}
    [] OTHER ->
       IF ~ Has(w, id, "SHOOTABLE") \/ ~ w.mobj[id].alive THEN {w}
       ELSE UNION {IF h.state = "same" THEN {h.at} ELSE P_SetMobjState(h.at, id, h.state) :
                     h \in Deaths(w, id, InfoOf(w, id)) \cup Hurts(w, id, source, InfoOf(w, id))}

\* P_RadiusAttack over the things of a set, some of which it reaches.
Concussed(w, id) ==
  id = Player \/ w.mobj[id].kind \notin {"MT_CYBORG", "MT_SPIDER"}
RadiusAttack(w, source, S) ==
  IF S = {} THEN {w}
  ELSE LET id == CHOOSE id \in S : TRUE
           hit == IF Concussed(w, id) THEN P_DamageMobj(w, id, source) ELSE {}
       IN UNION {RadiusAttack(u, source, S \ {id}) : u \in {w} \cup hit}
P_RadiusAttack(w, source) == RadiusAttack(w, source, Things(w) \cup {Player})

-----------------------------------------------------------------------------
(* Missiles.                                                               *)

P_ExplodeMissile(w, id) ==
  {IF Here(u, id) THEN [u EXCEPT !.mobj[id].flags = @ \ {"MISSILE"}] ELSE u :
     u \in P_SetMobjState(w, id, InfoOf(w, id).deathstate)}

\* PIT_CheckThing, a missile being moved: the worlds in which it is stopped.
\* It passes who shot it, and does not hurt its shooter's species.
Kin(w, p, id) ==
  IF id = Player THEN IsOf(w, p, {"MT_PLAYER"})
  ELSE IsOf(w, p, LET k == w.mobj[id].kind
                  IN IF k \in {"MT_KNIGHT", "MT_BRUISER"} THEN {"MT_KNIGHT", "MT_BRUISER"} ELSE {k})
\* Whether it spares the thing: then it flies on through its shooter, and stops
\* at the others.
Spared(w, source, thing) ==
  IF source = Nil THEN {FALSE}
  ELSE {kin /\ (thing = Player => thing = source) : kin \in Kin(w, source, thing)}
Struck(w, source, thing) ==
  IF TRUE \in Shootable(w, thing) THEN P_DamageMobj(w, thing, source)
  ELSE IF thing # Player /\ Has(w, thing, "SOLID") THEN {w} ELSE {}
StopsMissile(w, source, thing) ==
  UNION {IF ~ spared THEN Struck(w, source, thing) ELSE IF thing = source THEN {} ELSE {w} :
           spared \in Spared(w, source, thing)}

\* P_TryMove, blocked by a wall or by something.
BlockedBy(w, id) ==
  {w} \cup UNION {StopsMissile(w, w.mobj[id].target, thing) :
                    thing \in (Things(w) \cup {Player}) \ {id}}
Blocked(w, id) == BlockedBy([w EXCEPT !.tm = id], id)

\* P_SpawnMissile and P_CheckMissileSpawn.  A null dest is read as P_ZeroMobj,
\* a mobj of zeros.
P_ZeroMobj_Not(w, p) == Read(w, p)
P_ZeroMobj(w, p) == w

Fired(w, id) == {[w EXCEPT !.tm = id]} \cup UNION {P_ExplodeMissile(u, id) : u \in Blocked(w, id)}
P_SpawnMissile(w, source, dest, kind) ==
  UNION {Fired([P_SpawnMobj(P_ZeroMobj(w, dest), id, kind)
                  EXCEPT !.mobj[id].target = source,
                         !.mobj[id].tracer = IF kind = "MT_TRACER" THEN dest ELSE Nil], id) :
           id \in Address(w)}

-----------------------------------------------------------------------------
(* Looking and chasing.                                                    *)

\* P_LookForPlayers, when it returns true.
P_LookForPlayers(w, id) == IF w.player THEN {[w EXCEPT !.mobj[id].target = Player]} ELSE {}

\* A sound's source, or a player in sight, while it lives.
A_Look(w, id) ==
  LET u == [w EXCEPT !.mobj[id].threshold = FALSE]
  IN {u} \cup UNION {P_SetMobjState(v, id, InfoOf(v, id).seestate) : v \in P_LookForPlayers(u, id)}

\* P_Move and P_NewChaseDir end in P_TryMove, which sets tmthing.
Moved(w, id) == [w EXCEPT !.tm = id]

\* The threshold runs out, at the latest with the target.
Patience(w, id) ==
  IF ~ w.mobj[id].threshold THEN {w}
  ELSE {[w EXCEPT !.mobj[id].threshold = t] :
          t \in IF w.mobj[id].target = Nil \/ Healthy(w, w.mobj[id].target) = {FALSE}
                THEN {FALSE} ELSE BOOLEAN}

GivesUp(w, id) ==
  P_LookForPlayers(w, id) \cup P_SetMobjState(w, id, "stnd")

JustAttacked(w, id) == [w EXCEPT !.mobj[id].flags = @ \cup {"JUSTATTACKED"}]
Attacks(w, id, info) ==
  UNION {UNION {(IF state = info.meleestate THEN {u} ELSE {})
                  \cup (IF state = info.missilestate THEN {JustAttacked(u, id)} ELSE {}) :
                  u \in P_SetMobjState(w, id, state)} :
           state \in {info.meleestate, info.missilestate} \ {"null"}}
Rested(w, id) == [w EXCEPT !.mobj[id].flags = @ \ {"JUSTATTACKED"}]
Pursues(w, id) ==
  IF Has(w, id, "JUSTATTACKED") THEN {Rested(w, id), Moved(Rested(w, id), id)}
  ELSE Attacks(w, id, InfoOf(w, id)) \cup {Moved(w, id)}
         \cup (IF scene.netgame /\ ~ w.mobj[id].threshold THEN P_LookForPlayers(w, id) ELSE {})

HasPrey(w, id) == IF w.mobj[id].target = Nil THEN {FALSE} ELSE Shootable(w, w.mobj[id].target)
A_Chase(w0, id) ==
  UNION {UNION {IF prey THEN Pursues(w, id) ELSE GivesUp(w, id) : prey \in HasPrey(w, id)} :
           w \in Patience(w0, id)}

\* PIT_VileCheck: a corpse that lies still and can be raised.  Whether it fits
\* is P_CheckPosition's to say, which makes it tmthing.
Lying(w, id) == w.mobj[id].st[2] = Len(Chain(w.mobj[id])) /\ After(w.mobj[id]) = Lie
Raisable(w) ==
  {c \in Things(w) : Has(w, c, "CORPSE") /\ Lying(w, c) /\ InfoOf(w, c).raisestate # "null"}
Risen(w, c) ==
  [w EXCEPT !.mobj[c].flags = InfoOf(w, c).flags, !.mobj[c].alive = TRUE, !.mobj[c].target = Nil]
Raise(w, id, c) ==
  UNION {{Risen(v, c) : v \in P_SetMobjState(u, c, InfoOf(u, c).raisestate)} :
           u \in P_SetMobjState(Moved(w, c), id, "heal")}

\* A_Chase, and A_VileChase, which looks for corpses first.
Chases(w, id, corpses) ==
  UNION {Raise(w, id, c) : c \in corpses}
    \cup UNION {A_Chase(u, id) : u \in {w} \cup {Moved(w, c) : c \in corpses}}

-----------------------------------------------------------------------------
(* Attacks.                                                                *)

\* P_LineAttack, each pellet at whatever is in its way.
RECURSIVE Pellets(_, _, _)
Pellets(w, id, n) ==
  IF n = 0 THEN {w}
  ELSE UNION {UNION {Pellets(u, id, n - 1) : u \in {w} \cup P_DamageMobj(w, thing, id)} :
                thing \in (Things(w) \cup {Player}) \ {id}}

Claw(w, id) == P_DamageMobj(w, w.mobj[id].target, id)

RECURSIVE Volley(_, _, _, _)
Volley(w, id, kind, n) ==
  IF n = 0 THEN {w}
  ELSE UNION {Volley(u, id, kind, n - 1) : u \in P_SpawnMissile(w, id, w.mobj[id].target, kind)}

\* A_SkullAttack, and the skulls of a pain elemental, which may not fit and are
\* killed at once.
A_SkullAttack(w, id) ==
  IF w.mobj[id].target = Nil THEN w ELSE [w EXCEPT !.mobj[id].flags = @ \cup {"SKULLFLY"}]

Launched(w, id, actor) ==
  IF Here(w, id) THEN A_SkullAttack([w EXCEPT !.mobj[id].target = w.mobj[actor].target], id) ELSE w
Stillborn_Launched(w, id, actor) == {Launched(u, id, actor) : u \in P_KillMobj(w, id)}
Stillborn(w, id, actor) == P_KillMobj(w, id)

Skull(w, new, id) == {Launched(w, new, id)} \cup Stillborn(w, new, id)
A_PainShootSkull(w, id) ==
  IF Cardinality({s \in Things(w) : w.mobj[s].kind = "MT_SKULL"}) > Skulls THEN {w}
  ELSE UNION {Skull(Moved(P_SpawnMobj(w, new, "MT_SKULL"), new), new, id) : new \in Address(w)}
RECURSIVE ShootSkulls(_, _, _)
ShootSkulls(w, id, n) ==
  IF n = 0 THEN {w} ELSE UNION {ShootSkulls(u, id, n - 1) : u \in A_PainShootSkull(w, id)}

A_VileTarget(w, id) ==
  {[P_SpawnMobj(w, fog, "MT_FIRE")
      EXCEPT !.mobj[id].tracer = fog,
             !.mobj[fog].target = id, !.mobj[fog].tracer = w.mobj[id].target] :
     fog \in Address(w)}
A_Fire(w, id) == IF w.mobj[id].tracer = Nil THEN w ELSE Read(w, w.mobj[id].target)

\* A_Explode, and A_VileAttack, which hits its target first and then what is
\* near the fire it lit.
Blasts(w, id, action) ==
  IF action = "A_Explode" THEN {[at |-> w, by |-> w.mobj[id].target, lit |-> TRUE]}
  ELSE {[at |-> w, by |-> id, lit |-> FALSE]} \cup
       {[at |-> Read(u, u.mobj[id].target), by |-> id, lit |-> u.mobj[id].tracer # Nil] :
          u \in Claw(w, id)}
Explodes(w, id, action) ==
  UNION {IF b.lit THEN P_RadiusAttack(b.at, b.by) ELSE {b.at} : b \in Blasts(w, id, action)}

\* A_CPosRefire, A_SpidRefire
Refire(w, id) == {w} \cup P_SetMobjState(w, id, InfoOf(w, id).seestate)

\* What an attack throws, how many at a time, and those that claw what is near.
Thrown ==
  [A_TroopAttack |-> "MT_TROOPSHOT", A_HeadAttack |-> "MT_HEADSHOT",
   A_BruisAttack |-> "MT_BRUISERSHOT", A_BspiAttack |-> "MT_ARACHPLAZ",
   A_CyberAttack |-> "MT_ROCKET", A_FatAttack |-> "MT_FATSHOT", A_SkelMissile |-> "MT_TRACER"]
Clawing == {"A_TroopAttack", "A_HeadAttack", "A_BruisAttack", "A_SargAttack", "A_SkelFist"}

\* The attacks, all but three of which need a target.
Untargeted(w, id, action) ==
  w.mobj[id].target = Nil /\ action \notin {"A_FatAttack", "A_PainDie", "A_Explode"}
Attack(w, id, action) ==
  CASE action \in {"A_PosAttack", "A_CPosAttack", "A_SPosAttack"} ->
         Pellets(w, id, IF action = "A_SPosAttack" THEN 3 ELSE 1)
    [] action \in Clawing \cup DOMAIN Thrown ->
         (IF action \in Clawing THEN Claw(w, id) ELSE {}) \cup
         (IF action \notin DOMAIN Thrown THEN {w}
          ELSE Volley(w, id, Thrown[action], IF action = "A_FatAttack" THEN 2 ELSE 1))
    [] action = "A_SkullAttack" -> {A_SkullAttack(w, id)}
    [] action \in {"A_PainAttack", "A_PainDie"} ->
         IF action = "A_PainDie" THEN ShootSkulls(A_Fall(w, id), id, 3) ELSE A_PainShootSkull(w, id)
    [] action = "A_VileTarget" -> {A_Fire(u, u.mobj[id].tracer) : u \in A_VileTarget(w, id)}
    [] action \in {"A_VileAttack", "A_Explode"} -> Explodes(w, id, action)

-----------------------------------------------------------------------------
(* Deaths.                                                                 *)

Others_AnyHealth(w, id) ==
  {i \in Things(w) \ {id} : w.mobj[i].kind = w.mobj[id].kind}
Others(w, id) ==
  {i \in Things(w) \ {id} : w.mobj[i].kind = w.mobj[id].kind /\ w.mobj[i].alive}

\* The types whose death a level waits for.  (In an episode without a case
\* every type does, at its map 8.)
BossTypes ==
  CASE scene.mode = "commercial" -> IF scene.map = 7 THEN {"MT_FATSO", "MT_BABY"} ELSE {}
    [] scene.episode = 4 /\ scene.map = 6 -> {"MT_CYBORG"}
    [] scene.map # 8 -> {}
    [] scene.episode = 1 -> {"MT_BRUISER"}
    [] scene.episode = 2 -> {"MT_CYBORG"}
    [] scene.episode \in {3, 4} -> {"MT_SPIDER"}
    [] OTHER -> DOMAIN mobjinfo

A_BossDeath(w, id) ==
  IF w.mobj[id].kind \notin BossTypes THEN w
  ELSE IF ~ w.player THEN [w EXCEPT !.unwitnessed = TRUE]
  ELSE IF Others(w, id) # {} THEN w
  ELSE [w EXCEPT !.done = w.mobj[id].kind]

A_KeenDie(w, id) ==
  IF Others(w, id) # {} THEN A_Fall(w, id) ELSE [A_Fall(w, id) EXCEPT !.done = w.mobj[id].kind]

-----------------------------------------------------------------------------
\* A frame's action function, and P_SetMobjState: frames of no tics go on to
\* the next at once.
Act(w, id, action) ==
  CASE action = "-" -> {w}
    [] action = "A_Look" -> A_Look(w, id)
    [] action = "A_Chase" -> Chases(w, id, {})
    [] action = "A_VileChase" -> Chases(w, id, Raisable(w))
    [] action \in {"A_CPosRefire", "A_SpidRefire"} -> Refire(w, id)
    [] action = "A_Fire" -> {A_Fire(w, id)}
    [] action = "A_Fall" -> {A_Fall(w, id)}
    [] action = "A_BossDeath" -> {A_BossDeath(w, id)}
    [] action = "A_KeenDie" -> {A_KeenDie(w, id)}
    [] action = "A_BrainDie" -> {[w EXCEPT !.done = w.mobj[id].kind]}
    [] OTHER -> IF Untargeted(w, id, action) THEN {w} ELSE Attack(w, id, action)

Following(o) == IF o.st[2] < Len(Chain(o)) THEN <<o.st[1], o.st[2] + 1>> ELSE After(o)

Enter(w, id, next) ==
  UNION {IF Here(v, id) /\ Instant(v.mobj[id].kind, v.mobj[id].st)
         THEN SetFrame(v, id, next) ELSE {v} :
           v \in Act(w, id, Chain(w.mobj[id])[w.mobj[id].st[2]])}
SetFrame(w, id, st) ==
  IF st = Null THEN {P_RemoveMobj(w, id)}
  ELSE Enter([w EXCEPT !.mobj[id].st = st], id, Following([w.mobj[id] EXCEPT !.st = st]))

-----------------------------------------------------------------------------
(* What a tic may do.                                                      *)

\* (Bound: nothing is followed past the level's event or a mistaken slam.)
Playing == m.done = "no" /\ ~ m.mistaken
Step(S) == \E w \in S : m' = [w EXCEPT !.tm = Nil] /\ UNCHANGED scene

\* P_MobjThinker: the tics of a frame have passed.
NextFrame(id) ==
  /\ Playing /\ Here(m, id) /\ Following(m.mobj[id]) # Lie
  /\ Step(SetFrame(m, id, Following(m.mobj[id])))

\* P_XYMovement of a missile that is stopped, or is lost in the sky.
MissileMoves(id) ==
  /\ Playing /\ Here(m, id) /\ Has(m, id, "MISSILE")
  /\ Step({P_RemoveMobj(m, id)} \cup UNION {P_ExplodeMissile(u, id) : u \in Blocked(m, id)})

\* P_XYMovement of a flying skull: PIT_CheckThing lets it slam into something,
\* and means tmthing when it goes on; or it has stopped and comes to itself.
Slams(w, id) ==
  UNION {P_DamageMobj(Moved(w, id), thing, id) :
           thing \in {t \in Things(w) \ {id} : {"SOLID", "SHOOTABLE"} \cap w.mobj[t].flags # {}}
                      \cup {Player}}
Settles(w, id) == [w EXCEPT !.mobj[id].flags = @ \ {"SKULLFLY"}, !.mistaken = ~ w.mobj[id].alive]
SkullMoves(id) ==
  /\ Playing /\ Here(m, id) /\ Has(m, id, "SKULLFLY")
  /\ Step(UNION {IF Here(u, u.tm) THEN P_SetMobjState(Settles(u, u.tm), u.tm, "stnd") ELSE {u} :
                   u \in {Moved(m, id)} \cup Slams(m, id)})

\* P_NightmareRespawn: whatever counts as a kill and lies, a Keen that hangs
\* included.
P_NightmareRespawn(id) ==
  /\ Playing /\ scene.respawn /\ Here(m, id) /\ Has(m, id, "COUNTKILL") /\ Lying(m, id)
  /\ Step({P_RemoveMobj(P_SpawnMobj(m, new, m.mobj[id].kind), id) : new \in Address(m)})

\* PIT_ChangeSector, under a ceiling that crushes.
PIT_ChangeSector(id) ==
  /\ Playing /\ Here(m, id)
  /\ IF m.mobj[id].alive THEN Step(P_DamageMobj(m, id, Nil))
     ELSE Step(P_SetMobjState(A_Fall(m, id), id, "gibs"))

\* What a player does: it hits something, or starts again with a new body.
PlayerHits(id) == Playing /\ Here(m, id) /\ m.player /\ Step(P_DamageMobj(m, id, Player))
PlayerReborn ==
  LET left(p) == IF p = Player THEN Body ELSE p IN
  /\ Playing /\ scene.netgame /\ ~ m.player
  /\ Step({[m EXCEPT !.player = TRUE,
                     !.mobj = [id \in Ids |-> IF ~ Here(m, id) THEN Gone ELSE
                       [m.mobj[id] EXCEPT !.target = left(@), !.tracer = left(@)]]]})

\* P_ArchiveThinkers and P_UnArchiveThinkers: no pointer survives.
Forgets(o) == [o EXCEPT !.target = Nil, !.tracer = Nil]
Reload ==
  /\ Playing /\ ~ scene.netgame /\ m.player
  /\ Step({[m EXCEPT !.mobj = [id \in Ids |-> IF Here(m, id) THEN Forgets(m.mobj[id]) ELSE Gone]]})

Next ==
  \/ \E id \in Ids : NextFrame(id) \/ MissileMoves(id) \/ SkullMoves(id) \/ P_NightmareRespawn(id)
                       \/ PIT_ChangeSector(id) \/ PlayerHits(id)
  \/ PlayerReborn \/ Reload

Spec == Init /\ [][Next]_monstersVars

-----------------------------------------------------------------------------
Mobj ==
  [kind : DOMAIN mobjinfo, st : STRING \X Nat, alive : BOOLEAN,
   flags : SUBSET {"SOLID", "SHOOTABLE", "COUNTKILL", "CORPSE", "SKULLFLY", "MISSILE",
                   "JUSTATTACKED"},
   target : Ids \cup {Player, Body, Nil}, tracer : Ids \cup {Player, Body, Nil},
   threshold : BOOLEAN]
MonstersTypeOK ==
  \A id \in Things(m) :
    /\ m.mobj[id] \in Mobj
    /\ m.mobj[id].st[2] \in DOMAIN Chain(m.mobj[id])
    /\ Has(m, id, "MISSILE") => m.mobj[id].st = <<"stnd", 1>>

\* What is dead stays down: a mobj without health is in its death's frames, is
\* no target and does not fly, and only such a one is there, whatever a
\* shot, an explosion, a slam, a raise or a crush interrupts and however the
\* frames and actions of several monsters nest (p_inter.c:667, 774).
Down(o) == o.st[1] \in {"die", "xdie", "gibs"}
DeadStayDown ==
  m.mistaken \/ \A id \in Things(m) :
    LET o == m.mobj[id] IN
    /\ ~ o.alive => Down(o) /\ "CORPSE" \in o.flags /\ {"SHOOTABLE", "SKULLFLY"} \cap o.flags = {}
    /\ o.alive /\ "SHOOTABLE" \in mobjinfo[o.kind].flags => ~ Down(o) /\ "SHOOTABLE" \in o.flags

\* No frame reads through a pointer that a load has cleared, or that was never
\* set, but where P_ZeroMobj stands in (docs/playsim.md, 13.3).
TargetsChecked == ~ m.null

\* When the last of a level's bosses, or keens, has died in full, the level's
\* event has happened, and never before all are dead, whoever was raised,
\* respawned or died at the same time; unless no player lived to see a boss
\* die, or one was crushed in mid-death (p_enemy.c:1588, 1600).
Awaited ==
  {"MT_KEEN"} \cup (BossTypes \cap {"MT_FATSO", "MT_BABY", "MT_BRUISER", "MT_CYBORG", "MT_SPIDER"})
BossesTrigger ==
  \A k \in Awaited :
    LET all == {id \in Things(m) : m.mobj[id].kind = k}
        fallen == {id \in all : m.mobj[id].st[1] = "die" /\ Lying(m, id)}
    IN /\ all # {} /\ fallen = all => m.done # "no" \/ m.unwitnessed
       /\ m.done = k => \A id \in all : ~ m.mobj[id].alive
=============================================================================
