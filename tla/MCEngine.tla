------------------------------ MODULE MCEngine ------------------------------
(* The playsim's data on small instances: the zone, the list of thinkers, the *)
(* moving sectors, a player's weapons, the objects that are pointed to, and  *)
(* the monsters.  part says which of them runs; the others do not move.      *)
EXTENDS Zone, Thinkers, MCMovers, Arsenal, MCArsenal, Mobjs, MCMobjs, MCMonsters

CONSTANTS Places, Skulls, Player, Body    \* Monsters

VARIABLES
  part,
  scene, horde              \* Monsters'

monsters == INSTANCE Monsters WITH m <- horde, Ids <- Places, Scenes <- MCScenes, Nil <- NULL

monstersVars == <<scene, horde>>
evars == <<part, vars, thinkersVars, moversVars, arsenalVars, mobjsVars, monstersVars>>

EngineLength == [l \in Lumps |-> IF l = CHOOSE x \in Lumps : TRUE THEN 1 ELSE 2]

EngineInit ==
  /\ part \in {"zone", "thinkers", "movers", "arsenal", "mobjs", "monsters"}
  /\ Init /\ P_InitThinkers
  /\ MoversInit /\ (part # "movers" => level = Lift)
  /\ ArsenalInit /\ (part # "arsenal" => kit = Bare)
  /\ MobjsInit /\ (part # "mobjs" => session = Solo)
  /\ IF part = "monsters" THEN monsters!Init ELSE scene = NULL /\ horde = NULL

Keeps(p, v) == part = p /\ UNCHANGED <<part, v>>
ZoneStep(A) ==
  Keeps("zone", <<thinkersVars, moversVars, arsenalVars, mobjsVars, monstersVars>>) /\ A
ThinkersStep(A) ==
  Keeps("thinkers", <<vars, moversVars, arsenalVars, mobjsVars, monstersVars>>) /\ A
MoversStep(A) ==
  Keeps("movers", <<vars, thinkersVars, arsenalVars, mobjsVars, monstersVars>>) /\ A
ArsenalStep(A) ==
  Keeps("arsenal", <<vars, thinkersVars, moversVars, mobjsVars, monstersVars>>) /\ A
MobjsStep(A) ==
  Keeps("mobjs", <<vars, thinkersVars, moversVars, arsenalVars, monstersVars>>) /\ A
MonstersStep(A) ==
  Keeps("monsters", <<vars, thinkersVars, moversVars, arsenalVars, mobjsVars>>) /\ A

EngineNext ==
  \/ ZoneStep(Next) \/ ThinkersStep(ThinkersNext) \/ MoversStep(MoversNext)
  \/ ArsenalStep(ArsenalNext) \/ MobjsStep(MobjsNext) \/ MonstersStep(monsters!Next)

EngineSpec ==
  /\ EngineInit /\ [][EngineNext]_evars
  /\ WF_evars(ZoneStep(Scan))
  /\ \A id \in Ids : WF_evars(MoversStep(Think(id, FALSE)))
  /\ WF_evars(ArsenalStep(Tic))

\* The type invariants of the six modules: each field of a header, a link, a
\* sector, a mover, a player, a pointer or a monster holds what the C type and
\* its readers allow.
TypesOK ==
  CASE part = "zone" -> TypeOK
    [] part = "thinkers" -> ThinkersTypeOK
    [] part = "movers" -> MoversTypeOK
    [] part = "arsenal" -> ArsenalTypeOK
    [] part = "mobjs" -> MobjsTypeOK
    [] part = "monsters" -> monsters!MonstersTypeOK

\* A weapon that was chosen comes up, the attack button held or not, unless
\* the player dies: no attack cycle passes over pendingweapon for ever.
Choosing == part = "arsenal" /\ player.alive /\ player.pending # nochange
ChangeEnds == []<>~ Choosing

\* What must not hang does not: a moving sector comes to rest (see MCMovers), a
\* weapon change comes up, and Z_Malloc's scan of the block ring ends with a
\* block or an error (see Zone).
NothingHangs == Settles /\ ChangeEnds /\ MallocEnds

\* What is dead stays down, nothing reads through a null pointer, and the last
\* boss to die sets off its level's event: see Monsters.
DeadStayDown == part = "monsters" => monsters!DeadStayDown
TargetsChecked == part = "monsters" => monsters!TargetsChecked
BossesTrigger == part = "monsters" => monsters!BossesTrigger
=============================================================================
