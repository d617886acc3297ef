------------------------------- MODULE Mobjs --------------------------------
(***************************************************************************)
(* The map objects that the engine keeps pointers to across tics, levels   *)
(* and loads: the players' bodies (g_game.c, p_mobj.c, p_setup.c), under a *)
(* roster that changes in mid-game (web/d_net.c), the ring of old corpses, *)
(* the items that come back in a deathmatch, and the spots of the boss     *)
(* shooter (p_enemy.c); and what a savegame makes of them (p_saveg.c).     *)
(*                                                                         *)
(* A body stands exactly on a start until it moves; whether it, or a       *)
(* monster, is in the way of a start later is left open.  One item lies at *)
(* each start of items.  An address is not given out again while some      *)
(* pointer still holds it, so that a stale pointer shows.  The two rings   *)
(* are the sequences they stand for.                                       *)
(*                                                                         *)
(* A definition named X_Y is X with a plausible bug in it.                 *)
(***************************************************************************)
EXTENDS Integers, Sequences, FiniteSets, SequencesExt, FiniteSetsExt

CONSTANTS
  MAXPLAYERS,
  Sessions,     \* how the engine is started: [netgame, deathmatch, in, map,
                \*  room]; a map is [starts, items, targets]; room bounds the
                \*  mobjs that exist at once
  Addresses,    \* addresses, 1 .. n
  BODYQUESIZE, ITEMQUESIZE, MAXBRAINTARGETS,
  NULL

Slots == 0 .. MAXPLAYERS - 1    \* the console player is 0
Loaded == <<"loaded">>          \* a savegame that has been loaded
Maps == [starts : SUBSET Slots, items : SUBSET Slots, targets : Nat]

\* There are addresses for what a level, or a save, holds, and for those that the
\* list of spots still holds from the level before.
ASSUME MobjsAssumption ==
  /\ MAXPLAYERS \in Nat \ {0} /\ BODYQUESIZE \in Nat \ {0}
  /\ ITEMQUESIZE \in Nat \ {0} /\ MAXBRAINTARGETS \in Nat \ {0}
  /\ IsFiniteSet(Addresses) /\ NULL \notin Addresses \cup Slots /\ NULL # Loaded
  /\ Sessions \subseteq [netgame : BOOLEAN, deathmatch : 0 .. 2, in : SUBSET Slots,
                          map : Maps, room : Nat]
  /\ \A s \in Sessions :
       /\ s.map.starts # {}
       /\ s.room + MAXBRAINTARGETS <= Cardinality(Addresses)
       /\ s.map.targets + MAXPLAYERS + MAXBRAINTARGETS <= Cardinality(Addresses)

VARIABLES
  session,
  world,        \* see Empty
  file          \* the savegame, or NULL

mobjsVars == <<session, world, file>>

NoMobj == [kind |-> "gone", player |-> NULL, alive |-> FALSE, at |-> NULL]

\* What D_DoomMain and G_InitNew leave before the first level.
Empty(s) ==
  [stage |-> "boot",                            \* "level", "between" two of them
   in |-> s.in,                                 \* playeringame
   ps |-> [i \in Slots |-> "reborn"],         \* playerstate
   mo |-> [i \in Slots |-> NULL],
   mobj |-> [id \in Addresses |-> NoMobj],
   bodyque |-> <<>>,                            \* the last bodies buried, oldest first
   lying |-> [p \in Slots |-> 0],             \* how many items lie at a start
   itemque |-> <<>>,                            \* itemrespawnque, from iquetail to iquehead
   targets |-> <<>>, on |-> 0, awake |-> FALSE, \* braintargets, braintargeton, the shooter
   loaded |-> FALSE, error |-> FALSE,           \* I_Error
   seen |-> {}]                                 \* what the last step came across

Present(v) == {id \in Addresses : v.mobj[id] # NoMobj}
Of(v, kind) == {id \in Addresses : v.mobj[id].kind = kind}

Pointers(v) == Range(v.mo) \cup Range(v.targets) \cup Range(v.bodyque)

HasRoom(v, n) == Cardinality(Present(v)) + n <= session.room
Unused(v) == Addresses \ (Present(v) \cup Pointers(v))
NewAddress(v) == CHOOSE id \in Unused(v) : TRUE
P_SpawnMobj(v, mobj) == [v EXCEPT !.mobj[NewAddress(v)] = mobj]

\* An item that is taken or swept away is queued; the ring loses its oldest
\* entry when it is full.
Latest(que, n) == IF Len(que) <= n THEN que ELSE SubSeq(que, Len(que) - n + 1, Len(que))
P_RemoveMobj(v, item) ==
  [v EXCEPT !.lying[item] = @ - 1, !.itemque = Latest(Append(@, item), ITEMQUESIZE - 1)]

-----------------------------------------------------------------------------
(* Bodies and where they spawn.                                            *)

\* What P_CheckPosition finds in the way at start s.  (A dead body is not, nor,
\* after A_Fall, one whose player was taken from it.)
InTheWay(v, s, me, taken) ==
  s \in taken \/ \E id \in Of(v, "body") \ {me} : v.mobj[id].alive /\ v.mobj[id].at = s

\* PIT_CheckThing picks up what lies there on the way, if the toucher lives:
\* P_TouchSpecialThing gives it to toucher->player.
TouchItem(v, id, s) ==
  IF v.lying[s] = 0 \/ ~ v.mobj[id].alive THEN v
  ELSE P_RemoveMobj([v EXCEPT !.seen = IF v.mobj[id].player = NULL THEN @ \cup {"blind"} ELSE @], s)

\* The ring's oldest body is freed for the next one.
Bury(v, id) ==
  LET que == Append(v.bodyque, id) IN
  [v EXCEPT !.bodyque = Latest(que, BODYQUESIZE),
            !.mobj = IF Len(que) > BODYQUESIZE THEN [@ EXCEPT ![Head(que)] = NoMobj] ELSE @]

\* [ok, v].  taken are the starts that something may be in the way of.
G_CheckSpot(v, i, s, taken) ==
  LET me == v.mo[i]
      over == InTheWay(v, s, me, taken)
      u == TouchItem(v, me, s)
      exact == \E j \in Slots : j < i /\ v.mo[j] # NULL /\ v.mobj[v.mo[j]].at = s
  IN IF me = NULL
     THEN [ok |-> ~ exact,
           v |-> [v EXCEPT !.seen = IF over /\ ~ exact THEN @ \cup {"crowded"} ELSE @]]
     ELSE IF over THEN [ok |-> FALSE, v |-> u]
     ELSE [ok |-> TRUE, v |-> Bury(u, me)]

P_SpawnPlayer(v, i, s) ==
  LET body == [kind |-> "body", player |-> i, alive |-> TRUE, at |-> s]
  IN IF i \notin v.in THEN v
     ELSE [P_SpawnMobj(v, body) EXCEPT !.ps[i] = "live", !.mo[i] = NewAddress(v)]

\* Any of the spots that G_CheckSpot accepts, after some that it does not; 20
\* tries may miss the others.  (A deathmatch spot lies at each player's start.)
MissSpot(vs, i, s, taken) ==
  LET Check(v) == G_CheckSpot(v, i, s, taken)
  IN vs \cup {Check(v).v : v \in {u \in vs : ~ Check(u).ok}}

MissSpots(v, i, taken) ==
  LET missed[n \in 0 .. MAXPLAYERS] ==
        IF n = 0 THEN {v} ELSE MissSpot(missed[n - 1], i, n - 1, taken)
  IN missed[MAXPLAYERS]

G_DeathMatchSpawnPlayer(v, i, taken) ==
  LET Check(u, s) == G_CheckSpot(u, i, s, taken)
      Found(u) == {P_SpawnPlayer(Check(u, s).v, i, s) : s \in {x \in Slots : Check(u, x).ok}}
      Stuck(u) == IF \E s \in Slots : ~ Check(u, s).ok THEN {P_SpawnPlayer(u, i, i)} ELSE {}
  IN UNION {Found(u) \cup Stuck(u) : u \in MissSpots(v, i, taken)}

\* One more start is tried, if none was accepted yet: try is [ok, v], the player
\* spawned if ok.
TrySpot(try, i, s, taken) ==
  LET check == G_CheckSpot(try.v, i, s, taken) IN
  IF try.ok \/ s \notin session.map.starts THEN try
  ELSE [check EXCEPT !.v = IF check.ok THEN P_SpawnPlayer(@, i, s) ELSE @]

TryStarts(try, i, taken) ==
  LET tried[n \in 0 .. MAXPLAYERS] ==
        IF n = 0 THEN try ELSE TrySpot(tried[n - 1], i, n - 1, taken)
  IN tried[MAXPLAYERS]

\* G_StepAside may find no room: the player stays where it was spawned.
G_SpawnAtAnyStart(v, i, taken) ==
  LET try == TryStarts([ok |-> FALSE, v |-> v], i, taken)
      u == P_SpawnPlayer(try.v, i, Min(session.map.starts))
  IN IF try.ok THEN {try.v}
     ELSE {u, [u EXCEPT !.mobj[u.mo[i]].at = NULL]}

Dissociated(v, i) ==
  LET id == v.mo[i] IN
  IF id = NULL THEN v
  ELSE [v EXCEPT !.mobj[id] = [@ EXCEPT !.player = NULL, !.at = NULL]]

\* A net game's; any other one reloads the level.
G_DoReborn(v, i, taken) ==
  LET u == Dissociated(v, i)
      try == TryStarts(TrySpot([ok |-> FALSE, v |-> u], i, i, taken), i, taken)
  IN IF session.deathmatch > 0 THEN G_DeathMatchSpawnPlayer(u, i, taken)
     ELSE IF try.ok THEN {try.v}
     ELSE IF i \in session.map.starts THEN {P_SpawnPlayer(try.v, i, i)}
     ELSE G_SpawnAtAnyStart(try.v, i, taken)

\* Everything of the level before is freed first.
NoBodies_Kept(v) == v
NoBodies(v) == [v EXCEPT !.mo = [i \in Slots |-> NULL]]
Cleared(v) ==
  [NoBodies(v) EXCEPT
     !.mobj = [id \in Addresses |-> NoMobj], !.bodyque = <<>>, !.itemque = <<>>,
     !.awake = FALSE, !.loaded = FALSE,
     !.lying = [p \in Slots |-> IF p \in session.map.items THEN 1 ELSE 0]]

\* The things that are not players.
Things(v) ==
  LET spots == CHOOSE S \in SUBSET Unused(v) : Cardinality(S) = session.map.targets
  IN [v EXCEPT !.mobj = [id \in Addresses |-> IF id \in spots THEN [kind |-> "target"] ELSE @[id]]]

\* A player's turn, in each of the passes over the players: to its own start, or to
\* another's for want of one, or to any spot of a deathmatch.
PlayersTurn(v, i, pass) ==
  CASE pass = "own" -> {IF i \in session.map.starts THEN P_SpawnPlayer(v, i, i) ELSE v}
    [] pass = "missing" ->
         IF i \in v.in \ session.map.starts THEN G_SpawnAtAnyStart(v, i, {}) ELSE {v}
    [] pass = "random" -> IF i \in v.in THEN G_DeathMatchSpawnPlayer(v, i, {}) ELSE {v}

EachTurn(vs, i, pass) == UNION {PlayersTurn(v, i, pass) : v \in vs}
InTurn(vs, pass) ==
  LET after[n \in 0 .. MAXPLAYERS] ==
        IF n = 0 THEN vs ELSE EachTurn(after[n - 1], n - 1, pass)
  IN after[MAXPLAYERS]

P_SetupLevel(v) ==
  LET things == {Things(Cleared(v))} IN
  IF session.deathmatch > 0 THEN InTurn(things, "random")
  ELSE InTurn(InTurn(things, "own"), "missing")

\* The dead come back with the level.
G_DoLoadLevel(v) ==
  P_SetupLevel([v EXCEPT !.stage = "level",
                         !.ps = [i \in Slots |-> IF i \in v.in /\ @[i] = "dead" THEN "reborn" ELSE @[i]]])

-----------------------------------------------------------------------------
(* The boss shooter and its cubes.                                         *)

P_BrainTargets(v) ==
  LET all == SetToSeq(Of(v, "target"))
  IN [v EXCEPT !.targets = IF Len(all) <= MAXBRAINTARGETS THEN all
                           ELSE SubSeq(all, 1, MAXBRAINTARGETS),
               !.on = 0]

\* The cube goes to the next target; with none it is an I_Error.
A_BrainSpit(v) ==
  IF v.targets = <<>> THEN [v EXCEPT !.error = TRUE]
  ELSE [P_SpawnMobj(v, [kind |-> "cube", target |-> v.targets[v.on + 1]])
          EXCEPT !.on = (@ + 1) % Len(v.targets)]

\* The cube has arrived: a monster is spawned where its target is, or, with a
\* target that a load dropped, where P_ZeroMobj is.
A_SpawnFly(v, id) == [v EXCEPT !.mobj[id] = NoMobj]

-----------------------------------------------------------------------------
(* Savegames.                                                              *)

\* P_ArchiveThinkers: pointers between mobjs are not kept.
P_Archive(v) ==
  LET Forget(id) == IF v.mobj[id].kind = "cube" THEN [v.mobj[id] EXCEPT !.target = NULL] ELSE v.mobj[id]
      ids == SetToSeq(Present(v))
  IN [map |-> session.map, in |-> v.in, ps |-> v.ps, lying |-> v.lying, awake |-> v.awake,
      mobjs |-> [n \in DOMAIN ids |-> Forget(ids[n])]]

\* The mobjs of the level just set up are removed, the items with the others.
SweptAway(v) ==
  LET items == SetToSeq({p \in Slots : v.lying[p] > 0})
  IN [v EXCEPT !.mobj = [id \in Addresses |-> NoMobj], !.lying = [p \in Slots |-> 0],
               !.itemque = Latest(@ \o items, ITEMQUESIZE - 1)]

\* The n-th mobj of the file gets the n-th address that no pointer holds.
UnArchived(v, f) ==
  LET address == SetToSeq(Unused(v))
      Read(id) == {n \in DOMAIN f.mobjs : address[n] = id}
      mobj == [id \in Addresses |-> IF Read(id) = {} THEN NoMobj ELSE f.mobjs[CHOOSE n \in Read(id) : TRUE]]
      BodyOf(i) == {id \in Addresses : mobj[id].kind = "body" /\ mobj[id].player = i}
      mo == [i \in Slots |-> IF BodyOf(i) = {} THEN NULL ELSE CHOOSE id \in BodyOf(i) : TRUE]
  IN [v EXCEPT !.mobj = mobj, !.mo = mo,
               !.error = \E i \in Slots : (BodyOf(i) = {}) = (i \in v.in)]

Retargeted(v) == P_BrainTargets(v)

\* G_InitNew, then P_UnArchivePlayers, the thinkers and P_BrainTargets.
G_DoLoadGame(f) ==
  LET begun == [world EXCEPT !.in = f.in, !.ps = [i \in Slots |-> "reborn"]]
      Read(v) == UnArchived(
                   [SweptAway(NoBodies(v)) EXCEPT !.ps = f.ps,
                                        !.lying = f.lying, !.awake = f.awake, !.loaded = TRUE], f)
  IN IF 0 \notin f.in THEN {[world EXCEPT !.error = TRUE]}
     ELSE {Retargeted(Read(v)) : v \in G_DoLoadLevel(begun)}

-----------------------------------------------------------------------------
Unseen == [world EXCEPT !.seen = {}]
StepTo(vs) == world' \in vs /\ UNCHANGED <<session, file>>
\* Bound: a net game is not followed past its save.
Followed == world.stage # "boot" /\ ~ world.error /\ ~ (session.netgame /\ file # NULL)
Playing == world.stage = "level" /\ Followed
\* G_Ticker's reborns come before its other actions.
NobodyWaits == \A i \in world.in : world.ps[i] # "reborn"

MobjsInit == session \in Sessions /\ file = NULL /\ world = Empty(session)

\* The page is loaded again, for the game that was saved.
Boot ==
  /\ session.netgame /\ file # NULL
  /\ session' \in Sessions /\ session'.map = session.map /\ ~ session'.netgame
  /\ world' = Empty(session') /\ UNCHANGED file
NewGame == world.stage = "boot" /\ file = NULL /\ StepTo(G_DoLoadLevel(Unseen))

\* apply_roster, in any gamestate; G_Ticker's first loop follows in the same tic.
\* A session that everybody left is over.
Join(i) ==
  /\ session.netgame /\ Followed /\ i \notin world.in /\ HasRoom(world, 1)
  /\ \E taken \in {{}, Slots} :
       StepTo(G_DoReborn([Unseen EXCEPT !.in = @ \cup {i}, !.ps[i] = "reborn"], i, taken))
Leave(i) ==
  /\ session.netgame /\ Followed /\ i \in world.in /\ world.in # {i}
  /\ StepTo({[Unseen EXCEPT !.in = @ \ {i}]})

Respawns(i) ==
  /\ Followed /\ i \in world.in /\ world.ps[i] = "reborn" /\ HasRoom(world, 1)
  /\ IF session.netgame
     THEN \E taken \in {{}, Slots} : StepTo(G_DoReborn(Unseen, i, taken))
     ELSE StepTo(G_DoLoadLevel(Unseen))

\* A player walks, or a body is thrust, to an item or to none.
Move(id) ==
  LET v == [Unseen EXCEPT !.mobj[id].at = NULL] IN
  /\ Playing /\ world.mobj[id].kind = "body" /\ world.mobj[id].alive
  /\ StepTo({v} \cup {TouchItem(v, id, s) : s \in Slots})

\* P_KillMobj.  Where the dead lie is kept while G_CheckSpot may ask for it.
BodyDies(id) ==
  /\ Playing /\ world.mobj[id].kind = "body" /\ world.mobj[id].alive
  /\ LET i == world.mobj[id].player
         v == [Unseen EXCEPT !.mobj[id].alive = FALSE,
                             !.mobj[id].at = IF i = NULL THEN NULL ELSE @]
     IN StepTo({IF i = NULL THEN v ELSE [v EXCEPT !.ps[i] = "dead"]})

\* P_DeathThink
PressUse(i) ==
  /\ Playing /\ i \in world.in /\ world.ps[i] = "dead"
  /\ StepTo({[Unseen EXCEPT !.ps[i] = "reborn"]})

\* A_BrainAwake, A_BrainSpit, A_SpawnFly.  (Bound: one cube in the air.)
Shooter ==
  /\ Playing /\ session.map.targets > 0
  /\ \/ ~ world.awake /\ StepTo({P_BrainTargets([Unseen EXCEPT !.awake = TRUE])})
     \/ world.awake /\ Of(world, "cube") = {} /\ HasRoom(world, 1) /\ StepTo({A_BrainSpit(Unseen)})
     \/ \E id \in Of(world, "cube") : StepTo({A_SpawnFly(Unseen, id)})

\* The oldest entry, after its 30 seconds.
P_RespawnSpecials ==
  /\ Playing /\ session.deathmatch = 2 /\ world.itemque # <<>>
  /\ StepTo({[Unseen EXCEPT !.lying[Head(world.itemque)] = @ + 1, !.itemque = Tail(@)]})

\* G_DoCompleted, G_DoWorldDone
Complete == Playing /\ NobodyWaits /\ StepTo({[Unseen EXCEPT !.stage = "between"]})
WorldDone ==
  /\ world.stage = "between" /\ Followed /\ NobodyWaits
  /\ StepTo(G_DoLoadLevel(Unseen))

\* A save is for every machine of a net game; a load is not for a net game.
\* (Bound: one save is made, and it is loaded once, in a session of its map.)
SaveGame ==
  /\ Playing /\ NobodyWaits /\ HasRoom(world, 0) /\ file = NULL /\ file' = P_Archive(world)
  /\ \E s \in Sessions : ~ s.netgame /\ s.map = session.map
  /\ world' = Unseen /\ UNCHANGED session
LoadGame ==
  /\ ~ session.netgame /\ (world.stage = "boot" \/ NobodyWaits) /\ ~ world.error
  /\ file \notin {NULL, Loaded} /\ file.map = session.map
  /\ world' \in G_DoLoadGame(file) /\ file' = Loaded /\ UNCHANGED session

MobjsNext ==
  \/ Boot \/ NewGame \/ Shooter \/ P_RespawnSpecials \/ Complete \/ WorldDone \/ SaveGame \/ LoadGame
  \/ \E i \in Slots : Join(i) \/ Leave(i) \/ Respawns(i) \/ PressUse(i)
  \/ \E id \in Addresses : Move(id) \/ BodyDies(id)

MobjsSpec == MobjsInit /\ [][MobjsNext]_mobjsVars

-----------------------------------------------------------------------------
Objects ==
  {NoMobj} \cup [kind : {"target"}] \cup [kind : {"cube"}, target : Addresses \cup {NULL}]
    \cup [kind : {"body"}, player : Slots \cup {NULL}, alive : BOOLEAN, at : Slots \cup {NULL}]
Worlds ==
  [stage : {"boot", "level", "between"}, in : SUBSET Slots,
   ps : [Slots -> {"live", "dead", "reborn"}], mo : [Slots -> Addresses \cup {NULL}],
   mobj : [Addresses -> Objects], bodyque : Seq(Addresses), lying : [Slots -> Nat], itemque : Seq(Slots),
   targets : Seq(Addresses), on : 0 .. MAXBRAINTARGETS - 1, awake : BOOLEAN, loaded : BOOLEAN,
   error : BOOLEAN, seen : SUBSET {"blind", "crowded"}]
Saves ==
  [map : Maps, in : SUBSET Slots, ps : [Slots -> {"live", "dead", "reborn"}],
   lying : [Slots -> Nat], awake : BOOLEAN, mobjs : Seq(Objects)]

\* Each pointer is an address or NULL, and each ring and list within its table.
MobjsTypeOK ==
  /\ session \in Sessions /\ world \in Worlds
  /\ file \in {NULL, Loaded} \/ file \in Saves
  /\ Len(world.bodyque) <= BODYQUESIZE /\ Len(world.itemque) < ITEMQUESIZE
  /\ Len(world.targets) <= MAXBRAINTARGETS

\* No pointer the engine will follow outlives what it points to, whoever
\* joined, left, died or came back in between, and whatever was loaded: a
\* player in the game has a body of its own, also one that joined in an
\* intermission; an entry of bodyque names a corpse nobody else points to; an
\* awake shooter's list is this level's spots, and a cube's target is one of
\* them or was dropped by a load and is not read.
PointersHold ==
  Followed =>
    /\ \A i \in Slots : world.mo[i] # NULL => world.mobj[world.mo[i]].kind = "body"
    /\ \A i \in world.in : world.ps[i] # "reborn" => world.mo[i] # NULL /\ world.mobj[world.mo[i]].player = i
    /\ \A id \in Of(world, "body") : world.mobj[id].player # NULL => world.mo[world.mobj[id].player] = id
    /\ IsInjective(world.bodyque)
    /\ \A id \in Range(world.bodyque) : world.mobj[id].kind = "body" /\ world.mobj[id].player = NULL
    /\ world.awake => /\ Range(world.targets) \subseteq Of(world, "target") /\ world.targets # <<>>
                      /\ world.on \in 0 .. Len(world.targets) - 1
    /\ \A id \in Of(world, "cube") : world.mobj[id].target \in Of(world, "target") \cup {NULL}

\* An item lies at its place or waits in the queue to come back, never both,
\* and while the queue has room for all of them it is not lost.  A load is the
\* exception: it sweeps the fresh level's items into the queue, which has no
\* effect unless the game it is loaded in is a lone -altdeath one.
ItemOnce ==
  Followed =>
    \A p \in Slots :
      LET n == world.lying[p] + Cardinality({k \in DOMAIN world.itemque : world.itemque[k] = p}) IN
      /\ ~ world.loaded => n <= 1
      /\ ~ world.loaded /\ p \in session.map.items /\ Cardinality(session.map.items) < ITEMQUESIZE => n = 1
      /\ session.deathmatch # 2 => world.lying[p] <= 1

ObjectsSound == PointersHold /\ ItemOnce

\* g_game.c, of G_CheckSpot: "Returns false if the player cannot be respawned
\* at the given mapthing_t spot because something is occupying it".  False: a
\* drop-in has no body yet, and is checked as at the start of a level, against
\* the players of lower slots who stand exactly on the spot.
SpotIsFree == "crowded" \notin world.seen

\* p_mobj.c, of the memory at address 0: "nothing lives" there "and nothing
\* writes".  False: G_DoReborn takes the player from the body of one who left
\* alive, and that body then picks up what it touches, at once in G_CheckSpot.
TouchHasPlayer == "blind" \notin world.seen
=============================================================================
