------------------------------- MODULE Movers -------------------------------
(***************************************************************************)
(* The moving sectors of engine/core: platforms (p_plats.c), ceilings      *)
(* (p_ceilng.c), doors (p_doors.c) and floors (p_floor.c, and the donut of *)
(* p_spec.c), which share the sector's specialdata, and their way through  *)
(* a savegame (p_saveg.c).  Lines are used and thinkers think in any       *)
(* order: every mobj is a thinker too, and any of them may use a line.     *)
(*                                                                         *)
(* Types that differ only in speed, sound, texture or destination are one; *)
(* the plane moves one step of height a tic.  A field the code leaves      *)
(* uninitialised takes any value of Garbage.                               *)
(*                                                                         *)
(* A definition named X_Y is X with a plausible bug in it: X's property    *)
(* must fail under it (PROJECT.json, "mutants").                           *)
(***************************************************************************)
EXTENDS Integers, Sequences, FiniteSets, FiniteSetsExt, SequencesExt

CONSTANTS
  Levels,       \* maps: [lines, tagged, stairs, ring, special, floor, ceil]; a
                \* line is [op, type, face, once]
  Ids,          \* bound: the thinkers that exist at once, 1..n
  MAXPLATS, MAXCEILINGS,
  Wait,         \* PLATWAIT, VDOORWAIT, and the doors' longer waits, in tics
  Rise,         \* what the types with a fixed rise add to a floor
  Clear,        \* the 8 units a crusher leaves open
  Grain,        \* the steps of height in one unit, all that a savegame keeps
  Garbage       \* the heights an uninitialised field may hold

\* What a line's special asks for.
LineTypes ==
  [plat |-> {"perpetualRaise", "downWaitUpStay", "raiseAndChange"}, stopplat |-> {"-"},
   ceiling |-> {"lowerToFloor", "raiseToHighest", "crushAndRaise"}, stopceiling |-> {"-"},
   door |-> {"normal", "open", "close", "close30ThenOpen"}, own |-> {"normal", "open"},
   floor |-> {"lowerFloor", "raiseFloor", "raiseFloorCrush"}, stairs |-> {"-"}, donut |-> {"-"}]

ASSUME MoversAssumption ==
  /\ {MAXPLATS, MAXCEILINGS, Wait, Rise, Grain} \subseteq Nat \ {0} /\ Clear \in Nat
  /\ IsFiniteSet(Ids) /\ Ids = 1 .. Cardinality(Ids) /\ Garbage \subseteq Int
  /\ \A lv \in Levels : \E n \in Ids :      \* bound: a thinker for every sector
       /\ lv.floor \in [0 .. n -> Int] /\ lv.ceil \in [0 .. n -> Int]
       /\ lv.tagged \in Seq(1 .. n) /\ lv.stairs \in Seq(1 .. n)
       /\ \A l \in lv.lines : /\ l.op \in DOMAIN LineTypes /\ l.type \in LineTypes[l.op]
                              /\ l.op = "own" => l.face[1] \in 1 .. n
       \* no door's own line faces a sector that a ceiling's line is tagged with:
       \* what door->direction is on a ceiling is not modelled
       /\ \A own, k \in lv.lines :
            own.op = "own" /\ k.op = "ceiling" => own.face[1] \notin ToSet(lv.tagged)
       \* a staircase comes by no sector twice
       /\ IsInjective(lv.stairs) /\ ToSet(lv.stairs) \cap ToSet(lv.tagged) = {}
       \* a donut is one hole and one ring
       /\ (\E l \in lv.lines : l.op = "donut") =>
            Len(lv.tagged) = 1 /\ lv.ring \in 1 .. n /\ lv.ring # lv.tagged[1]

VARIABLES
  level,        \* the map, which never changes
  lines,        \* its lines that still have their special
  calm,         \* from now on nothing uses a line or stands in the way
  w             \* the state of the playsim that the handlers below change:
                \* floor, ceil  sector heights
                \* data         sector->specialdata, an id or Null
                \* mover        id -> the thinker, or Gone
                \* list         the thinkers' ids in list order
                \* plats, ceilings   activeplats, activeceilings
                \* error        "no", or which I_Error ended the game

moversVars == <<level, lines, calm, w>>

NoMover == 0
Gone == [kind |-> "gone"]
Forever == -1         \* a countdown that has passed zero: 2^32 tics
Sectors == DOMAIN level.floor       \* 0 is the outside, which never moves
Live == {id \in Ids : w.mover[id] # Gone}
Saved(h) == (h \div Grain) * Grain

-----------------------------------------------------------------------------
(* What the sectors around s offer a mover (p_spec.c).                     *)

Surrounding(s) == Sectors \ {s}

P_FindLowestFloorSurrounding(v, s) == Min({v.floor[o] : o \in Sectors})
P_FindHighestFloorSurrounding(v, s) == Max({v.floor[o] : o \in Surrounding(s)})
P_FindLowestCeilingSurrounding(v, s) == Min({v.ceil[o] : o \in Surrounding(s)})
P_FindHighestCeilingSurrounding(v, s) == Max({0} \cup {v.ceil[o] : o \in Surrounding(s)})

\* T_MovePlane: one step towards dest.  stuck: P_ChangeSector found a thing
\* that does not fit; through: the plane crushes it and goes on.
T_MovePlane(h, dest, dir, through, stuck) ==
  LET step == IF dir = "up" THEN h + 1 ELSE h - 1
      past == IF dir = "up" THEN step > dest ELSE step < dest
  IN IF past
     THEN [h |-> IF stuck THEN h ELSE dest, res |-> "pastdest"]
     ELSE IF stuck
          THEN [h |-> IF through THEN step ELSE h, res |-> "crushed"]
          ELSE [h |-> step, res |-> "ok"]

MoveFloor(v, m, dest, through, stuck) ==
  T_MovePlane(v.floor[m.sec], dest, m.dir, through /\ m.dir = "up", stuck)
\* A rising ceiling minds a thing only on its last step.
MoveCeiling(v, m, dest, stuck) ==
  T_MovePlane(v.ceil[m.sec], dest, m.dir, m.crush,
              stuck /\ (m.dir = "down" \/ v.ceil[m.sec] + 1 > dest))

-----------------------------------------------------------------------------
(* Thinkers, their sector's specialdata and the active lists.              *)

\* Z_Malloc, P_AddThinker and the sector's specialdata, which is overwritten.
Spawn(v, id, m) ==
  [v EXCEPT !.mover[id] = m, !.list = Append(@, id), !.data[m.sec] = id]

Fresh(v) == Min({id \in Ids : v.mover[id] = Gone})

\* specialdata = NULL and P_RemoveThinker
Without(list, id) == RemoveAt(list, CHOOSE i \in DOMAIN list : list[i] = id)
Detach(v, id) ==
  [v EXCEPT !.mover[id] = Gone, !.list = Without(@, id),
            !.data[v.mover[id].sec] = NoMover]

P_AddActivePlat(v, id) ==
  IF Cardinality(v.plats) < MAXPLATS
  THEN [v EXCEPT !.plats = @ \cup {id}]
  ELSE [v EXCEPT !.error = "full"]

P_RemoveActivePlat_KeepsSlot(v, id) ==
  IF id \in v.plats THEN Detach(v, id) ELSE [v EXCEPT !.error = "lost"]
P_RemoveActivePlat(v, id) ==
  IF id \in v.plats
  THEN [Detach(v, id) EXCEPT !.plats = @ \ {id}]
  ELSE [v EXCEPT !.error = "lost"]

\* The ceiling that finds no slot is not recorded, and nobody is told.
P_AddActiveCeiling(v, id) ==
  IF Cardinality(v.ceilings) < MAXCEILINGS
  THEN [v EXCEPT !.ceilings = @ \cup {id}]
  ELSE v

P_RemoveActiveCeiling(v, id) ==
  IF id \in v.ceilings
  THEN [Detach(v, id) EXCEPT !.ceilings = @ \ {id}]
  ELSE v

Start(v, m) ==
  LET id == Fresh(v)
      u == Spawn(v, id, m)
  IN CASE m.kind = "plat" -> P_AddActivePlat(u, id)
       [] m.kind = "ceiling" -> P_AddActiveCeiling(u, id)
       [] OTHER -> u

\* One after another, whatever their sectors are doing.
StartEach(v, movers) ==
  FoldLeft(LAMBDA u, m : IF m = Gone THEN u ELSE Start(u, m), v, movers)

\* What every EV_Do... does: the tagged sectors in order, but those that have
\* specialdata.  I_Error ends it.
TaggedSectors == ToSet(level.tagged)
StartTagged(v, made) ==
  FoldLeft(LAMBDA u, s : IF u.error = "no" /\ u.data[s] = NoMover
                         THEN Start(u, made[s]) ELSE u,
           v, level.tagged)

\* The fields of a thinker; low and high are where its plane turns or stops.
Mover(kind, type, s, dir, low, high, wait) ==
  [kind |-> kind, type |-> type, sec |-> s, dir |-> dir, old |-> dir,
   low |-> low, high |-> high, wait |-> wait, count |-> wait,
   crush |-> FALSE]

-----------------------------------------------------------------------------
(* Platforms.                                                              *)

T_PlatRaise(v, id, stuck) ==
  LET m == v.mover[id]
      r == MoveFloor(v, m, IF m.dir = "up" THEN m.high ELSE m.low, m.crush, stuck)
      u == [v EXCEPT !.floor[m.sec] = r.h]
      To(x, dir) == [x EXCEPT !.mover[id].dir = dir, !.mover[id].count = m.wait]
  IN CASE m.dir = "up" /\ r.res = "crushed" -> To(u, "down")
       [] m.dir = "up" /\ r.res = "pastdest" ->
            IF m.type = "perpetualRaise"
            THEN To(u, "waiting") ELSE P_RemoveActivePlat(To(u, "waiting"), id)
       [] m.dir = "down" /\ r.res = "pastdest" -> To(u, "waiting")
       [] m.dir = "waiting" ->
            IF m.count = 1
            THEN [v EXCEPT !.mover[id].count = 0,
                           !.mover[id].dir = IF v.floor[m.sec] = m.low THEN "up" ELSE "down"]
            ELSE [v EXCEPT !.mover[id].count = IF m.count > 0 THEN m.count - 1 ELSE Forever]
       [] OTHER -> u

P_ActivateInStasis(v) ==
  [v EXCEPT !.mover = [id \in Ids |->
     IF id \in v.plats /\ v.mover[id].dir = "stasis"
     THEN [v.mover[id] EXCEPT !.dir = v.mover[id].old] ELSE v.mover[id]]]

\* pick: P_Random for the perpetual types, and what low holds in the types
\* that never set it.
Plat(type, pick, v, s) ==
  LET lowest == P_FindLowestFloorSurrounding(v, s)
      here == v.floor[s]
  IN CASE type = "perpetualRaise" ->
            Mover("plat", type, s, IF pick[s] > 0 THEN "up" ELSE "down", lowest,
                  Max({here, P_FindHighestFloorSurrounding(v, s)}), Wait)
       [] type = "downWaitUpStay" ->
            Mover("plat", type, s, "down", lowest, here, Wait)
       [] type = "raiseAndChange" ->
            Mover("plat", type, s, "up", pick[s], here + Rise, 0)

EV_DoPlat(v, type, pick) ==
  StartTagged(IF type = "perpetualRaise" THEN P_ActivateInStasis(v) ELSE v,
              [s \in TaggedSectors |-> Plat(type, pick, v, s)])

EV_StopPlat(v) ==
  [v EXCEPT !.mover = [id \in Ids |->
     IF id \in v.plats /\ v.mover[id].dir # "stasis"
     THEN [v.mover[id] EXCEPT !.old = v.mover[id].dir, !.dir = "stasis"]
     ELSE v.mover[id]]]

-----------------------------------------------------------------------------
(* Ceilings.                                                               *)

T_MoveCeiling(v, id, stuck) ==
  LET m == v.mover[id]
      r == MoveCeiling(v, m, IF m.dir = "up" THEN m.high ELSE m.low, stuck)
      u == [v EXCEPT !.ceil[m.sec] = r.h]
  IN IF r.res # "pastdest" THEN u
     ELSE IF m.type = "crushAndRaise"
          THEN [u EXCEPT !.mover[id].dir = IF m.dir = "up" THEN "down" ELSE "up"]
          ELSE P_RemoveActiveCeiling(u, id)

P_ActivateInStasisCeiling(v) ==
  [v EXCEPT !.mover = [id \in Ids |->
     IF id \in v.ceilings /\ v.mover[id].dir = "stasis"
     THEN [v.mover[id] EXCEPT !.dir = v.mover[id].old] ELSE v.mover[id]]]

Ceiling(type, v, s) ==
  CASE type = "lowerToFloor" -> Mover("ceiling", type, s, "down", v.floor[s], 0, Wait)
    [] type = "raiseToHighest" ->
         Mover("ceiling", type, s, "up", 0, P_FindHighestCeilingSurrounding(v, s), Wait)
    [] type = "crushAndRaise" ->
         [Mover("ceiling", type, s, "down", v.floor[s] + Clear, v.ceil[s], Wait)
           EXCEPT !.crush = TRUE]

EV_DoCeiling(v, type) ==
  StartTagged(IF type = "crushAndRaise" THEN P_ActivateInStasisCeiling(v) ELSE v,
              [s \in TaggedSectors |-> Ceiling(type, v, s)])

EV_CeilingCrushStop(v) ==
  [v EXCEPT !.mover = [id \in Ids |->
     IF id \in v.ceilings /\ v.mover[id].dir # "stasis"
     THEN [v.mover[id] EXCEPT !.old = v.mover[id].dir, !.dir = "stasis"]
     ELSE v.mover[id]]]

-----------------------------------------------------------------------------
(* Doors.                                                                  *)

Turn(v, id, dir) == [v EXCEPT !.mover[id].dir = dir]

T_VerticalDoor(v, id, stuck) ==
  LET m == v.mover[id]
      down == m.dir = "down"
      r == MoveCeiling(v, m, IF down THEN v.floor[m.sec] ELSE m.high, stuck)
      u == [v EXCEPT !.ceil[m.sec] = r.h]
      last == m.count = 1
      tick == [v EXCEPT !.mover[id].count = IF m.count > 0 THEN m.count - 1 ELSE Forever]
  IN CASE m.dir = "waiting" ->
            IF ~ last THEN tick
            ELSE CASE m.type = "normal" -> Turn(tick, id, "down")
                   [] m.type = "close30ThenOpen" -> Turn(tick, id, "up")
                   [] OTHER -> tick
       [] m.dir = "initial" ->
            IF last /\ m.type = "raiseIn5Mins"
            THEN [Turn(tick, id, "up") EXCEPT !.mover[id].type = "normal"]
            ELSE tick
       [] down /\ r.res = "pastdest" ->
            CASE m.type \in {"normal", "close"} -> Detach(u, id)
              [] m.type = "close30ThenOpen" ->
                   [Turn(u, id, "waiting") EXCEPT !.mover[id].count = Wait]
              [] OTHER -> u
       [] down /\ r.res = "crushed" ->
            IF m.type = "close" THEN u ELSE Turn(u, id, "up")
       [] m.dir = "up" /\ r.res = "pastdest" ->
            CASE m.type = "normal" ->
                   [Turn(u, id, "waiting") EXCEPT !.mover[id].count = m.wait]
              [] m.type \in {"close30ThenOpen", "open"} -> Detach(u, id)
              [] OTHER -> u
       [] OTHER -> u

Door(type, v, s) ==
  CASE type = "close" -> Mover("door", type, s, "down", 0, 0, Wait)
    [] type = "close30ThenOpen" -> Mover("door", type, s, "down", 0, v.ceil[s], Wait)
    [] type \in {"normal", "open"} ->
         Mover("door", type, s, "up", 0, P_FindLowestCeilingSurrounding(v, s), Wait)

EV_DoDoor(v, type) == StartTagged(v, [s \in TaggedSectors |-> Door(type, v, s)])

\* A use of a door's own line.  A "normal" one (1, 26-28, 117) turns the door
\* that is moving, through door->direction: on a platform that word is wait,
\* on a floor newspecial, which is not modelled.  An "open" one (31-34, 118)
\* starts another door whatever the sector is doing.
EV_VerticalDoor(v, type, s, player) ==
  LET id == v.data[s]
      m == v.mover[id]
      field == IF m.kind = "plat" THEN m.wait = -1 ELSE m.dir = "down"
      Set(up) == IF m.kind = "plat"
                 THEN [v EXCEPT !.mover[id].wait = IF up THEN 1 ELSE -1]
                 ELSE Turn(v, id, IF up THEN "up" ELSE "down")
  IN IF type = "open" \/ id = NoMover THEN Start(v, Door(type, v, s))
     ELSE CASE m.kind = "floor" -> v
            [] m.kind # "floor" /\ field -> Set(TRUE)
            [] OTHER -> IF player THEN Set(FALSE) ELSE v     \* JDC: bad guys never close doors

\* The doors that a level starts with.  P_SpawnDoorCloseIn30 leaves topheight
\* and topwait as they were: pick.
P_SpawnDoorCloseIn30(s, pick) ==
  [Mover("door", "normal", s, "waiting", 0, pick[s], pick[s]) EXCEPT !.count = Wait]

P_SpawnDoorRaiseIn5Mins(v, s) ==
  [Door("normal", v, s) EXCEPT !.type = "raiseIn5Mins", !.dir = "initial"]

-----------------------------------------------------------------------------
(* Floors.                                                                 *)

T_MoveFloor(v, id, stuck) ==
  LET m == v.mover[id]
      r == MoveFloor(v, m, m.high, m.crush, stuck)
      u == [v EXCEPT !.floor[m.sec] = r.h]
  IN IF r.res = "pastdest" THEN Detach(u, id) ELSE u

Floor(type, v, s) ==
  CASE type = "lowerFloor" ->
         Mover("floor", type, s, "down", 0, P_FindHighestFloorSurrounding(v, s), Wait)
    [] type = "raiseFloor" ->
         Mover("floor", type, s, "up", 0,
               Min({v.ceil[s], P_FindLowestCeilingSurrounding(v, s)}), Wait)
    [] type = "raiseFloorCrush" ->
         [Mover("floor", type, s, "up", 0,
                Min({v.ceil[s], P_FindLowestCeilingSurrounding(v, s)}) - Clear, Wait)
           EXCEPT !.crush = TRUE]

EV_DoFloor(v, type) == StartTagged(v, [s \in TaggedSectors |-> Floor(type, v, s)])

\* From each tagged sector up its staircase, each step higher, until the next
\* step is moving; the search for tagged sectors goes on from the last step.
\* floor->crush is not set: pick.
Step(s, height, pick) ==
  [Mover("floor", "step", s, "up", 0, height, Wait) EXCEPT !.crush = pick[s] > 0]

Flight(v, first) ==
  LET steps == <<first>> \o level.stairs
      busy == SelectInSeq(steps, LAMBDA s : v.data[s] # NoMover)
  IN IF busy = 0 THEN steps ELSE SubSeq(steps, 1, busy - 1)

Climb(v, run, pick) ==
  StartEach(v, [i \in DOMAIN run |-> Step(run[i], v.floor[run[1]] + i * Rise, pick)])

EV_BuildStairs(v, pick) ==
  FoldLeft(LAMBDA acc, s :
             IF s > acc.at /\ acc.v.data[s] = NoMover
             THEN [v |-> Climb(acc.v, Flight(acc.v, s), pick), at |-> Last(Flight(acc.v, s))]
             ELSE acc,
           [v |-> v, at |-> 0], level.tagged).v

\* EV_DoDonut: the hole is tagged, the ring around it is level.ring.  Only
\* the hole is asked whether it is moving.
EV_DoDonut(v) ==
  FoldLeft(LAMBDA u, s :
             IF u.data[s] # NoMover THEN u
             ELSE Start(Start(u, Mover("floor", "donutRaise", level.ring, "up", 0, u.floor[0], Wait)),
                        Mover("floor", "lowerFloor", s, "down", 0, u.floor[0], Wait)),
           v, level.tagged)

-----------------------------------------------------------------------------
\* P_SetupLevel: the sectors with special 10 and 14 get their doors.
P_SpawnSpecials(v, pick) ==
  StartEach(v, [s \in 1 .. Cardinality(Sectors) - 1 |->
                  CASE level.special[s] = 10 -> P_SpawnDoorCloseIn30(s, pick)
                    [] level.special[s] = 14 -> P_SpawnDoorRaiseIn5Mins(v, s)
                    [] OTHER -> Gone])

NoMovers(floor, ceil) ==
  [floor |-> floor, ceil |-> ceil,
   data |-> [s \in Sectors |-> NoMover], mover |-> [id \in Ids |-> Gone], list |-> <<>>,
   plats |-> {}, ceilings |-> {}, error |-> "no"]

MoversInit ==
  /\ level \in Levels
  /\ lines = level.lines
  /\ calm = FALSE
  /\ \E pick \in [Sectors -> Garbage] :
       w = P_SpawnSpecials(NoMovers(level.floor, level.ceil), pick)

\* P_ArchiveSpecials takes every thinker whose function it knows, and of those
\* with a NULL function the ones in activeceilings.
Archived_Thinking(v, id) == v.mover[id].dir # "stasis"
Archived(v, id) == v.mover[id].dir # "stasis" \/ id \in v.ceilings

\* P_UnArchiveWorld, P_UnArchiveThinkers and P_UnArchiveSpecials: heights come
\* back in whole units, specialdata and the active lists from the thinkers.
P_UnArchive(v) ==
  StartEach(NoMovers([s \in Sectors |-> Saved(v.floor[s])], [s \in Sectors |-> Saved(v.ceil[s])]),
            [i \in DOMAIN v.list |->
               IF Archived(v, v.list[i]) THEN v.mover[v.list[i]] ELSE Gone])

-----------------------------------------------------------------------------
Picks == [Sectors -> Garbage]
Going == w.error = "no"
\* bound: a line starts movers while there is a thinker for every sector
Room == Cardinality(Ids \ Live) >= Cardinality(Sectors) - 1

\* P_CrossSpecialLine, P_UseSpecialLine and P_ShootSpecialLine, for a line
\* whose special calls op with type.  A line to cross once loses its special;
\* a switch for one use does if its op started something; an "open" line of a
\* door's own does.
Spent(l, started) ==
  \/ l.once = "cross"
  \/ l.once = "switch" /\ started
  \/ l.op = "own" /\ l.type = "open"

Use(l) ==
  /\ Going /\ ~ calm /\ (l.op \in {"stopplat", "stopceiling"} \/ Room)
  /\ \E pick \in Picks, player \in BOOLEAN :
       w' = CASE l.op = "plat" -> EV_DoPlat(w, l.type, pick)
              [] l.op = "stopplat" -> EV_StopPlat(w)
              [] l.op = "ceiling" -> EV_DoCeiling(w, l.type)
              [] l.op = "stopceiling" -> EV_CeilingCrushStop(w)
              [] l.op = "door" -> EV_DoDoor(w, l.type)
              [] l.op = "own" -> EV_VerticalDoor(w, l.type, l.face[1], player)
              [] l.op = "floor" -> EV_DoFloor(w, l.type)
              [] l.op = "stairs" -> EV_BuildStairs(w, pick)
              [] l.op = "donut" -> EV_DoDonut(w)
  /\ lines' = IF Spent(l, w'.list # w.list) THEN lines \ {l} ELSE lines
  /\ UNCHANGED <<level, calm>>

\* One thinker of P_RunThinkers; in stasis its function is NULL.
Think(id, stuck) ==
  /\ Going /\ id \in Live /\ w.mover[id].dir # "stasis"
  /\ stuck => ~ calm
  /\ w' = CASE w.mover[id].kind = "plat" -> T_PlatRaise(w, id, stuck)
             [] w.mover[id].kind = "ceiling" -> T_MoveCeiling(w, id, stuck)
             [] w.mover[id].kind = "door" -> T_VerticalDoor(w, id, stuck)
             [] w.mover[id].kind = "floor" -> T_MoveFloor(w, id, stuck)
  /\ UNCHANGED <<level, lines, calm>>

\* The game is saved and, whatever is played in between, loaded: what a load
\* leaves depends on the file alone.
Reload ==
  /\ Going /\ ~ calm
  /\ w' = P_UnArchive(w)
  /\ UNCHANGED <<level, lines, calm>>

Calm ==
  /\ ~ calm /\ calm' = TRUE
  /\ UNCHANGED <<level, lines, w>>

MoversNext ==
  \/ \E l \in lines : Use(l)
  \/ \E id \in Ids, stuck \in BOOLEAN : Think(id, stuck)
  \/ Reload \/ Calm

MoversSpec == MoversInit /\ [][MoversNext]_moversVars

-----------------------------------------------------------------------------
Kinds == {"plat", "ceiling", "door", "floor"}

MoversTypeOK ==
  /\ level \in Levels /\ lines \subseteq level.lines /\ calm \in BOOLEAN
  /\ w.floor \in [Sectors -> Int] /\ w.ceil \in [Sectors -> Int]
  /\ w.data \in [Sectors -> Ids \cup {NoMover}]
  /\ \A id \in Live :
       /\ w.mover[id].kind \in Kinds /\ w.mover[id].sec \in Sectors \ {0}
       /\ w.mover[id].dir \in {"up", "down", "waiting", "initial", "stasis"}
       /\ w.mover[id].crush \in BOOLEAN
       /\ {w.mover[id].low, w.mover[id].high, w.mover[id].wait, w.mover[id].count} \subseteq Int
  /\ w.plats \cup w.ceilings \subseteq Ids
  /\ w.error \in {"no", "full", "lost"}

\* The list holds each thinker once, and a sector's specialdata is never left
\* pointing at a thinker that is gone or that moves another sector.  (Part of
\* OneMover.)
Attached ==
  /\ ToSet(w.list) = Live /\ Len(w.list) = Cardinality(Live)
  /\ \A s \in Sectors : w.data[s] # NoMover =>
       w.data[s] \in Live /\ w.mover[w.data[s]].sec = s

\* The sectors where a mover may be started over another one: those with an
\* "open" line of their own, and the ring of a donut.
Overwritten ==
  {l.face[1] : l \in {k \in level.lines : k.op = "own" /\ k.type = "open"}}
    \cup {level.ring : l \in {k \in level.lines : k.op = "donut"}}

OneMover ==
  /\ Attached
  /\ \A id \in Live : w.mover[id].sec \notin Overwritten => w.data[w.mover[id].sec] = id

\* The map may have more ceilings at once than activeceilings holds.
Crowded == Cardinality(TaggedSectors) > MAXCEILINGS

TablesTrue ==
  /\ w.error = "no" => w.plats = {id \in Live : w.mover[id].kind = "plat"}
  /\ w.ceilings \subseteq {id \in Live : w.mover[id].kind = "ceiling"}
  /\ ~ Crowded => {id \in Live : w.mover[id].kind = "ceiling"} \subseteq w.ceilings
  /\ w.error # "lost"
  /\ \A id \in Live : w.mover[id].dir = "stasis" =>
       /\ id \in w.plats \cup w.ceilings \/ (Crowded /\ w.mover[id].kind = "ceiling")
       /\ w.mover[id].old # "stasis"

\* specialdata never dangles, and outside those sectors it is the sector's one
\* mover, through every stop, restart, finish, poke and reload.  activeplats
\* holds the platforms that exist, so that one that finishes is found there (or
\* the game ends: "P_RemoveActivePlat: can't find plat!"); activeceilings holds
\* no ceiling that is gone, and all there are where they fit.  A thinker in
\* stasis can be woken: it is in its table, and it remembers a direction to go on
\* with, even when it was stopped twice.  (Where they do not fit, a load may give
\* the slot of a ceiling in stasis to one that had none, and nothing wakes it.)
MoversAgree == OneMover /\ TablesTrue

PlatInStasis(m) == m.kind = "plat" /\ m.dir = "stasis"
SlotLost(id) == w.mover[id].kind = "ceiling" /\ w.mover[id].dir = "stasis" /\ id \notin w.ceilings

\* The places of the list that a save and a load keep, and where they come to.
Kept == {i \in DOMAIN w.list : ~ PlatInStasis(w.mover[w.list[i]])}
Place(i) == Cardinality({k \in Kept : k <= i})

\* A save and a load keep every mover, the ceilings in stasis among them, in
\* the order they think in (a platform in stasis is the exception: P_ArchiveSpecials
\* looks for it in activeceilings), and give each sector its own mover back, as
\* long as no ceiling in stasis has lost its slot to an earlier load.
ReloadKeeps ==
  [][Reload /\ (\A id \in Live : ~ SlotLost(id)) =>
       /\ Len(w'.list) = Cardinality(Kept)
       /\ \A i \in Kept : w'.mover[w'.list[Place(i)]] = w.mover[w.list[i]]
       /\ \A s \in Sectors \ Overwritten :
            w.data[s] # NoMover /\ ~ PlatInStasis(w.mover[w.data[s]]) =>
              w'.data[s] # NoMover /\ w'.mover[w'.data[s]] = w.mover[w.data[s]]]_moversVars

\* The movers that never finish: those meant to go on; a ceiling that found no
\* slot in activeceilings; a door that was turned against its type, so that
\* T_VerticalDoor has no case for its end; a wait that was zero or less; two
\* movers that pull one plane both ways.
NeverEnds(id) ==
  LET m == w.mover[id] IN
  \/ m.dir = "stasis"
  \/ m.type \in {"perpetualRaise", "crushAndRaise"}
  \/ m.kind = "ceiling" /\ id \notin w.ceilings
  \/ m.kind = "door" /\ m.dir = "up" /\ m.type \in {"close", "raiseIn5Mins"}
  \/ m.kind = "door" /\ m.dir = "down" /\ m.type \in {"open", "raiseIn5Mins"}
  \/ m.dir = "waiting" /\ m.count = Forever
  \/ \E k \in Live \ {id} : w.mover[k].sec = m.sec

\* Once nobody uses a line or stands in the way, every other mover comes to
\* its end and gives its sector back.
\* (calm is for ever, so this is calm ~> ...)
Settles == []<>(calm => w.error # "no" \/ \A id \in Live : NeverEnds(id))

=============================================================================
