------------------------------ MODULE Thinkers ------------------------------
(***************************************************************************)
(* The list of thinkers of engine/core/p_tick.c: a ring of zone blocks     *)
(* linked both ways through thinkercap, walked from head to tail once a    *)
(* tic.  A thinker is removed by a mark and freed when the walk comes to   *)
(* it, and while one thinks it may spawn others, mark others, or itself.   *)
(* A freed block may become the next thinker.                              *)
(*                                                                         *)
(* ran and since are the history the properties speak of.  A definition    *)
(* named X_Y is X with a plausible bug in it.                              *)
(***************************************************************************)
CONSTANTS
  Nodes,        \* the zone blocks a thinker can occupy
  thinkercap    \* the list's head

ASSUME ThinkersAssumption == thinkercap \notin Nodes

VARIABLES
  live,         \* the blocks that are allocated to a thinker
  tnext, tprev, \* thinker.next, thinker.prev
  func,         \* thinker.function: "think", "null" (stasis) or "removed" (-1)
  cur,          \* P_RunThinkers' currentthinker; thinkercap between two walks
  phase,        \* "idle", "walk" (at the loop's test) or "call" (cur thinks)
  ran,          \* the thinkers this walk has passed
  since         \* the thinkers that were in the list when it began, or joined since

thinkersVars == <<live, tnext, tprev, func, cur, phase, ran, since>>
linkVars == <<live, tnext, tprev>>

Ring == Nodes \cup {thinkercap}

P_InitThinkers ==
  /\ live = {}
  /\ tnext = [n \in Ring |-> thinkercap] /\ tprev = [n \in Ring |-> thinkercap]
  /\ func = [n \in Nodes |-> "null"]
  /\ cur = thinkercap /\ phase = "idle"
  /\ ran = {} /\ since = {}

\* Anything of the playsim that runs: a thinker's own function, or between
\* two walks a player, a line, a respawn.
Running == phase \in {"idle", "call"}

\* Z_Malloc and P_AddThinker: the new thinker goes behind the last one.
P_AddThinker_First(n) ==
  /\ Running /\ n \notin live
  /\ live' = live \cup {n}
  /\ tnext' = [tnext EXCEPT ![thinkercap] = n, ![n] = tnext[thinkercap]]
  /\ tprev' = [tprev EXCEPT ![n] = thinkercap, ![tnext[thinkercap]] = n]
  /\ func' = [func EXCEPT ![n] = "think"]
  /\ since' = since \cup {n}
  /\ UNCHANGED <<cur, phase, ran>>
P_AddThinker(n) ==
  /\ Running /\ n \notin live
  /\ live' = live \cup {n}
  /\ tnext' = [tnext EXCEPT ![tprev[thinkercap]] = n, ![n] = thinkercap]
  /\ tprev' = [tprev EXCEPT ![n] = tprev[thinkercap], ![thinkercap] = n]
  /\ func' = [func EXCEPT ![n] = "think"]
  /\ since' = since \cup {n}
  /\ UNCHANGED <<cur, phase, ran>>

P_RemoveThinker_AtOnce(n) ==
  /\ Running /\ n \in live
  /\ tnext' = [tnext EXCEPT ![tprev[n]] = tnext[n]]
  /\ tprev' = [tprev EXCEPT ![tnext[n]] = tprev[n]]
  /\ live' = live \ {n} /\ since' = since \ {n}
  /\ UNCHANGED <<func, cur, phase, ran>>
P_RemoveThinker(n) ==
  /\ Running /\ n \in live
  /\ func' = [func EXCEPT ![n] = "removed"]
  /\ UNCHANGED <<linkVars, cur, phase, ran, since>>

\* EV_StopPlat, EV_CeilingCrushStop and what undoes them.
Stasis(n) ==
  /\ Running /\ n \in live /\ func[n] # "removed"
  /\ func' = [func EXCEPT ![n] = IF @ = "think" THEN "null" ELSE "think"]
  /\ UNCHANGED <<linkVars, cur, phase, ran, since>>

P_RunThinkers ==
  /\ phase = "idle" /\ phase' = "walk"
  /\ cur' = tnext[thinkercap]
  /\ ran' = {} /\ since' = live
  /\ UNCHANGED <<linkVars, func>>

\* "time to remove it": the next link is read before the block is freed.
Unlink ==
  /\ phase = "walk" /\ cur # thinkercap /\ func[cur] = "removed"
  /\ tnext' = [tnext EXCEPT ![tprev[cur]] = tnext[cur]]
  /\ tprev' = [tprev EXCEPT ![tnext[cur]] = tprev[cur]]
  /\ live' = live \ {cur}
  /\ since' = since \ {cur}
  /\ cur' = tnext[cur]
  /\ UNCHANGED <<func, phase, ran>>

Call ==
  /\ phase = "walk" /\ cur # thinkercap /\ func[cur] # "removed"
  /\ ran' = ran \cup {cur}
  /\ phase' = IF func[cur] = "think" THEN "call" ELSE "walk"
  /\ cur' = IF func[cur] = "think" THEN cur ELSE tnext[cur]
  /\ UNCHANGED <<linkVars, func, since>>

\* The think call is over: the next link is read only now.
Return ==
  /\ phase = "call" /\ phase' = "walk"
  /\ cur' = tnext[cur]
  /\ UNCHANGED <<linkVars, func, ran, since>>

WalkEnds ==
  /\ phase = "walk" /\ cur = thinkercap
  /\ phase' = "idle"
  /\ UNCHANGED <<linkVars, func, cur, ran, since>>

\* P_UnArchiveThinkers: every thinker of the level goes, marked ones too, and
\* the list starts empty.
P_UnArchiveThinkers ==
  /\ phase = "idle"
  /\ live' = {}
  /\ tnext' = [tnext EXCEPT ![thinkercap] = thinkercap] /\ tprev' = [tprev EXCEPT ![thinkercap] = thinkercap]
  /\ UNCHANGED <<func, cur, phase, ran, since>>

ThinkersNext ==
  \/ \E n \in Nodes : P_AddThinker(n) \/ P_RemoveThinker(n) \/ Stasis(n)
  \/ P_RunThinkers \/ Unlink \/ Call \/ Return \/ WalkEnds
  \/ P_UnArchiveThinkers

ThinkersSpec == P_InitThinkers /\ [][ThinkersNext]_thinkersVars

-----------------------------------------------------------------------------
ThinkersTypeOK ==
  /\ live \subseteq Nodes
  /\ tnext \in [Ring -> Ring] /\ tprev \in [Ring -> Ring]
  /\ func \in [Nodes -> {"think", "null", "removed"}]
  /\ cur \in Ring /\ phase \in {"idle", "walk", "call"}
  /\ ran \subseteq Nodes /\ since \subseteq Nodes

\* The two link fields mirror each other and lead from thinkers to thinkers, and
\* the walk stands on one: whatever was spawned, marked or freed since it began,
\* neither a link nor currentthinker is a freed block.
Linked ==
  /\ \A n \in live \cup {thinkercap} :
       /\ tnext[n] \in live \cup {thinkercap} /\ tprev[n] \in live \cup {thinkercap}
       /\ tprev[tnext[n]] = n /\ tnext[tprev[n]] = n
  /\ cur \in live \cup {thinkercap}

\* A tic runs every thinker, once: when the walk ends, each thinker that was in
\* the list at its start or was spawned on the way has been run or freed by it,
\* and the walk never came back to one it had run.
EachRunsOnce ==
  [][(WalkEnds => since \subseteq ran) /\ (Call => cur \notin ran)]_thinkersVars
=============================================================================
