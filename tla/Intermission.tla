---------------------------- MODULE Intermission ----------------------------
(***************************************************************************)
(* The intermission of engine/core/wi_stuff.c as a machine that its ticker *)
(* steps: the counting of the statistics, stage by stage, then the map     *)
(* with the next location, then a short wait.  A new press of fire or use  *)
(* by any player finishes the count, and the next one leaves it.           *)
(*                                                                         *)
(* What is counted is abstracted to the passes a count takes.  A           *)
(* deathmatch's count may take for ever: dm_frags stops at 99 either way,  *)
(* and a player who dropped in meanwhile starts from what the last         *)
(* intermission left.  A definition named X_Y is X with a plausible bug.   *)
(***************************************************************************)
EXTENDS Integers

CONSTANTS
  PauseTics,    \* TICRATE, between two counts
  ShowTics,     \* SHOWNEXTLOCDELAY * TICRATE
  NoTics        \* the 10 tics of NoState

Endless == -1   \* a count that does not end, or a counter that passed zero

LastStage(kind) == IF kind = "deathmatch" THEN 4 ELSE 10
FragStage == 8      \* the netgame's stage that is skipped when nobody fragged

WI_initNoState_SameCount(wi) == [wi EXCEPT !.state = "NoState", !.acc = FALSE]
WI_initNoState(wi) == [wi EXCEPT !.state = "NoState", !.acc = FALSE, !.cnt = NoTics]
WI_initShowNextLoc(wi) ==
  [wi EXCEPT !.state = "ShowNextLoc", !.acc = FALSE, !.cnt = ShowTics]

\* WI_Start: WI_initStats, WI_initNetgameStats or WI_initDeathmatchStats.
WI_Start(kind, frags) ==
  [state |-> "StatCount", kind |-> kind, frags |-> frags, stage |-> 1,
   left |-> 0, pause |-> PauseTics, cnt |-> 0, acc |-> FALSE]

\* WI_updateStats, WI_updateNetgameStats and WI_updateDeathmatchStats, which
\* differ in their number of stages.  passes: what the next count will take.
WI_updateStats(wi, commercial, passes) ==
  LET last == LastStage(wi.kind)
      After(s) == IF s + 1 = FragStage - 1 /\ wi.kind = "netgame" /\ ~ wi.frags
                  THEN FragStage + 1 ELSE s + 1
  IN CASE wi.acc /\ wi.stage # last ->
            [wi EXCEPT !.acc = FALSE, !.stage = last]
       [] wi.stage = last ->
            IF ~ wi.acc THEN wi
            ELSE IF commercial THEN WI_initNoState(wi) ELSE WI_initShowNextLoc(wi)
       [] wi.stage % 2 = 0 /\ wi.stage # last ->
            CASE wi.left = 0 -> [wi EXCEPT !.stage = After(wi.stage)]
              [] wi.left > 0 -> [wi EXCEPT !.left = wi.left - 1]
              [] OTHER -> wi
       [] OTHER ->
            IF wi.pause = 1
            THEN [wi EXCEPT !.stage = wi.stage + 1, !.pause = PauseTics, !.left = passes]
            ELSE [wi EXCEPT !.pause = wi.pause - 1]

Countdown(n) == IF n > 0 THEN n - 1 ELSE Endless

WI_updateShowNextLoc(wi) ==
  IF wi.cnt = 1 \/ wi.acc THEN WI_initNoState(wi) ELSE [wi EXCEPT !.cnt = Countdown(wi.cnt)]

WI_updateNoState(wi) == [wi EXCEPT !.cnt = Countdown(wi.cnt)]

\* WI_Ticker, WI_checkForAccelerate included: press is a new press.
WI_Ticker(old, press, commercial, passes) ==
  LET wi == [old EXCEPT !.acc = old.acc \/ press]
  IN CASE wi.state = "StatCount" -> WI_updateStats(wi, commercial, passes)
       [] wi.state = "ShowNextLoc" -> WI_updateShowNextLoc(wi)
       [] wi.state = "NoState" -> WI_updateNoState(wi)

\* The tic in which WI_updateNoState calls G_WorldDone.
WI_Done(old, new) == old.state = "NoState" /\ old.cnt = 1 /\ new.cnt = 0

NoIntermission == [WI_Start("single", FALSE) EXCEPT !.state = "NoState"]
=============================================================================
